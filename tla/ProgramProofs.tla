---------------------------- MODULE ProgramProofs ----------------------------
(***************************************************************************)
(* Proofs about the program.  For every set of configurations, every       *)
(* finite set of module names and every batch size: that the built graph   *)
(* is that of its configuration, that the observer is told no earlier than *)
(* every module is through, and why the process may end (module            *)
(* FramePath).  For every set of tasks, every priority and every number of *)
(* workers: what the pools that run its tasks leave behind when they stop, *)
(* and that they implement TaskPool (module ThreadPool).                   *)
(*                                                                         *)
(* The two modules share no variable: a theorem is about one of them.      *)
(***************************************************************************)
EXTENDS ThreadPool, FramePath, FiniteSetTheorems, TLAPS, WellFoundedInduction

-----------------------------------------------------------------------------
(* The invariant of the program: the graph, the count of open modules,     *)
(* where main is, where frames and the end of the stream are.              *)

\* The modules that were created: those with connectors and links.
Created == DOMAIN output_connectors

Early == {"read", "add", "link"}
Late == {"run", "failed", "stopped", "crashed"}

\* What the maps of a pipeline are defined on.
MapsOK ==
    /\ conf \in Configurations
    /\ configs = IF conf.from = "code" THEN conf.modules ELSE << >>
    /\ phase \in Phases \cup {"stopped"}
    /\ at \in 0 .. Len(configs)
    /\ modules_map = [n \in Names |-> modules_map[n]]
    /\ modules_config_ = [n \in Created |-> modules_config_[n]]
    /\ connector \in [Created -> Nat]
    /\ output_connectors \in [Created -> Seq(Created)]
    /\ input_connectors \in [Created -> Seq(Created)]
    /\ Names \subseteq ModuleNames
    /\ Created = {n \in Names : modules_map[n] # Null}
    /\ phase \in {"read", "add"} => Created = Names
    /\ phase = "read" => conf.from # "code"
    /\ \A k \in 1 .. Len(configs) :
         (phase = "link" \/ (phase = "add" /\ k <= at)) => configs[k].name \in Created
    /\ opened \subseteq Created

\* The count of open modules, and where Start can leave it.
StartOK ==
    /\ run_id \in 0 .. Cardinality(ModuleNames) + 1
    /\ phase \in Early => opened = {} /\ run_id = 1
    /\ phase = "open" => run_id = Cardinality(opened) + 1
    /\ phase = "failed" => /\ opened # {} /\ through \subseteq {"source"}
                           /\ run_id + Cardinality(through) = Cardinality(opened) + 2
    /\ phase \in {"run", "stopped"} =>
         \/ opened = {} /\ main = "start"
         \/ /\ opened = Names
            /\ FanIn \/ run_id + Cardinality(through) = Cardinality(opened) + 1

\* While it is built from the code, the graph is that of the modules handled.
FirstLink(v) == SubSeq(v.next, 1, Smaller(Len(v.next), 1))

GraphOf(handled, linked) ==
    /\ Names = {configs[k].name : k \in handled}
    /\ \A k \in handled :
         /\ modules_map[configs[k].name] = configs[k].class
         /\ ParamSet(configs[k].name) = configs[k].params
         /\ output_connectors[configs[k].name]
            = IF k \in linked THEN FirstLink(configs[k]) ELSE << >>

BuildOK ==
    (conf.from = "code" /\ Consistent) =>
        /\ phase = "add" => GraphOf(1 .. at, {})
        /\ phase = "link" => GraphOf(1 .. Len(configs), 1 .. at)
        /\ phase \in {"open", "run"} => GraphOf(1 .. Len(configs), 1 .. Len(configs))

\* Every link is in both directions, between any two modules.
CountsAgree ==
    \A m, n \in Created : Cardinality(Ends(output_connectors[m], n))
                         = Cardinality(Ends(input_connectors[n], m))

GraphIInv == MapsOK /\ BuildOK /\ CountsAgree

\* main has done nothing yet, or an opened Source is there.
MainOK ==
    /\ main \in {"start", "run", "eos", "exit"}
    /\ main = "start" =>
         /\ stream = << >> /\ frames = << >> /\ late = {} /\ through = {}
         /\ ~stop_pipeline
         /\ \A n \in ModuleNames : /\ queue[n] = << >> /\ batch_array[n] = << >>
                                   /\ requests[n] = << >>
         /\ \A t \in Threads : sending[t] = << >>
    /\ main # "start" => /\ phase \in Late
                         /\ "source" \in opened
                         /\ modules_map["source"] = "Source"
    /\ "source" \in through => main \in {"eos", "exit"}
    /\ through \subseteq opened

IsList(s) == s \in Seq(Range(s))

IsFrame(x) ==
    \/ x = [eos |-> TRUE]
    \/ /\ x = [eos |-> FALSE, image |-> x.image, objs |-> x.objs]
       /\ x.image \in Images \cup {NoImage} /\ IsList(x.objs)

Plain == {f \in DOMAIN frames : ~frames[f].eos}
Targets(n) == IF n \in Created THEN Range(output_connectors[n]) ELSE {}

SendingOK ==
    /\ DOMAIN sending = Threads
    /\ \A n \in ModuleNames :
         /\ sending[<<n, "loop">>] \in Seq([frame : DOMAIN frames, to : Targets(n)])
         /\ sending[<<n, "response">>] \in Seq([frame : Plain, to : Targets(n)])

HeldOK ==
    /\ batch_array \in [ModuleNames -> Seq(Plain)]
    /\ requests \in [ModuleNames -> Seq({b \in Seq(Plain) : Len(b) = Batch})]
    /\ \A n \in ModuleNames : requests[n] # << >> => n \in Created
    /\ \A x \in late : x.frame \in Plain /\ IsList(x.objs)

\* Every number that is anywhere is that of a frame, those of Inference of one
\* that is not the end.
FlowOK ==
    /\ stream \in Seq(Images \cup {NoImage, Moved})
    /\ IsList(frames)
    /\ \A f \in DOMAIN frames : IsFrame(frames[f])
    /\ main \in {"start", "run"} => Plain = DOMAIN frames
    /\ queue \in [ModuleNames -> Seq(DOMAIN frames)]
    /\ SendingOK
    /\ HeldOK

\* The end of the stream comes to a module once, from the only module that is
\* linked to it.
EndAt(n, i) == i \in DOMAIN queue[n] /\ queue[n][i] \notin Plain
EndFor(n, m, i) == /\ i \in DOMAIN sending[Loop(m)]
                   /\ sending[Loop(m)][i].to = n /\ sending[Loop(m)][i].frame \notin Plain

EndQueued(n) == \E i \in DOMAIN queue[n] : EndAt(n, i)
EndSent(n, m) == \E i \in DOMAIN sending[Loop(m)] : EndFor(n, m, i)

EndOK(n) ==
    /\ \A i, j \in DOMAIN queue[n] : EndAt(n, i) /\ EndAt(n, j) => i = j
    /\ \A m \in ModuleNames : \A i, j \in DOMAIN sending[Loop(m)] :
         EndFor(n, m, i) /\ EndFor(n, m, j) => i = j
    /\ \A m \in ModuleNames : EndSent(n, m) =>
         /\ ~EndQueued(n)
         /\ n \notin through
         /\ m \in through
    /\ EndQueued(n) => n \notin through
    /\ EndQueued(n) \/ n \in through =>
         \E m \in Created \cap through : n \in Range(output_connectors[m])

EndsOK == ~FanIn => \A n \in ModuleNames \ {"source"} : EndOK(n)

\* Faces without landmarks come from the classifier only; the second image of
\* a directory is the one that was moved away.
HasLandmarks(objs) == \A k \in DOMAIN objs : Len(objs[k].fp) = 3

FacesOK ==
    /\ ~HasClass("OpencvDetect") =>
         /\ \A f \in Plain : HasLandmarks(frames[f].objs)
         /\ \A x \in late : HasLandmarks(x.objs)
    /\ Moved \in Range(stream) => ImgFlag(conf.path) /\ Len(GetFiles(conf.path)) > 1

\* Only an image that cannot be read is missing, and data that Inference could
\* not get from it or from the device.
MissingOK ==
    /\ NoImage \in Range(stream) => Unreadable(conf.path)
    /\ \A f \in Plain : frames[f].image = NoImage => Unreadable(conf.path)
    /\ \A n \in ModuleNames : requests[n] # << >> => HasClass("Inference")
    /\ late # {} => HasClass("Inference")
    /\ \A x \in late : x.null => conf.fails \/ Unreadable(conf.path)

PathIInv == GraphIInv /\ StartOK /\ MainOK /\ FlowOK /\ EndsOK /\ Bounded
            /\ ToldWhenThrough /\ FacesOK /\ MissingOK /\ CrashExplained
-----------------------------------------------------------------------------
(* Sequences.                                                              *)

LEMMA NatSetInduction ==
    ASSUME NEW S, 0 \in S, \A n \in Nat : n \in S => n + 1 \in S
    PROVE  Nat \subseteq S
<1>1. SUFFICES ASSUME Nat \ S # {} PROVE FALSE
  OBVIOUS
<1>2. PICK d \in Nat \ S : \A e \in Nat \ S : ~(<<e, d>> \in OpToRel(<, Nat))
  BY <1>1, NatLessThanWellFounded, WFMin
<1>3. d # 0
  OBVIOUS
<1>4. d - 1 \in Nat /\ d - 1 < d
  BY <1>3
<1>5. d - 1 \in S
  BY <1>2, <1>4 DEF OpToRel
<1> QED BY <1>4, <1>5

\* FlattenSeq puts a sequence of sequences together from the left.
LEMMA FlattenUnfold ==
    ASSUME NEW s, Len(s) \in Nat
    PROVE  /\ Len(s) = 0 => FlattenSeq(s) = s
           /\ \E f : /\ \A i \in 1 .. Len(s) : f[i] = IF i = 1 THEN s[i] ELSE f[i - 1] \o s[i]
                     /\ Len(s) # 0 => FlattenSeq(s) = f[Len(s)]
<1> DEFINE Cat(x, i) == x \o s[i]
           Flat(g, m) == g = [i \in 1 .. m |-> IF i = 1 THEN s[i]
                                              ELSE Cat(g[i - 1], i)]
           There == {m \in Nat : \E g : Flat(g, m)}
           f == CHOOSE g : Flat(g, Len(s))
<1>3. FlattenSeq(s) = IF Len(s) = 0 THEN s ELSE f[Len(s)]
  BY DEF FlattenSeq
<1> HIDE DEF Cat
<1>4. Nat \subseteq There
  <2>1. 0 \in There
    <3>1. Flat(<< >>, 0)
      OBVIOUS
    <3> QED BY <3>1
  <2>2. ASSUME NEW m \in Nat, m \in There PROVE m + 1 \in There
    <3>1. PICK g : Flat(g, m)
      BY <2>2
    <3> DEFINE h == [i \in 1 .. m + 1 |-> IF i = 1 THEN s[i] ELSE Cat(g[i - 1], i)]
    <3>2. \A i \in 1 .. m : h[i] = IF i = 1 THEN s[i] ELSE Cat(g[i - 1], i)
      OBVIOUS
    <3>3. \A i \in 1 .. m : g[i] = IF i = 1 THEN s[i] ELSE Cat(g[i - 1], i)
      BY <3>1
    <3>4. \A i \in 1 .. m + 1 : i # 1 => i - 1 \in 1 .. m
      OBVIOUS
    <3>5. \A i \in 1 .. m + 1 : i # 1 => h[i - 1] = g[i - 1]
      <4> HIDE DEF h
      <4> QED BY <3>2, <3>3, <3>4
    <3>6. h = [i \in 1 .. m + 1 |-> IF i = 1 THEN s[i] ELSE Cat(h[i - 1], i)]
      BY <3>5
    <3> HIDE DEF h
    <3>7. \E x : Flat(x, m + 1)
      BY <3>6
    <3> HIDE DEF Flat
    <3> QED BY <3>7
  <2> HIDE DEF There
  <2> QED BY <2>1, <2>2, NatSetInduction
<1>5. Flat(f, Len(s))
  BY <1>4
<1> HIDE DEF f
<1>6. \A i \in 1 .. Len(s) : f[i] = IF i = 1 THEN s[i] ELSE Cat(f[i - 1], i)
  BY <1>5
<1> QED BY <1>3, <1>6 DEF Cat

\* A sequence of sequences over a set, put together, is one over that set.
LEMMA FlattenType ==
    ASSUME NEW T, NEW s \in Seq(Seq(T))
    PROVE  FlattenSeq(s) \in Seq(T)
<1>1. Len(s) \in Nat /\ \A i \in 1 .. Len(s) : s[i] \in Seq(T)
  OBVIOUS
<1>2. PICK f : /\ \A i \in 1 .. Len(s) : f[i] = IF i = 1 THEN s[i] ELSE f[i - 1] \o s[i]
               /\ Len(s) # 0 => FlattenSeq(s) = f[Len(s)]
  BY <1>1, FlattenUnfold
<1> DEFINE Typed == {m \in Nat : m \in 1 .. Len(s) => f[m] \in Seq(T)}
<1>3. Nat \subseteq Typed
  <2>1. 0 \in Typed
    OBVIOUS
  <2>2. ASSUME NEW m \in Nat, m \in Typed, m + 1 \in 1 .. Len(s)
        PROVE  f[m + 1] \in Seq(T)
    <3>1. CASE m = 0
      BY <1>1, <1>2, <2>2, <3>1
    <3>2. CASE m # 0
      <4>1. m \in 1 .. Len(s) /\ m + 1 # 1 /\ (m + 1) - 1 = m
        BY <1>1, <2>2, <3>2
      <4>2. f[m + 1] = f[m] \o s[m + 1]
        BY <1>2, <2>2, <4>1
      <4>3. f[m] \in Seq(T)
        BY <2>2, <4>1
      <4> QED BY <1>1, <2>2, <4>2, <4>3
    <3> QED BY <3>1, <3>2
  <2>3. ASSUME NEW m \in Nat, m \in Typed PROVE m + 1 \in Typed
    <3>1. m + 1 \in 1 .. Len(s) => f[m + 1] \in Seq(T)
      BY <2>2, <2>3
    <3> QED BY <3>1
  <2> HIDE DEF Typed
  <2> QED BY <2>1, <2>3, NatSetInduction
<1>4. CASE Len(s) = 0
  <2>1. FlattenSeq(s) = s
    BY <1>1, <1>4, FlattenUnfold
  <2>2. s \in Seq(T)
    BY <1>4
  <2> QED BY <2>1, <2>2
<1>5. CASE Len(s) # 0
  <2>1. Len(s) \in 1 .. Len(s)
    BY <1>1, <1>5
  <2> QED BY <1>1, <1>2, <1>3, <1>5, <2>1
<1> QED BY <1>4, <1>5

LEMMA ListFacts ==
    ASSUME NEW S, NEW s \in Seq(S)
    PROVE  IsList(s) /\ Range(s) \subseteq S
BY DEF IsList, Range

\* A list of some of the elements of another, each with f.
LEMMA FilterType ==
    ASSUME NEW T, NEW n \in Nat, NEW keep, NEW v,
           \A k \in 1 .. n : keep[k] => v[k] \in T
    PROVE  FlattenSeq([k \in 1 .. n |-> IF keep[k] THEN <<v[k]>> ELSE << >>]) \in Seq(T)
<1> DEFINE s == [k \in 1 .. n |-> IF keep[k] THEN <<v[k]>> ELSE << >>]
<1>1. \A k \in 1 .. n : s[k] \in Seq(T)
  OBVIOUS
<1>2. s \in Seq(Seq(T))
  <2> HIDE DEF s
  <2>1. s = [k \in 1 .. n |-> s[k]]
    BY DEF s
  <2> QED BY <1>1, <2>1
<1> QED BY <1>2, FlattenType

\* A filter: pos are the places in 1 .. n of the elements that are kept.
Picks(r, pos, P, g) ==
    /\ pos \in [1 .. Len(r) -> P]
    /\ \A k \in P : \E i \in 1 .. Len(r) : pos[i] = k
    /\ \A i, j \in 1 .. Len(r) : i < j => pos[i] < pos[j]
    /\ \A i \in 1 .. Len(r) : r[i] = g[pos[i]]

LEMMA FilterPicks ==
    ASSUME NEW n \in Nat, NEW S, NEW g \in [1 .. n -> S], NEW P \in SUBSET (1 .. n)
    PROVE  LET r == FlattenSeq([k \in 1 .. n |-> IF k \in P THEN <<g[k]>> ELSE << >>])
           IN  r \in Seq(S) /\ \E pos : Picks(r, pos, P, g)
<1> DEFINE s == [k \in 1 .. n |-> IF k \in P THEN <<g[k]>> ELSE << >>]
           Upto(m) == {k \in P : k <= m}
           Good(x, m) == x \in Seq(S) /\ \E pos : Picks(x, pos, Upto(m), g)
<1>1. Len(s) = n /\ \A k \in 1 .. n : s[k] = IF k \in P THEN <<g[k]>> ELSE << >>
  OBVIOUS
<1>p. \A k \in P : k \in Int /\ 1 <= k /\ k <= n
  OBVIOUS
<1> HIDE DEF s
<1>2. Good(<< >>, 0)
  <2>1. Upto(0) = {} /\ << >> \in Seq(S)
    <3>1. \A k \in P : ~(k <= 0)
      BY <1>p
    <3>2. << >> \in Seq(S)
      OBVIOUS
    <3> QED BY <3>1, <3>2
  <2>2. Picks(<< >>, [i \in 1 .. 0 |-> i], {}, g)
    <3>1. Len(<< >>) = 0 /\ 1 .. 0 = {}
      OBVIOUS
    <3> QED BY <3>1 DEF Picks
  <2> QED BY <2>1, <2>2
<1>3. ASSUME NEW m \in Nat, m + 1 \in 1 .. n, NEW x, Good(x, m)
      PROVE  Good(x \o s[m + 1], m + 1)
  <2>1. PICK pos : Picks(x, pos, Upto(m), g)
    BY <1>3
  <2>2. x \in Seq(S) /\ Len(x) \in Nat
    BY <1>3
  <2>3. CASE m + 1 \notin P
    <3>1. Upto(m + 1) = Upto(m)
      <4>1. \A k \in P : k <= m + 1 <=> k <= m
        BY <1>p, <2>3
      <4> QED BY <4>1
    <3>2. x \o s[m + 1] = x
      <4>1. s[m + 1] = << >>
        BY <1>1, <1>3, <2>3
      <4>2. x \o << >> = x
        BY <2>2
      <4> QED BY <4>1, <4>2
    <3> QED BY <1>3, <3>1, <3>2
  <2>4. CASE m + 1 \in P
    <3> DEFINE y == Append(x, g[m + 1])
               new == [i \in 1 .. Len(x) + 1 |-> IF i <= Len(x) THEN pos[i] ELSE m + 1]
    <3>1. x \o s[m + 1] = y
      <4>1. s[m + 1] = <<g[m + 1]>> /\ g[m + 1] \in S
        BY <1>1, <1>3, <2>4
      <4>2. x \o <<g[m + 1]>> = Append(x, g[m + 1])
        BY <2>2, <4>1
      <4> QED BY <4>1, <4>2
    <3>2. /\ Upto(m + 1) = Upto(m) \cup {m + 1} /\ m + 1 \notin Upto(m)
          /\ \A k \in Upto(m) : k < m + 1
      <4>1. \A k \in P : k <= m + 1 <=> k <= m \/ k = m + 1
        BY <1>p
      <4>2. \A k \in P : k <= m => k < m + 1
        BY <1>p
      <4>3. ~(m + 1 <= m)
        OBVIOUS
      <4>4. Upto(m + 1) = Upto(m) \cup {m + 1}
        BY <2>4, <4>1
      <4> QED BY <4>2, <4>3, <4>4
    <3>3. /\ y \in Seq(S) /\ Len(y) = Len(x) + 1 /\ y[Len(x) + 1] = g[m + 1]
          /\ \A i \in 1 .. Len(x) : y[i] = x[i]
      BY <1>3, <2>2
    <3> HIDE DEF y, Upto
    <3>4. /\ pos \in [1 .. Len(x) -> Upto(m)]
          /\ \A k \in Upto(m) : \E i \in 1 .. Len(x) : pos[i] = k
          /\ \A i, j \in 1 .. Len(x) : i < j => pos[i] < pos[j]
          /\ \A i \in 1 .. Len(x) : x[i] = g[pos[i]]
      BY <2>1 DEF Picks
    <3>5. /\ new[Len(x) + 1] = m + 1 /\ \A i \in 1 .. Len(x) : new[i] = pos[i]
          /\ new \in [1 .. Len(x) + 1 -> Upto(m + 1)]
      BY <2>2, <3>2, <3>4
    <3> HIDE DEF new
    <3>6. \A k \in Upto(m + 1) : \E i \in 1 .. Len(x) + 1 : new[i] = k
      BY <2>2, <3>2, <3>4, <3>5
    <3>7. \A i, j \in 1 .. Len(x) + 1 : i < j => new[i] < new[j]
      <4> SUFFICES ASSUME NEW i \in 1 .. Len(x) + 1, NEW j \in 1 .. Len(x) + 1, i < j
                   PROVE  new[i] < new[j]
        OBVIOUS
      <4>1. i \in 1 .. Len(x) /\ new[i] = pos[i] /\ pos[i] \in Upto(m)
        BY <2>2, <3>4, <3>5, SMTT(30)
      <4>2. CASE j = Len(x) + 1
        BY <3>2, <3>5, <4>1, <4>2
      <4>3. CASE j \in 1 .. Len(x)
        BY <3>4, <3>5, <4>1, <4>3
      <4> QED BY <2>2, <4>2, <4>3
    <3>8. \A i \in 1 .. Len(x) + 1 : y[i] = g[new[i]]
      BY <2>2, <3>3, <3>4, <3>5
    <3>9. Picks(y, new, Upto(m + 1), g)
      BY <3>3, <3>5, <3>6, <3>7, <3>8 DEF Picks
    <3> QED BY <3>1, <3>3, <3>9
  <2> QED BY <2>3, <2>4
<1> HIDE DEF Good
<1>4. PICK f : /\ \A i \in 1 .. Len(s) : f[i] = IF i = 1 THEN s[i] ELSE f[i - 1] \o s[i]
               /\ Len(s) # 0 => FlattenSeq(s) = f[Len(s)]
  BY <1>1, FlattenUnfold
<1> DEFINE Right == {m \in Nat : m \in 1 .. n => Good(f[m], m)}
<1>5. Nat \subseteq Right
  <2>1. 0 \in Right
    OBVIOUS
  <2>2. ASSUME NEW m \in Nat, m \in Right, m + 1 \in 1 .. n PROVE Good(f[m + 1], m + 1)
    <3>1. CASE m = 0
      <4>1. f[1] = s[1]
        BY <1>1, <1>4, <2>2, <3>1
      <4>2. s[1] = << >> \o s[1]
        <5>1. s[1] \in Seq(S)
          <6>1. 1 \in 1 .. n /\ g[1] \in S
            BY <2>2, <3>1
          <6>2. <<g[1]>> \in Seq(S) /\ << >> \in Seq(S)
            BY <6>1
          <6> QED BY <1>1, <6>1, <6>2
        <5>2. \A q \in Seq(S) : << >> \o q = q
          OBVIOUS
        <5> QED BY <5>1, <5>2
      <4>3. Good(<< >> \o s[0 + 1], 0 + 1)
        BY <1>2, <1>3, <2>2, <3>1
      <4> QED BY <3>1, <4>1, <4>2, <4>3
    <3>2. CASE m # 0
      <4>1. m \in 1 .. n /\ m + 1 # 1 /\ (m + 1) - 1 = m
        BY <2>2, <3>2
      <4>2. f[m + 1] = f[m] \o s[m + 1]
        BY <1>1, <1>4, <2>2, <4>1
      <4> QED BY <1>3, <2>2, <4>1, <4>2
    <3> QED BY <3>1, <3>2
  <2>3. ASSUME NEW m \in Nat, m \in Right PROVE m + 1 \in Right
    <3>1. m + 1 \in 1 .. n => Good(f[m + 1], m + 1)
      BY <2>2, <2>3
    <3> QED BY <3>1
  <2> HIDE DEF Right
  <2> QED BY <2>1, <2>3, NatSetInduction
<1>6. Good(FlattenSeq(s), n)
  <2>1. CASE n = 0
    <3>1. FlattenSeq(s) = s /\ s = << >>
      BY <1>1, <2>1, FlattenUnfold DEF s
    <3> QED BY <1>2, <2>1, <3>1
  <2>2. CASE n # 0
    <3>1. n \in 1 .. n /\ n \in Nat
      BY <2>2
    <3> QED BY <1>1, <1>4, <1>5, <2>2, <3>1
  <2> QED BY <2>1, <2>2
<1>7. Upto(n) = P
  BY <1>p
<1> QED BY <1>6, <1>7 DEF Good, s

-----------------------------------------------------------------------------
(* What Postprocess finds.                                                 *)

LEMMA NmsType ==
    ASSUME NEW S, NEW s \in Seq(S)
    PROVE  Nms(s) \in Seq(S)
<1> DEFINE keep == CHOOSE g : g = [k \in DOMAIN s |-> ~Dropped(s, g, k)]
<1>1. Nms(s) = FlattenSeq([k \in DOMAIN s |-> IF keep[k] THEN <<s[k]>> ELSE << >>])
  BY DEF Nms
<1> HIDE DEF keep
<1>2. Len(s) \in Nat /\ DOMAIN s = 1 .. Len(s) /\ \A k \in 1 .. Len(s) : s[k] \in S
  OBVIOUS
<1>3. FlattenSeq([k \in 1 .. Len(s) |-> IF keep[k] THEN <<s[k]>> ELSE << >>]) \in Seq(S)
  BY <1>2, FilterType
<1> QED BY <1>1, <1>2, <1>3

LEMMA CutOutFaces ==
    ASSUME NEW S, NEW kept \in Seq(S), NEW w, NEW h
    PROVE  LET objs == CutOut(kept, w, h).objs IN IsList(objs) /\ HasLandmarks(objs)
<1> DEFINE before == {k \in DOMAIN kept :
                        \A j \in 1 .. k : Frontal(kept[j]) => Within(kept[j], w, h)}
           n == Cardinality(before)
           T == {FaceOf(kept[k], w, h) : k \in 1 .. n}
           s == [k \in 1 .. n |->
                    IF Frontal(kept[k]) THEN <<FaceOf(kept[k], w, h)>> ELSE << >>]
<1>1. n \in Nat
  <2>1. before \subseteq 1 .. Len(kept) /\ Len(kept) \in Nat
    OBVIOUS
  <2> HIDE DEF before
  <2>2. IsFiniteSet(1 .. Len(kept))
    BY <2>1, FS_Interval
  <2> QED BY <2>1, <2>2, FS_Subset, FS_CardinalityType
<1>2. CutOut(kept, w, h).objs = FlattenSeq(s)
  BY DEF CutOut
<1> HIDE DEF n
<1>3. ASSUME NEW k \in 1 .. n PROVE s[k] \in Seq(T)
  <2>1. FaceOf(kept[k], w, h) \in T
    OBVIOUS
  <2>2. s[k] = IF Frontal(kept[k]) THEN <<FaceOf(kept[k], w, h)>> ELSE << >>
    OBVIOUS
  <2> HIDE DEF s, T
  <2> QED BY <2>1, <2>2
<1>4. s \in Seq(Seq(T))
  <2>1. s = [k \in 1 .. n |-> s[k]]
    OBVIOUS
  <2> HIDE DEF s, T
  <2> QED BY <1>1, <1>3, <2>1
<1>5. FlattenSeq(s) \in Seq(T)
  <2> HIDE DEF s, T
  <2> QED BY <1>4, FlattenType
<1>6. \A o \in T : Len(o.fp) = 3
  BY DEF FaceOf
<1> HIDE DEF s, T
<1>7. IsList(FlattenSeq(s)) /\ HasLandmarks(FlattenSeq(s))
  <2>1. \A k \in DOMAIN FlattenSeq(s) : FlattenSeq(s)[k] \in T
    BY <1>5
  <2> QED BY <1>5, <1>6, <2>1, ListFacts DEF HasLandmarks
<1> QED BY <1>2, <1>7

LEMMA ImageFinite ==
    ASSUME NEW S, IsFiniteSet(S), NEW g
    PROVE  IsFiniteSet({g[x] : x \in S})
<1> DEFINE T == {g[x] : x \in S}
           f == [x \in S |-> g[x]]
<1>1. f \in Surjection(S, T)
  BY DEF Surjection
<1> QED BY <1>1, FS_Surjection

LEMMA SortedType ==
    ASSUME NEW S, IsFiniteSet(S), NEW s \in Sorted(S)
    PROVE  s \in Seq(S)
<1>1. Cardinality(S) \in Nat
  BY FS_CardinalityType
<1>2. s \in [1 .. Cardinality(S) -> S]
  BY DEF Sorted, SetToSeqs
<1> QED BY <1>1, <1>2

\* A finite set of hits makes finitely many proposals, each a box of numbers.
LEMMA ProposalsFinite ==
    ASSUME NEW image, IsFiniteSet(image.hits)
    PROVE  IsFiniteSet(Proposals(image))
<1> DEFINE P(l) == FilterAnchor(image.hits, l, image.w, image.h)
<1>1. ASSUME NEW l PROVE IsFiniteSet(P(l))
  <2> DEFINE H == {x \in image.hits : x.level = l /\ x.score > Threshold}
             Box(hit) == [hit |-> hit, score |-> hit.score,
                          box |-> BboxPred(AnchorAt(hit), hit.delta, image.w, image.h)]
             B == {Box(hit) : hit \in H}
             Full(b) == [score |-> b.score, box |-> b.box, hit |-> b.hit,
                         pts |-> LandmarkPred(AnchorAt(b.hit), b.hit.pts,
                                              image.w, image.h)]
  <2>1. P(l) = {Full(b) : b \in B}
    BY DEF FilterAnchor, FilterBoxes
  <2>2. IsFiniteSet(H)
    BY FS_Subset
  <2> HIDE DEF H, Box, Full
  <2>3. IsFiniteSet(B)
    <3> DEFINE g == [hit \in H |-> Box(hit)]
    <3>1. B = {g[hit] : hit \in H}
      OBVIOUS
    <3> HIDE DEF g, B
    <3> QED BY <2>2, <3>1, ImageFinite
  <2> HIDE DEF B
  <2>4. IsFiniteSet({Full(b) : b \in B})
    <3> DEFINE g == [b \in B |-> Full(b)]
    <3>1. {Full(b) : b \in B} = {g[b] : b \in B}
      OBVIOUS
    <3> HIDE DEF g
    <3> QED BY <2>3, <3>1, ImageFinite
  <2> HIDE DEF P
  <2> QED BY <2>1, <2>4
<1>2. Proposals(image) = P(1) \cup P(2) \cup P(3)
  BY DEF Proposals, FeatStride
<1> HIDE DEF P
<1>3. IsFiniteSet(P(1)) /\ IsFiniteSet(P(2)) /\ IsFiniteSet(P(3))
  BY <1>1
<1> QED BY <1>2, <1>3, FS_Union

\* What is found are faces with their three landmarks.
LEMMA PostprocessFaces ==
    ASSUME NEW image, IsFiniteSet(image.hits), NEW outputs,
           NEW r \in Postprocess(image, outputs)
    PROVE  IsList(r.objs) /\ HasLandmarks(r.objs)
<1>1. CASE outputs # OutputNum
  <2>1. r = [objs |-> << >>, thrown |-> FALSE]
    BY <1>1 DEF Postprocess
  <2>2. IsList(<< >>) /\ HasLandmarks(<< >>)
    BY DEF IsList, HasLandmarks
  <2> QED BY <2>1, <2>2
<1>2. CASE outputs = OutputNum
  <2>1. PICK s \in Sorted(Proposals(image)) : r = CutOut(Nms(s), image.w, image.h)
    BY <1>2 DEF Postprocess
  <2>2. s \in Seq(Proposals(image))
    BY <2>1, ProposalsFinite, SortedType
  <2>3. Nms(s) \in Seq(Proposals(image))
    BY <2>2, NmsType
  <2> QED BY <2>1, <2>3, CutOutFaces
<1> QED BY <1>1, <1>2

-----------------------------------------------------------------------------
(* What the decoder gives.                                                 *)

LEMMA ConfFacts ==
    ASSUME NEW c \in Configurations
    PROVE  /\ c.modules \in Seq(Range(c.modules))
           /\ \A v \in Range(c.modules) : IsModuleConfig(v)
           /\ c.path.entries \in Seq(Range(c.path.entries))
           /\ \A f \in Range(c.path.entries) : IsFile(f)
BY ConfigurationsAssumption DEF ConfigurationsAssumption

LEMMA ImageFacts ==
    ASSUME NEW i \in Images
    PROVE  IsImage(i)
<1>1. PICK c \in Configurations : \E f \in Range(c.path.entries) : i \in Range(f.images)
  BY DEF Images
<1> QED BY <1>1, ConfFacts DEF IsFile

LEMMA FilesType ==
    ASSUME NEW c \in Configurations
    PROVE  GetFiles(c.path) \in Seq(Range(c.path.entries))
<1> DEFINE es == c.path.entries
           keep == [k \in DOMAIN es |-> ~es[k].hidden]
<1>1. es \in Seq(Range(es)) /\ Len(es) \in Nat /\ DOMAIN es = 1 .. Len(es)
      /\ \A k \in 1 .. Len(es) : es[k] \in Range(es)
  <2>1. es \in Seq(Range(es))
    BY ConfFacts
  <2> HIDE DEF es
  <2> QED BY <2>1
<1>2. CASE c.path.kind = "dir"
  <2>1. GetFiles(c.path) =
          FlattenSeq([k \in 1 .. Len(es) |-> IF es[k].hidden THEN << >> ELSE <<es[k]>>])
    BY <1>1, <1>2 DEF GetFiles
  <2>2. [k \in 1 .. Len(es) |-> IF es[k].hidden THEN << >> ELSE <<es[k]>>]
        = [k \in 1 .. Len(es) |-> IF keep[k] THEN <<es[k]>> ELSE << >>]
    BY <1>1
  <2> HIDE DEF keep, es
  <2>3. FlattenSeq([k \in 1 .. Len(es) |-> IF keep[k] THEN <<es[k]>> ELSE << >>])
        \in Seq(Range(es))
    BY <1>1, FilterType
  <2>4. GetFiles(c.path) \in Seq(Range(es))
    BY <2>1, <2>2, <2>3
  <2> QED BY <2>4 DEF es
<1>3. CASE c.path.kind # "dir"
  BY <1>1, <1>3 DEF GetFiles
<1> QED BY <1>2, <1>3

\* The decoder gives images, an empty one only for a file that imread cannot
\* read, and one that was moved away only after the first of several in a
\* directory.
LEMMA DecodedFacts ==
    ASSUME NEW c \in Configurations
    PROVE  /\ Decoded(c.path) \in Seq(Images \cup {NoImage, Moved})
           /\ Moved \in Range(Decoded(c.path)) =>
                ImgFlag(c.path) /\ Len(GetFiles(c.path)) > 1
           /\ NoImage \in Range(Decoded(c.path)) => Unreadable(c.path)
<1> DEFINE files == GetFiles(c.path)
<1>1. /\ files \in Seq(Range(c.path.entries)) /\ Len(files) \in Nat
      /\ DOMAIN files = 1 .. Len(files)
      /\ \A k \in 1 .. Len(files) : files[k] \in Range(c.path.entries)
  <2>1. files \in Seq(Range(c.path.entries))
    BY FilesType
  <2> HIDE DEF files
  <2> QED BY <2>1
<1>2. \A k \in 1 .. Len(files) : /\ IsFile(files[k])
                                 /\ Range(files[k].images) \subseteq Images
  <2> HIDE DEF files
  <2> QED BY <1>1, ConfFacts DEF Images
<1>3. \A k \in 1 .. Len(files) : files[k].images \in Seq(Images)
  <2> HIDE DEF files
  <2> TAKE k \in 1 .. Len(files)
  <2>1. /\ files[k].images \in Seq(Range(files[k].images))
        /\ Range(files[k].images) \subseteq Images
    BY <1>2 DEF IsFile
  <2> QED BY <2>1
<1>4. CASE ImgFlag(c.path)
  <2>1. Decoded(c.path) = DecoderImgs(files)
    BY <1>4 DEF Decoded
  <2> HIDE DEF files
  <2>2. Smaller(Len(files), 2) \in 0 .. 2 /\ Smaller(Len(files), 2) <= Len(files)
    BY <1>1 DEF Smaller
  <2>3. Len(files) >= 1 => \/ files[1].still /\ Imread(files[1]) \in Images
                           \/ ~files[1].still /\ Imread(files[1]) = NoImage
    <3>1. SUFFICES ASSUME Len(files) >= 1, files[1].still
                   PROVE  Imread(files[1]) \in Images
      BY DEF Imread
    <3>2. files[1].images \in Seq(Images) /\ files[1].images # << >>
      BY <1>1, <1>2, <1>3, <3>1 DEF IsFile
    <3> QED BY <3>1, <3>2 DEF Imread
  <2>4. DecoderImgs(files) =
          [k \in 1 .. Smaller(Len(files), 2) |->
             IF k = 1 THEN Imread(files[1]) ELSE Moved]
    BY DEF DecoderImgs
  <2>5. \A k \in 1 .. Smaller(Len(files), 2) :
           (IF k = 1 THEN Imread(files[1]) ELSE Moved) \in Images \cup {NoImage, Moved}
    BY <1>1, <2>2, <2>3
  <2>6. DecoderImgs(files) \in Seq(Images \cup {NoImage, Moved})
    BY <2>2, <2>4, <2>5
  <2>10. Moved \notin Images /\ NoImage \notin Images
    BY ImageFacts DEF IsImage
  <2>11. Moved # NoImage
    BY DEF Moved, NoImage
  <2>7. Moved \in Range(DecoderImgs(files)) => Len(files) > 1
    <3>1. ASSUME NEW k \in 1 .. Smaller(Len(files), 2),
                 (IF k = 1 THEN Imread(files[1]) ELSE Moved) = Moved
          PROVE  Len(files) > 1
      <4>1. k # 1
        BY <1>1, <2>2, <2>3, <2>10, <2>11, <3>1
      <4> QED BY <1>1, <2>2, <4>1
    <3> QED BY <2>4, <3>1 DEF Range
  <2>8. NoImage \in Range(DecoderImgs(files)) => Len(files) >= 1 /\ ~files[1].still
    <3>1. ASSUME NEW k \in 1 .. Smaller(Len(files), 2),
                 (IF k = 1 THEN Imread(files[1]) ELSE Moved) = NoImage
          PROVE  Len(files) >= 1 /\ ~files[1].still
      <4>1. Len(files) >= 1 /\ Imread(files[1]) = NoImage
        BY <1>1, <2>2, <2>11, <3>1
      <4> QED BY <2>3, <2>10, <4>1
    <3> QED BY <2>4, <3>1 DEF Range
  <2>9. NoImage \in Range(DecoderImgs(files)) => Unreadable(c.path)
    <3>1. Len(files) >= 1 => Head(files) = files[1]
      BY <1>1
    <3> QED BY <1>4, <2>8, <3>1 DEF Unreadable, files
  <2> QED BY <1>4, <2>1, <2>6, <2>7, <2>9 DEF files
<1>5. CASE ~ImgFlag(c.path)
  <2> DEFINE s == [k \in DOMAIN files |-> DecoderVideo(files[k])]
  <2>1. Decoded(c.path) = FlattenSeq(s)
    BY <1>5 DEF Decoded
  <2> HIDE DEF files
  <2>2. \A k \in 1 .. Len(files) : s[k] \in Seq(Images)
    BY <1>1, <1>3 DEF DecoderVideo
  <2>3. s = [k \in 1 .. Len(files) |-> s[k]]
    BY <1>1
  <2> HIDE DEF s
  <2>4. s \in Seq(Seq(Images))
    BY <1>1, <2>2, <2>3
  <2>5. FlattenSeq(s) \in Seq(Images)
    BY <2>4, FlattenType
  <2>6. Moved \notin Images /\ NoImage \notin Images
    BY ImageFacts DEF IsImage
  <2>7. Moved \notin Range(FlattenSeq(s)) /\ NoImage \notin Range(FlattenSeq(s))
    BY <2>5, <2>6 DEF Range
  <2>8. FlattenSeq(s) \in Seq(Images \cup {NoImage, Moved})
    BY <2>5
  <2> QED BY <2>1, <2>7, <2>8
<1> QED BY <1>4, <1>5

\* What may become of a frame.
LEMMA OutcomeFacts ==
    ASSUME NEW f, NEW r \in Outcomes(f)
    PROVE  IsList(r.objs) /\ HasLandmarks(r.objs)
<1>1. PICK i \in Images, o \in {c.outputs : c \in Configurations} :
        r \in Postprocess(i, o)
  BY DEF Outcomes, Found
<1> QED BY <1>1, ImageFacts, PostprocessFaces DEF IsImage

-----------------------------------------------------------------------------
(* The graph: BuildPipeline and Start.                                     *)

LEMMA WithType ==
    ASSUME NEW S, NEW T, NEW f \in [S -> T], NEW n, NEW v \in T
    PROVE  With(f, n, v) \in [S \cup {n} -> T]
BY DEF With

LEMMA ConfigFacts ==
    ASSUME MapsOK
    PROVE  /\ Len(configs) \in Nat /\ DOMAIN configs = 1 .. Len(configs)
           /\ \A k \in 1 .. Len(configs) :
                /\ configs[k] \in Range(conf.modules)
                /\ configs[k].name \in ModuleNames
                /\ configs[k].next \in Seq(ModuleNames)
                /\ configs[k].queue_capicity \in Nat
<1>1. /\ conf.modules \in Seq(Range(conf.modules))
      /\ \A v \in Range(conf.modules) : IsModuleConfig(v)
  BY ConfFacts DEF MapsOK
<1>2. configs \in Seq(Range(conf.modules))
  <2>1. configs = IF conf.from = "code" THEN conf.modules ELSE << >>
    BY DEF MapsOK
  <2>2. << >> \in Seq(Range(conf.modules))
    OBVIOUS
  <2> QED BY <1>1, <2>1, <2>2
<1>3. /\ Len(configs) \in Nat /\ DOMAIN configs = 1 .. Len(configs)
      /\ \A k \in 1 .. Len(configs) : configs[k] \in Range(conf.modules)
  BY <1>2
<1>4. ASSUME NEW v \in Range(conf.modules)
      PROVE  v.name \in ModuleNames /\ v.next \in Seq(ModuleNames) /\ v.queue_capicity \in Nat
  <2>1. IsModuleConfig(v)
    BY <1>1
  <2>2. v.next \in Seq(Range(v.next)) /\ Range(v.next) \subseteq ModuleNames
    BY <2>1 DEF IsModuleConfig, Lists
  <2>3. v.next \in Seq(ModuleNames)
    BY <2>2
  <2> QED BY <2>1, <2>3 DEF IsModuleConfig
<1> QED BY <1>3, <1>4

\* The module that a step of the first loop handles, and the maps after it.
LEMMA AddFacts ==
    ASSUME MapsOK, BuildAdd
    PROVE  LET v == configs[at + 1] IN
           /\ at + 1 \in 1 .. Len(configs) /\ v.name \in ModuleNames
           /\ Created = Names
           /\ Create(v.class) = v.class /\ v.class # Null
           /\ Names' = Names \cup {v.name} /\ Created' = Names'
           /\ modules_map' = [n \in Names' |-> modules_map'[n]]
           /\ \A n \in Names : modules_map'[n] = modules_map[n]
           /\ \A n \in Created : /\ output_connectors'[n] = output_connectors[n]
                                 /\ input_connectors'[n] = input_connectors[n]
           /\ v.name \notin Names => /\ modules_map'[v.name] = v.class
                                     /\ output_connectors'[v.name] = << >>
                                     /\ input_connectors'[v.name] = << >>
           /\ output_connectors' \in [Created' -> Seq(Created')]
           /\ input_connectors' \in [Created' -> Seq(Created')]
<1> DEFINE v == configs[at + 1]
<1>1. /\ at + 1 \in 1 .. Len(configs) /\ v.name \in ModuleNames
      /\ at \in Nat /\ Created = Names
  <2>1. at \in 0 .. Len(configs) /\ (phase = "add" => Created = Names)
    BY DEF MapsOK
  <2>2. phase = "add" /\ at < Len(configs)
    BY DEF BuildAdd
  <2>3. at \in Nat /\ at + 1 \in 1 .. Len(configs)
    BY <2>1, <2>2, ConfigFacts
  <2> QED BY <2>1, <2>2, <2>3, ConfigFacts
<1>2. Create(v.class) = v.class /\ v.class # Null
  BY FramePathAssumption DEF BuildAdd, Create
<1>3. AddModule(v)
  BY DEF BuildAdd
<1> HIDE DEF v
<1>4. Seq(Created) \subseteq Seq(Created \cup {v.name})
  OBVIOUS
<1>5. CASE v.name \in Names
  <2>1. UNCHANGED <<modules_map, output_connectors, input_connectors>>
    BY <1>3, <1>5 DEF AddModule, linkVars
  <2>2. Names \cup {v.name} = Names
    BY <1>5
  <2> QED BY <1>1, <1>2, <1>5, <2>1, <2>2 DEF MapsOK, Names, Created, v
<1>6. CASE v.name \notin Names
  <2>1. /\ modules_map' = With(modules_map, v.name, v.class)
        /\ output_connectors' = With(output_connectors, v.name, << >>)
        /\ input_connectors' = With(input_connectors, v.name, << >>)
    BY <1>2, <1>3, <1>6 DEF AddModule
  <2>2. /\ Names' = Names \cup {v.name} /\ Created' = Created \cup {v.name}
        /\ modules_map' = [n \in Names' |-> modules_map'[n]]
        /\ \A n \in Names : modules_map'[n] = modules_map[n]
        /\ modules_map'[v.name] = v.class
    <3>1. /\ DOMAIN modules_map' = DOMAIN modules_map \cup {v.name}
          /\ modules_map' = [n \in DOMAIN modules_map' |-> modules_map'[n]]
          /\ modules_map'[v.name] = v.class
          /\ \A n \in DOMAIN modules_map : n # v.name => modules_map'[n] = modules_map[n]
      BY <2>1 DEF With
    <3>2. DOMAIN output_connectors' = DOMAIN output_connectors \cup {v.name}
      BY <2>1 DEF With
    <3> QED BY <1>6, <3>1, <3>2 DEF Names, Created
  <2>3. /\ output_connectors \in [Created -> Seq(Created \cup {v.name})]
        /\ input_connectors \in [Created -> Seq(Created \cup {v.name})]
    BY <1>4 DEF MapsOK
  <2>4. << >> \in Seq(Created \cup {v.name})
    OBVIOUS
  <2>5. /\ output_connectors' \in [Created' -> Seq(Created')]
        /\ input_connectors' \in [Created' -> Seq(Created')]
    BY <2>1, <2>2, <2>3, <2>4, WithType
  <2>6. /\ \A n \in Created : /\ output_connectors'[n] = output_connectors[n]
                              /\ input_connectors'[n] = input_connectors[n]
        /\ output_connectors'[v.name] = << >> /\ input_connectors'[v.name] = << >>
    <3>1. /\ \A n \in DOMAIN output_connectors : n # v.name =>
                output_connectors'[n] = output_connectors[n]
          /\ output_connectors'[v.name] = << >>
      BY <2>1 DEF With
    <3>2. /\ \A n \in DOMAIN input_connectors : n # v.name =>
                input_connectors'[n] = input_connectors[n]
          /\ input_connectors'[v.name] = << >>
      BY <2>1 DEF With
    <3>3. DOMAIN output_connectors = Created /\ DOMAIN input_connectors = Created
      BY <2>3
    <3> QED BY <1>1, <1>6, <3>1, <3>2, <3>3
  <2> QED BY <1>1, <1>2, <1>6, <2>2, <2>5, <2>6 DEF v
<1> QED BY <1>5, <1>6

LEMMA AddMaps ==
    ASSUME MapsOK, BuildAdd
    PROVE  MapsOK'
<1> DEFINE v == configs[at + 1]
<1>1. /\ at + 1 \in 1 .. Len(configs) /\ v.name \in ModuleNames
      /\ Created = Names /\ v.class # Null
      /\ Names' = Names \cup {v.name} /\ Created' = Names'
      /\ modules_map' = [n \in Names' |-> modules_map'[n]]
      /\ \A n \in Names : modules_map'[n] = modules_map[n]
      /\ v.name \notin Names => modules_map'[v.name] = v.class
      /\ output_connectors' \in [Created' -> Seq(Created')]
      /\ input_connectors' \in [Created' -> Seq(Created')]
  BY AddFacts
<1>2. /\ modules_config_' = With(modules_config_, v.name, v.params)
      /\ connector' = With(connector, v.name, v.queue_capicity)
      /\ at' = at + 1 /\ phase = "add"
      /\ UNCHANGED <<conf, configs, phase, opened, run_id>>
  BY DEF BuildAdd, startVars
<1>3. v.queue_capicity \in Nat
  BY <1>1, ConfigFacts
<1> HIDE DEF v
<1>4. connector' \in [Created' -> Nat]
  BY <1>1, <1>2, <1>3, WithType DEF MapsOK
<1>5. modules_config_' = [n \in Created' |-> modules_config_'[n]]
  <2>1. DOMAIN modules_config_ = Created
    BY DEF MapsOK
  <2>2. /\ DOMAIN modules_config_' = DOMAIN modules_config_ \cup {v.name}
        /\ modules_config_' = [x \in DOMAIN modules_config_' |-> modules_config_'[x]]
    BY <1>2 DEF With
  <2>3. DOMAIN modules_config_' = Created'
    BY <1>1, <2>1, <2>2
  <2> QED BY <2>2, <2>3
<1>6. Created' = {n \in Names' : modules_map'[n] # Null}
  <2>1. Names = {n \in Names : modules_map[n] # Null}
    BY <1>1 DEF MapsOK
  <2> QED BY <1>1, <2>1
<1>7. \A k \in 1 .. Len(configs') : k <= at' => configs'[k].name \in Created'
  <2>1. \A k \in 1 .. Len(configs) : k <= at => configs[k].name \in Created
    BY <1>2 DEF MapsOK
  <2>2. at \in Nat
    BY ConfigFacts DEF MapsOK
  <2>3. v.name = configs[at + 1].name
    BY DEF v
  <2> QED BY <1>1, <1>2, <2>1, <2>2, <2>3
<1>8. at' \in 0 .. Len(configs')
  BY <1>1, <1>2, ConfigFacts DEF MapsOK
<1> QED BY <1>1, <1>2, <1>4, <1>5, <1>6, <1>7, <1>8 DEF MapsOK

LEMMA LinkFacts ==
    ASSUME MapsOK, BuildLink
    PROVE  LET v == configs[at + 1]
               down == Head(v.next)
           IN
           /\ at + 1 \in 1 .. Len(configs) /\ v.name \in Created
           /\ v.next # << >> => down \in ModuleNames
           /\ Created' = Created
           /\ \/ /\ v.next = << >> \/ modules_map' = With(modules_map, down, Null)
                 /\ v.next # << >> => down \notin Created
                 /\ v.next = << >> => UNCHANGED modules_map
                 /\ UNCHANGED linkVars
              \/ /\ v.next # << >> /\ down \in Created
                 /\ output_connectors' = [output_connectors EXCEPT
                                            ![v.name] = Append(@, down)]
                 /\ input_connectors' = [input_connectors EXCEPT
                                            ![down] = Append(@, v.name)]
                 /\ UNCHANGED modules_map
<1> DEFINE v == configs[at + 1]
           down == Head(v.next)
<1>1. /\ at + 1 \in 1 .. Len(configs) /\ phase = "link"
  <2>1. at \in 0 .. Len(configs)
    BY DEF MapsOK
  <2>2. phase = "link" /\ at < Len(configs)
    BY DEF BuildLink
  <2> QED BY <2>1, <2>2, ConfigFacts
<1>2. v.name \in Created
  BY <1>1 DEF MapsOK
<1>3. v.next \in Seq(ModuleNames)
  BY <1>1, ConfigFacts
<1>4. IF v.next = << >> THEN UNCHANGED <<modules_map, linkVars>>
                        ELSE LinkModules(v.name, down)
  BY DEF BuildLink
<1>5. Created = {n \in Names : modules_map[n] # Null}
  BY DEF MapsOK
<1> HIDE DEF v
<1>6. v.next # << >> => down \in ModuleNames
  BY <1>3
<1> HIDE DEF down
<1>7. CASE v.next = << >>
  BY <1>1, <1>2, <1>4, <1>7 DEF v, down, linkVars, Created
<1>8. CASE v.next # << >> /\ down \in Created
  <2>1. /\ output_connectors' = [output_connectors EXCEPT ![v.name] = Append(@, down)]
        /\ input_connectors' = [input_connectors EXCEPT ![down] = Append(@, v.name)]
        /\ UNCHANGED modules_map
    BY <1>4, <1>5, <1>8 DEF LinkModules
  <2>2. Created' = Created
    BY <2>1 DEF Created
  <2> QED BY <1>1, <1>2, <1>6, <1>8, <2>1, <2>2 DEF v, down
<1>9. CASE v.next # << >> /\ down \notin Created
  <2>1. UNCHANGED linkVars /\ modules_map' = With(modules_map, down, Null)
    BY <1>4, <1>5, <1>9 DEF LinkModules
  <2>2. Created' = Created
    BY <2>1 DEF Created, linkVars
  <2> QED BY <1>1, <1>2, <1>6, <1>9, <2>1, <2>2 DEF v, down
<1> QED BY <1>7, <1>8, <1>9

LEMMA AppendType ==
    ASSUME NEW S, NEW T, NEW f \in [S -> Seq(T)], NEW a \in S, NEW b \in T
    PROVE  [f EXCEPT ![a] = Append(@, b)] \in [S -> Seq(T)]
OBVIOUS

LEMMA LinkMaps ==
    ASSUME MapsOK, BuildLink
    PROVE  MapsOK'
<1> DEFINE v == configs[at + 1]
           down == Head(v.next)
<1>1. /\ at + 1 \in 1 .. Len(configs) /\ v.name \in Created
      /\ v.next # << >> => down \in ModuleNames
      /\ Created' = Created
  BY LinkFacts
<1>2. /\ UNCHANGED <<conf, configs, phase, modules_config_, connector, opened, run_id>>
      /\ phase = "link" /\ at' = at + 1
  BY DEF BuildLink, startVars
<1>3. /\ output_connectors' \in [Created -> Seq(Created)]
      /\ input_connectors' \in [Created -> Seq(Created)]
  <2>1. /\ output_connectors \in [Created -> Seq(Created)]
        /\ input_connectors \in [Created -> Seq(Created)]
    BY SMTT(30) DEF MapsOK
  <2>2. \/ UNCHANGED linkVars
        \/ /\ down \in Created
           /\ output_connectors' = [output_connectors EXCEPT ![v.name] = Append(@, down)]
           /\ input_connectors' = [input_connectors EXCEPT ![down] = Append(@, v.name)]
    BY LinkFacts
  <2> HIDE DEF v, down
  <2>3. CASE UNCHANGED linkVars
    BY <2>1, <2>3 DEF linkVars
  <2>4. CASE /\ down \in Created
             /\ output_connectors' = [output_connectors EXCEPT ![v.name] = Append(@, down)]
             /\ input_connectors' = [input_connectors EXCEPT ![down] = Append(@, v.name)]
    BY <1>1, <2>1, <2>4, AppendType
  <2> QED BY <2>2, <2>3, <2>4
<1>4. /\ modules_map' = [n \in Names' |-> modules_map'[n]]
      /\ Names \subseteq Names' /\ Names' \subseteq ModuleNames
      /\ \A n \in Names' : modules_map'[n] # Null <=> n \in Created
  <2>1. \/ UNCHANGED modules_map
        \/ /\ v.next # << >> /\ down \notin Created
           /\ modules_map' = With(modules_map, down, Null)
    BY LinkFacts
  <2>2. /\ modules_map = [n \in Names |-> modules_map[n]]
        /\ Names \subseteq ModuleNames
        /\ Created = {n \in Names : modules_map[n] # Null}
    BY DEF MapsOK
  <2> HIDE DEF v, down
  <2>3. CASE UNCHANGED modules_map
    BY <2>2, <2>3 DEF Names
  <2>4. CASE v.next # << >> /\ down \notin Created /\ modules_map' = With(modules_map, down, Null)
    <3>1. /\ Names' = Names \cup {down} /\ modules_map'[down] = Null
          /\ modules_map' = [n \in Names' |-> modules_map'[n]]
          /\ \A n \in Names : n # down => modules_map'[n] = modules_map[n]
      BY <2>4 DEF With, Names
    <3> QED BY <1>1, <2>2, <2>4, <3>1
  <2> QED BY <2>1, <2>3, <2>4
<1>5. Created' = {n \in Names' : modules_map'[n] # Null}
  <2>1. Created \subseteq Names
    BY DEF MapsOK
  <2> QED BY <1>1, <1>4, <2>1
<1>6. at' \in 0 .. Len(configs')
  BY <1>1, <1>2, ConfigFacts DEF MapsOK
<1>7. \A k \in 1 .. Len(configs) : configs[k].name \in Created
  BY <1>2 DEF MapsOK
<1>8. /\ conf \in Configurations
      /\ configs = IF conf.from = "code" THEN conf.modules ELSE << >>
      /\ modules_config_ = [n \in Created |-> modules_config_[n]]
      /\ connector \in [Created -> Nat] /\ opened \subseteq Created
  BY DEF MapsOK
<1> HIDE DEF v, down
<1> QED BY <1>1, <1>2, <1>3, <1>4, <1>5, <1>6, <1>7, <1>8 DEF MapsOK, Phases

\* What the steps of a pipeline that runs leave as it is.
SameGraph == UNCHANGED <<conf, configs, at, mapVars, linkVars>>

LEMMA SameMaps ==
    ASSUME MapsOK, SameGraph, opened' \subseteq Created,
           phase' = phase \/ phase' \in {"open"} \cup Late
    PROVE  MapsOK'
<1>1. /\ UNCHANGED <<conf, configs, at, modules_map, modules_config_, connector,
                     output_connectors, input_connectors>>
      /\ Created' = Created /\ Names' = Names
  BY DEF SameGraph, mapVars, linkVars, Created, Names
<1>2. /\ phase' \in Phases \cup {"stopped"}
      /\ phase' = "link" => phase = "link"
      /\ phase' = "add" => phase = "add"
      /\ phase' = "read" => phase = "read"
  BY DEF Phases, Late, MapsOK
<1> QED BY <1>1, <1>2 DEF MapsOK

LEMMA GraphMaps ==
    ASSUME MapsOK, Build \/ Start
    PROVE  MapsOK'
<1>1. CASE BuildPipelineByJSONFile
  <2>1. phase' \in {"add", "open"} /\ phase = "read"
        /\ UNCHANGED <<conf, configs, at, mapVars, linkVars, startVars>>
    BY <1>1 DEF BuildPipelineByJSONFile
  <2>2. Created' = Created /\ Names' = Names
    BY <2>1 DEF mapVars, linkVars, Created, Names
  <2>3. configs = << >>
    BY <2>1 DEF MapsOK
  <2>4. \A k \in 1 .. Len(configs') : FALSE
    BY <2>1, <2>3
  <2> QED BY <2>1, <2>2, <2>4 DEF MapsOK, Phases, mapVars, linkVars, startVars
<1>2. CASE BuildAdd
  BY <1>2, AddMaps
<1>3. CASE BuildAddNull
  <2>1. SameGraph /\ UNCHANGED opened /\ phase' = "crashed"
    BY <1>3 DEF BuildAddNull, SameGraph, startVars
  <2>2. opened' \subseteq Created
    BY <2>1 DEF MapsOK
  <2> QED BY <2>1, <2>2, SameMaps DEF Late
<1>4. CASE BuildAdded
  <2>1. /\ phase = "add" /\ at = Len(configs) /\ phase' = "link" /\ at' = 0
        /\ UNCHANGED <<conf, configs, mapVars, linkVars, startVars>>
    BY <1>4 DEF BuildAdded
  <2>2. Created' = Created /\ Names' = Names
    BY <2>1 DEF mapVars, linkVars, Created, Names
  <2>3. \A k \in 1 .. Len(configs) : configs[k].name \in Created
    <3>1. \A k \in 1 .. Len(configs) : k <= at => configs[k].name \in Created
      BY <2>1 DEF MapsOK
    <3>2. \A k \in 1 .. Len(configs) : k <= at
      BY <2>1, ConfigFacts
    <3> QED BY <3>1, <3>2
  <2>4. 0 \in 0 .. Len(configs)
    BY ConfigFacts
  <2> QED BY <2>1, <2>2, <2>3, <2>4 DEF MapsOK, Phases, mapVars, linkVars, startVars
<1>5. CASE BuildLink
  BY <1>5, LinkMaps
<1>6. CASE BuildLinked
  <2>1. SameGraph /\ UNCHANGED opened /\ phase' = "open"
    BY <1>6 DEF BuildLinked, SameGraph, startVars
  <2>2. opened' \subseteq Created
    BY <2>1 DEF MapsOK
  <2> QED BY <2>1, <2>2, SameMaps
<1>7. ASSUME NEW n \in Names, Open(n) PROVE MapsOK'
  <2>1. SameGraph /\ phase = "open" /\ phase' \in {"open", "crashed", "run", "failed"}
    BY <1>7 DEF Open, SameGraph
  <2>2. opened' = opened \/ (opened' = opened \cup {n} /\ ~OpenCrashes(n))
    BY <1>7 DEF Open
  <2>3. opened' \subseteq Created
    BY <2>2 DEF MapsOK, OpenCrashes
  <2> QED BY <2>1, <2>3, SameMaps DEF Late
<1>8. CASE Launch
  <2>1. SameGraph /\ UNCHANGED opened /\ phase' = "run"
    BY <1>8 DEF Launch, SameGraph, startVars
  <2>2. opened' \subseteq Created
    BY <2>1 DEF MapsOK
  <2> QED BY <2>1, <2>2, SameMaps DEF Late
<1> QED BY <1>1, <1>2, <1>3, <1>4, <1>5, <1>6, <1>7, <1>8 DEF Build, Start

-----------------------------------------------------------------------------
(* Links in both directions.                                               *)

\* One more link is one more place, at the end.
LEMMA EndsAppend ==
    ASSUME NEW S, NEW s \in Seq(S), NEW x \in S, NEW y
    PROVE  /\ IsFiniteSet(Ends(s, y)) /\ Cardinality(Ends(s, y)) \in Nat
           /\ Cardinality(Ends(Append(s, x), y))
              = IF x = y THEN Cardinality(Ends(s, y)) + 1 ELSE Cardinality(Ends(s, y))
<1>1. Len(s) \in Nat /\ DOMAIN s = 1 .. Len(s)
  OBVIOUS
<1>2. IsFiniteSet(1 .. Len(s))
  BY <1>1, FS_Interval
<1>3. Ends(s, y) \subseteq 1 .. Len(s)
  BY <1>1 DEF Ends
<1>4. IsFiniteSet(Ends(s, y)) /\ Cardinality(Ends(s, y)) \in Nat
  BY <1>2, <1>3, FS_Subset, FS_CardinalityType
<1>5. Len(s) + 1 \notin Ends(s, y)
  BY <1>1, <1>3
<1>6. /\ DOMAIN Append(s, x) = 1 .. Len(s) + 1
      /\ Append(s, x)[Len(s) + 1] = x
      /\ \A k \in 1 .. Len(s) : Append(s, x)[k] = s[k]
  OBVIOUS
<1>7. CASE x = y
  <2>1. Ends(Append(s, x), y) = Ends(s, y) \cup {Len(s) + 1}
    BY <1>1, <1>6, <1>7 DEF Ends
  <2> QED BY <1>4, <1>5, <1>7, <2>1, FS_AddElement
<1>8. CASE x # y
  <2>1. Ends(Append(s, x), y) = Ends(s, y)
    BY <1>1, <1>6, <1>8 DEF Ends
  <2> QED BY <1>4, <1>8, <2>1
<1> QED BY <1>4, <1>7, <1>8

LEMMA EndsNone ==
    ASSUME NEW S, NEW s \in Seq(S), NEW y, y \notin S
    PROVE  Cardinality(Ends(s, y)) = 0
<1>1. Ends(s, y) = {}
  BY DEF Ends
<1> QED BY <1>1, FS_EmptySet

LEMMA AddCounts ==
    ASSUME MapsOK, CountsAgree, BuildAdd
    PROVE  CountsAgree'
<1> DEFINE v == configs[at + 1]
<1>1. /\ Created = Names /\ Names' = Names \cup {v.name} /\ Created' = Names'
      /\ \A n \in Created : /\ output_connectors'[n] = output_connectors[n]
                            /\ input_connectors'[n] = input_connectors[n]
      /\ v.name \notin Names => /\ output_connectors'[v.name] = << >>
                                /\ input_connectors'[v.name] = << >>
  BY AddFacts
<1> HIDE DEF v
<1>2. \A n \in Created : /\ output_connectors[n] \in Seq(Created)
                         /\ input_connectors[n] \in Seq(Created)
  BY DEF MapsOK
<1>3. ASSUME NEW y PROVE Cardinality(Ends(<< >>, y)) = 0
  <2>1. Ends(<< >>, y) = {}
    BY DEF Ends
  <2> QED BY <2>1, FS_EmptySet
<1>4. ASSUME NEW m \in Created', NEW n \in Created'
      PROVE  Cardinality(Ends(output_connectors'[m], n))
             = Cardinality(Ends(input_connectors'[n], m))
  <2>1. CASE m \in Created /\ n \in Created
    BY <1>1, <2>1 DEF CountsAgree
  <2>2. CASE m \in Created /\ n \notin Created
    <3>1. Cardinality(Ends(output_connectors[m], n)) = 0
      BY <1>2, <2>2, EndsNone
    <3>2. n = v.name /\ n \notin Names
      BY <1>1, <2>2
    <3> QED BY <1>1, <1>3, <2>2, <3>1, <3>2
  <2>3. CASE m \notin Created /\ n \in Created
    <3>1. Cardinality(Ends(input_connectors[n], m)) = 0
      BY <1>2, <2>3, EndsNone
    <3>2. m = v.name /\ m \notin Names
      BY <1>1, <2>3
    <3> QED BY <1>1, <1>3, <2>3, <3>1, <3>2
  <2>4. CASE m \notin Created /\ n \notin Created
    <3>1. m = v.name /\ n = v.name /\ n \notin Names
      BY <1>1, <2>4, SMTT(30)
    <3> QED BY <1>1, <1>3, <3>1
  <2> QED BY <2>1, <2>2, <2>3, <2>4
<1> QED BY <1>4 DEF CountsAgree

LEMMA LinkCounts ==
    ASSUME MapsOK, CountsAgree, BuildLink
    PROVE  CountsAgree'
<1> DEFINE v == configs[at + 1]
           down == Head(v.next)
<1>1. /\ v.name \in Created /\ Created' = Created
      /\ \/ UNCHANGED linkVars
         \/ /\ down \in Created
            /\ output_connectors' = [output_connectors EXCEPT ![v.name] = Append(@, down)]
            /\ input_connectors' = [input_connectors EXCEPT ![down] = Append(@, v.name)]
  BY LinkFacts, Zenon
<1>2. CASE UNCHANGED linkVars
  BY <1>1, <1>2 DEF CountsAgree, linkVars
<1>3. CASE /\ down \in Created
           /\ output_connectors' = [output_connectors EXCEPT ![v.name] = Append(@, down)]
           /\ input_connectors' = [input_connectors EXCEPT ![down] = Append(@, v.name)]
  <2> HIDE DEF v, down
  <2>1. /\ output_connectors \in [Created -> Seq(Created)]
        /\ input_connectors \in [Created -> Seq(Created)]
    BY DEF MapsOK
  <2>2. ASSUME NEW m \in Created, NEW n \in Created
        PROVE  Cardinality(Ends(output_connectors'[m], n))
               = Cardinality(Ends(input_connectors'[n], m))
    <3>1. Cardinality(Ends(output_connectors[m], n))
          = Cardinality(Ends(input_connectors[n], m))
      BY DEF CountsAgree
    <3>2. Cardinality(Ends(output_connectors'[m], n))
          = IF m = v.name /\ n = down THEN Cardinality(Ends(output_connectors[m], n)) + 1
                                      ELSE Cardinality(Ends(output_connectors[m], n))
      <4>1. CASE m = v.name
        <5>1. output_connectors'[m] = Append(output_connectors[m], down)
          BY <1>3, <2>1, <4>1
        <5> QED BY <1>3, <2>1, <4>1, <5>1, EndsAppend
      <4>2. CASE m # v.name
        BY <1>3, <2>1, <4>2
      <4> QED BY <4>1, <4>2
    <3>3. Cardinality(Ends(input_connectors'[n], m))
          = IF m = v.name /\ n = down THEN Cardinality(Ends(input_connectors[n], m)) + 1
                                      ELSE Cardinality(Ends(input_connectors[n], m))
      <4>1. CASE n = down
        <5>1. input_connectors'[n] = Append(input_connectors[n], v.name)
          BY <1>3, <2>1, <4>1
        <5> QED BY <1>1, <2>1, <4>1, <5>1, EndsAppend
      <4>2. CASE n # down
        BY <1>3, <2>1, <4>2
      <4> QED BY <4>1, <4>2
    <3> QED BY <3>1, <3>2, <3>3
  <2> QED BY <1>1, <2>2 DEF CountsAgree
<1> QED BY <1>1, <1>2, <1>3, SMTT(30)

LEMMA GraphCounts ==
    ASSUME MapsOK, CountsAgree, Build \/ Start
    PROVE  CountsAgree'
<1>1. BuildAdd \/ BuildLink \/ UNCHANGED linkVars
  BY DEF Build, Start, BuildPipelineByJSONFile, BuildAddNull, BuildAdded, BuildLinked,
         Open, Launch
<1>2. CASE UNCHANGED linkVars
  BY <1>2 DEF CountsAgree, linkVars, Created
<1> QED BY <1>1, <1>2, AddCounts, LinkCounts

\* So TransmitData's assertions on the links hold.
LEMMA CountsLinks ==
    ASSUME MapsOK, CountsAgree
    PROVE  LinksAgree
<1>1. /\ output_connectors \in [Created -> Seq(Created)]
      /\ connector \in [Created -> Nat]
  BY DEF MapsOK
<1>2. ASSUME NEW m \in Created, NEW n \in Range(output_connectors[m])
      PROVE  n \in Created
  BY <1>1 DEF Range
<1> QED BY <1>1, <1>2 DEF LinksAgree, CountsAgree, Created

\* Without a module that is linked into twice, each link has a module of its own.
LEMMA OnlyLink ==
    ASSUME MapsOK, CountsAgree, ~FanIn,
           NEW m \in Created, NEW k \in Created,
           NEW i \in DOMAIN output_connectors[m], NEW j \in DOMAIN output_connectors[k],
           output_connectors[m][i] = output_connectors[k][j]
    PROVE  m = k /\ i = j
<1> DEFINE n == output_connectors[m][i]
           in == input_connectors[n]
<1>1. /\ output_connectors \in [Created -> Seq(Created)]
      /\ input_connectors \in [Created -> Seq(Created)]
  BY DEF MapsOK
<1>2. n \in Created
  BY <1>1
<1>3. in \in Seq(Created) /\ Len(in) \in Nat /\ DOMAIN in = 1 .. Len(in) /\ Len(in) <= 1
  <2>1. in \in Seq(Created) /\ Len(in) \in Nat
    BY <1>1, <1>2
  <2>2. ~(Len(in) > 1)
    BY <1>1, <1>2 DEF FanIn
  <2> QED BY <2>1, <2>2
<1>4. ASSUME NEW x \in Created, NEW a \in DOMAIN output_connectors[x],
             output_connectors[x][a] = n
      PROVE  /\ IsFiniteSet(Ends(output_connectors[x], n))
             /\ Cardinality(Ends(output_connectors[x], n)) = Cardinality(Ends(in, x))
             /\ Cardinality(Ends(in, x)) = 1 /\ 1 \in Ends(in, x)
  <2>1. a \in Ends(output_connectors[x], n)
    BY <1>4 DEF Ends
  <2>2. /\ IsFiniteSet(Ends(output_connectors[x], n))
        /\ Cardinality(Ends(output_connectors[x], n)) \in Nat
    BY <1>1, <1>2, EndsAppend
  <2>3. Cardinality(Ends(output_connectors[x], n)) # 0
    BY <2>1, <2>2, FS_EmptySet
  <2>4. Cardinality(Ends(output_connectors[x], n)) = Cardinality(Ends(in, x))
    BY <1>2 DEF CountsAgree
  <2> HIDE DEF in
  <2>5. Ends(in, x) \subseteq {1}
    BY <1>3 DEF Ends
  <2>6. Ends(in, x) = {} \/ Ends(in, x) = {1}
    BY <2>5
  <2>7. Cardinality({}) = 0 /\ Cardinality({1}) = 1
    BY FS_EmptySet, FS_Singleton
  <2> QED BY <2>2, <2>3, <2>4, <2>6, <2>7
<1>5. 1 \in Ends(in, m) /\ 1 \in Ends(in, k)
  BY <1>4
<1>6. m = k
  BY <1>5 DEF Ends
<1>7. i \in Ends(output_connectors[m], n) /\ j \in Ends(output_connectors[m], n)
  BY <1>6 DEF Ends
<1>8. \E x : Ends(output_connectors[m], n) = {x}
  <2>1. IsFiniteSet(Ends(output_connectors[m], n))
        /\ Cardinality(Ends(output_connectors[m], n)) = 1
    BY <1>4
  <2> QED BY <2>1, FS_Singleton
<1> QED BY <1>6, <1>7, <1>8

-----------------------------------------------------------------------------
(* The graph that is configured.                                           *)

LEMMA CodeFacts ==
    ASSUME MapsOK, conf.from = "code", Consistent
    PROVE  /\ configs = conf.modules
           /\ \A j, k \in 1 .. Len(configs) : configs[j].name = configs[k].name => j = k
           /\ \A k \in 1 .. Len(configs) : configs[k].next # << >> =>
                \E j \in 1 .. Len(configs) : configs[j].name = Head(configs[k].next)
           /\ phase # "read"
<1>1. configs = conf.modules /\ phase # "read"
  BY DEF MapsOK
<1>2. Len(configs) \in Nat /\ DOMAIN configs = 1 .. Len(configs)
  BY ConfigFacts
<1>3. IsInjective([i \in DOMAIN configs |-> configs[i].name])
  BY <1>1 DEF Consistent, Unique
<1>4. \A j, k \in 1 .. Len(configs) : configs[j].name = configs[k].name => j = k
  BY <1>2, <1>3 DEF IsInjective
<1>5. ASSUME NEW k \in 1 .. Len(configs), configs[k].next # << >>
      PROVE  \E j \in 1 .. Len(configs) : configs[j].name = Head(configs[k].next)
  <2>1. configs[k] \in Range(conf.modules)
    BY <1>5, ConfigFacts
  <2>2. PICK u \in Range(conf.modules) : u.name = Head(configs[k].next)
    BY <1>5, <2>1 DEF Consistent
  <2>3. PICK j \in DOMAIN configs : u = configs[j]
    BY <1>1, <2>2 DEF Range
  <2> QED BY <1>2, <2>2, <2>3
<1> QED BY <1>1, <1>4, <1>5

LEMMA AddBuilt ==
    ASSUME MapsOK, BuildAdd, conf.from = "code", Consistent, GraphOf(1 .. at, {})
    PROVE  GraphOf(1 .. at, {})'
<1> DEFINE v == configs[at + 1]
<1>1. /\ at + 1 \in 1 .. Len(configs) /\ Created = Names
      /\ Names' = Names \cup {v.name}
      /\ \A n \in Names : modules_map'[n] = modules_map[n]
      /\ \A n \in Created : output_connectors'[n] = output_connectors[n]
      /\ v.name \notin Names => modules_map'[v.name] = v.class
                                /\ output_connectors'[v.name] = << >>
  BY AddFacts
<1>2. modules_config_' = With(modules_config_, v.name, v.params) /\ UNCHANGED configs
  BY DEF BuildAdd
<1>3. at \in Nat /\ Len(configs) \in Nat
  BY ConfigFacts DEF MapsOK
<1>4. ASSUME NEW k \in 1 .. at PROVE configs[k].name # v.name
  <2>1. k \in 1 .. Len(configs) /\ k # at + 1
    BY <1>1, <1>3
  <2> QED BY <1>1, <2>1, CodeFacts
<1>5. /\ Names = {configs[k].name : k \in 1 .. at}
      /\ \A k \in 1 .. at : /\ modules_map[configs[k].name] = configs[k].class
                            /\ modules_config_[configs[k].name] = configs[k].params
                            /\ output_connectors[configs[k].name] = << >>
  BY DEF GraphOf, ParamSet
<1>6. v.name \notin Names
  BY <1>4, <1>5
<1>7. DOMAIN modules_config_ = Names
  BY <1>1 DEF MapsOK
<1>8. /\ modules_config_'[v.name] = v.params
      /\ \A n \in Names : n # v.name => modules_config_'[n] = modules_config_[n]
  BY <1>2, <1>7 DEF With
<1>9. ASSUME NEW k \in 1 .. at + 1
      PROVE  /\ modules_map'[configs[k].name] = configs[k].class
             /\ modules_config_'[configs[k].name] = configs[k].params
             /\ output_connectors'[configs[k].name] = << >>
  <2>1. CASE k = at + 1
    BY <1>1, <1>6, <1>8, <2>1
  <2>2. CASE k # at + 1
    <3>1. k \in 1 .. at
      BY <1>3, <2>2
    <3>2. configs[k].name \in Names
      BY <1>5, <3>1
    <3> QED BY <1>1, <1>4, <1>5, <1>8, <3>1, <3>2
  <2> QED BY <2>1, <2>2
<1>10. Names' = {configs[k].name : k \in 1 .. at + 1}
  <2>1. 1 .. at + 1 = (1 .. at) \cup {at + 1}
    BY <1>3
  <2> QED BY <1>1, <1>5, <2>1
<1>11. at' = at + 1
  BY DEF BuildAdd
<1> HIDE DEF v
<1> QED BY <1>2, <1>9, <1>10, <1>11 DEF GraphOf, ParamSet

LEMMA FirstLinkFacts ==
    ASSUME NEW S, NEW v, v.next \in Seq(S)
    PROVE  FirstLink(v) = IF v.next = << >> THEN << >> ELSE << Head(v.next) >>
<1>1. CASE v.next = << >>
  BY <1>1 DEF FirstLink, Smaller
<1>2. CASE v.next # << >>
  <2>1. Len(v.next) \in Nat /\ Len(v.next) >= 1 /\ Head(v.next) = v.next[1]
    BY <1>2
  <2>2. Smaller(Len(v.next), 1) = 1
    BY <2>1 DEF Smaller
  <2>3. SubSeq(v.next, 1, 1) = << v.next[1] >>
    <3> DEFINE s == SubSeq(v.next, 1, 1)
    <3>1. s \in Seq(S) /\ Len(s) = 1 /\ s[1] = v.next[1] /\ v.next[1] \in S
      BY <2>1
    <3>2. << v.next[1] >> \in Seq(S) /\ Len(<< v.next[1] >>) = 1
      BY <3>1
    <3> HIDE DEF s
    <3>3. s = << v.next[1] >>
      BY <3>1, <3>2
    <3> QED BY <3>3 DEF s
  <2> QED BY <1>2, <2>1, <2>2, <2>3 DEF FirstLink
<1> QED BY <1>1, <1>2

LEMMA LinkBuilt ==
    ASSUME MapsOK, BuildLink, conf.from = "code", Consistent,
           GraphOf(1 .. Len(configs), 1 .. at)
    PROVE  GraphOf(1 .. Len(configs), 1 .. at)'
<1> DEFINE v == configs[at + 1]
           down == Head(v.next)
<1>1. /\ at + 1 \in 1 .. Len(configs) /\ v.name \in Created
      /\ \/ v.next = << >> /\ UNCHANGED <<modules_map, linkVars>>
         \/ v.next # << >> /\ down \notin Created
         \/ /\ v.next # << >>
            /\ output_connectors' = [output_connectors EXCEPT ![v.name] = Append(@, down)]
            /\ UNCHANGED modules_map
  BY LinkFacts
<1>2. /\ UNCHANGED <<configs, modules_config_>> /\ at' = at + 1 /\ phase = "link"
  BY DEF BuildLink
<1>3. at \in Nat /\ Len(configs) \in Nat
  BY ConfigFacts DEF MapsOK
<1>4. /\ Names = {configs[k].name : k \in 1 .. Len(configs)}
      /\ \A k \in 1 .. Len(configs) :
           /\ modules_map[configs[k].name] = configs[k].class
           /\ modules_config_[configs[k].name] = configs[k].params
           /\ output_connectors[configs[k].name]
              = IF k \in 1 .. at THEN FirstLink(configs[k]) ELSE << >>
  BY DEF GraphOf, ParamSet
<1>5. v.next # << >> => down \in Created
  <2>1. SUFFICES ASSUME v.next # << >> PROVE down \in Created
    OBVIOUS
  <2>2. PICK j \in 1 .. Len(configs) : configs[j].name = down
    BY <1>1, <2>1, CodeFacts
  <2> QED BY <1>2, <2>2 DEF MapsOK
<1>6. FirstLink(v) = IF v.next = << >> THEN << >> ELSE << down >>
  BY <1>1, ConfigFacts, FirstLinkFacts
<1>7. output_connectors[v.name] = << >>
  BY <1>1, <1>3, <1>4
<1>8. ASSUME NEW k \in 1 .. Len(configs), k # at + 1
      PROVE  configs[k].name # v.name /\ (k \in 1 .. at <=> k \in 1 .. at + 1)
  BY <1>1, <1>3, <1>8, CodeFacts
<1>9. output_connectors \in [Created -> Seq(Created)]
  BY DEF MapsOK
<1>10. UNCHANGED modules_map
  BY <1>1, <1>5
<1>11. \A k \in 1 .. Len(configs) : configs[k].name \in Created
  BY <1>2 DEF MapsOK
<1> HIDE DEF down
<1>12. ASSUME NEW k \in 1 .. Len(configs)
       PROVE  output_connectors'[configs[k].name]
              = IF k \in 1 .. at + 1 THEN FirstLink(configs[k]) ELSE << >>
  <2>1. CASE k = at + 1
    <3>1. k \in 1 .. at + 1
      BY <1>3, <2>1
    <3>2. CASE v.next = << >>
      BY <1>1, <1>6, <1>7, <2>1, <3>1, <3>2 DEF linkVars
    <3>3. CASE v.next # << >>
      <4>1. output_connectors' = [output_connectors EXCEPT ![v.name] = Append(@, down)]
        BY <1>1, <1>5, <3>3
      <4> HIDE DEF v
      <4>2. output_connectors'[v.name] = Append(<< >>, down)
        BY <1>1, <1>7, <1>9, <4>1
      <4>3. Append(<< >>, down) = << down >>
        OBVIOUS
      <4>4. output_connectors'[v.name] = FirstLink(v)
        BY <1>6, <3>3, <4>2, <4>3
      <4> QED BY <2>1, <3>1, <4>4 DEF v
    <3> QED BY <3>2, <3>3
  <2>2. CASE k # at + 1
    <3>1. configs[k].name # v.name /\ (k \in 1 .. at <=> k \in 1 .. at + 1)
      BY <1>8, <2>2
    <3>2. \/ UNCHANGED output_connectors
          \/ output_connectors' = [output_connectors EXCEPT ![v.name] = Append(@, down)]
      BY <1>1, <1>5 DEF linkVars
    <3>3. output_connectors'[configs[k].name] = output_connectors[configs[k].name]
      <4> HIDE DEF v
      <4> QED BY <1>9, <1>11, <3>1, <3>2
    <3> QED BY <1>4, <3>1, <3>3
  <2> QED BY <2>1, <2>2
<1> HIDE DEF v
<1> QED BY <1>2, <1>4, <1>10, <1>12, SMTT(30) DEF GraphOf, ParamSet, Names

LEMMA SameBuilt ==
    ASSUME BuildOK, SameGraph,
           phase' # phase => phase' \notin {"add", "link"},
           phase' \in {"open", "run"} => phase \in {"open", "run"}
    PROVE  BuildOK'
<1>1. UNCHANGED <<conf, configs, at, modules_map, modules_config_, output_connectors>>
  BY DEF SameGraph, mapVars, linkVars
<1>2. Consistent' = Consistent
  BY <1>1 DEF Consistent
<1>3. \A h, l : GraphOf(h, l)' = GraphOf(h, l)
  BY <1>1 DEF GraphOf, ParamSet, Names
<1> QED BY <1>1, <1>2, <1>3 DEF BuildOK

LEMMA GraphBuilt ==
    ASSUME MapsOK, BuildOK, Build \/ Start
    PROVE  BuildOK'
<1>1. SUFFICES ASSUME conf.from = "code", Consistent
               PROVE  /\ phase' = "add" => GraphOf(1 .. at, {})'
                      /\ phase' = "link" => GraphOf(1 .. Len(configs), 1 .. at)'
                      /\ phase' \in {"open", "run"} =>
                           GraphOf(1 .. Len(configs), 1 .. Len(configs))'
  <2>1. UNCHANGED conf
    BY DEF Build, Start, BuildPipelineByJSONFile, BuildAdd, BuildAddNull, BuildAdded,
           BuildLink, BuildLinked, Open, Launch
  <2>2. Consistent' = Consistent
    BY <2>1 DEF Consistent
  <2> QED BY <2>1, <2>2 DEF BuildOK
<1>2. CASE BuildPipelineByJSONFile
  BY <1>1, <1>2, CodeFacts DEF BuildPipelineByJSONFile
<1>3. CASE BuildAdd
  <2>1. phase = "add" /\ phase' = "add"
    BY <1>3 DEF BuildAdd
  <2>2. GraphOf(1 .. at, {})
    BY <1>1, <2>1 DEF BuildOK
  <2> QED BY <1>1, <1>3, <2>1, <2>2, AddBuilt
<1>4. CASE BuildAdded
  <2>1. /\ phase = "add" /\ phase' = "link" /\ at = Len(configs) /\ at' = 0
        /\ UNCHANGED <<configs, modules_map, modules_config_, output_connectors>>
    BY <1>4 DEF BuildAdded, mapVars, linkVars
  <2>2. GraphOf(1 .. at, {})
    BY <1>1, <2>1 DEF BuildOK
  <2>3. 1 .. 0 = {}
    OBVIOUS
  <2> QED BY <2>1, <2>2, <2>3 DEF GraphOf, ParamSet, Names
<1>5. CASE BuildLink
  <2>1. phase = "link" /\ phase' = "link"
    BY <1>5 DEF BuildLink
  <2>2. GraphOf(1 .. Len(configs), 1 .. at)
    BY <1>1, <2>1 DEF BuildOK
  <2> QED BY <1>1, <1>5, <2>1, <2>2, LinkBuilt
<1>6. CASE BuildLinked
  <2>1. /\ phase = "link" /\ phase' = "open" /\ at = Len(configs)
        /\ UNCHANGED <<configs, modules_map, modules_config_, output_connectors>>
    BY <1>6 DEF BuildLinked, mapVars, linkVars
  <2>2. GraphOf(1 .. Len(configs), 1 .. at)
    BY <1>1, <2>1 DEF BuildOK
  <2> QED BY <2>1, <2>2 DEF GraphOf, ParamSet, Names
<1>7. CASE BuildAddNull \/ Start
  <2>1. /\ SameGraph
        /\ \/ phase' = "crashed"
           \/ phase = "open" /\ phase' \in {"open", "run", "failed"}
    BY <1>7 DEF BuildAddNull, Start, Open, Launch, SameGraph
  <2>2. BuildOK'
    <3>1. phase' # phase => phase' \notin {"add", "link"}
      BY <2>1
    <3>2. phase' \in {"open", "run"} => phase \in {"open", "run"}
      BY <2>1
    <3> QED BY <2>1, <3>1, <3>2, SameBuilt
  <2>3. UNCHANGED conf
    BY <2>1 DEF SameGraph
  <2>4. Consistent' = Consistent
    BY <2>3 DEF Consistent
  <2> QED BY <1>1, <2>2, <2>3, <2>4 DEF BuildOK
<1> QED BY <1>2, <1>3, <1>4, <1>5, <1>6, <1>7 DEF Build

\* The graph as the property says it.
LEMMA BuiltFacts ==
    ASSUME MapsOK, BuildOK
    PROVE  BuiltAsConfigured
<1>1. SUFFICES ASSUME phase \in {"open", "run"}, conf.from = "code", Consistent
               PROVE  /\ Names = {v.name : v \in Range(conf.modules)}
                      /\ \A v \in Range(conf.modules) :
                           /\ modules_map[v.name] = v.class
                           /\ ParamSet(v.name) = v.params
                           /\ output_connectors[v.name] = FirstLink(v)
  BY DEF BuiltAsConfigured, FirstLink
<1>2. configs = conf.modules
  BY <1>1, CodeFacts
<1>3. DOMAIN configs = 1 .. Len(configs)
  BY ConfigFacts
<1>4. GraphOf(1 .. Len(configs), 1 .. Len(configs))
  BY <1>1 DEF BuildOK
<1> QED BY <1>2, <1>3, <1>4 DEF GraphOf, Range

-----------------------------------------------------------------------------
(* What a step of the threads leaves as it is.                             *)

LEMMA CrashKeeps ==
    ASSUME Crash
    PROVE  /\ SameGraph /\ UNCHANGED <<opened, run_id>> /\ phase' = "crashed"
           /\ UNCHANGED pathVars
BY DEF Crash, SameGraph, startVars

LEMMA MissingCrash ==
    ASSUME Flow
    PROVE  \/ Decode \/ Finish \/ ObserverStop
           \/ \E n \in ModuleNames : Process(n) \/ Respond(n)
           \/ \E t \in Threads : phase # "crashed" /\ Transmit(t)
           \/ Crash
BY DEF Flow, Missing, CollectCrash, DetectCrash, RespondCrash, FinishCrash

LEMMA FlowKeeps ==
    ASSUME Flow
    PROVE  /\ SameGraph /\ UNCHANGED opened
           /\ \/ phase' = phase
              \/ phase' = "crashed"
              \/ phase = "run" /\ phase' = "stopped"
<1>1. CASE MainCrash
  BY <1>1, CrashKeeps DEF MainCrash
<1>2. CASE MainRun \/ MainExit \/ SourceFrame
  BY <1>2 DEF MainRun, MainExit, SourceFrame, graphVars, SameGraph, startVars
<1>3. CASE SourceCrash
  BY <1>3, CrashKeeps DEF SourceCrash
<1>4. CASE SourceEos
  BY <1>4 DEF SourceEos, RightMove, SameGraph
<1>5. ASSUME NEW n \in ModuleNames, Process(n)
      PROVE  /\ SameGraph /\ UNCHANGED opened
             /\ phase' = phase \/ phase' = "crashed"
  <2>1. CASE ProcessEos(n)
    BY <2>1 DEF ProcessEos, RightMove, SameGraph
  <2>2. CASE Collect(n) \/ Detect(n) \/ PassOn(n)
    BY <2>2 DEF Collect, Detect, PassOn, graphVars, SameGraph, startVars
  <2>3. CASE Show(n)
    BY <2>3, CrashKeeps DEF Show, graphVars, SameGraph, startVars
  <2>4. CASE Warp(n)
    BY <2>4, CrashKeeps DEF Warp, graphVars, SameGraph, startVars
  <2> QED BY <1>5, <2>1, <2>2, <2>3, <2>4 DEF Process
<1>6. ASSUME NEW n \in ModuleNames, Respond(n)
      PROVE  SameGraph /\ UNCHANGED <<opened, phase>>
  BY <1>6 DEF Respond, graphVars, SameGraph, startVars
<1>7. CASE Finish
  BY <1>7 DEF Finish, graphVars, SameGraph, startVars
<1>8. ASSUME NEW t \in Threads, Transmit(t)
      PROVE  SameGraph /\ UNCHANGED <<opened, phase>>
  BY <1>8 DEF Transmit, graphVars, SameGraph, startVars
<1>9. CASE ObserverStop
  BY <1>9 DEF ObserverStop, SameGraph, startVars
<1> QED BY <1>1, <1>2, <1>3, <1>4, <1>5, <1>6, <1>7, <1>8, <1>9, MissingCrash, CrashKeeps
     DEF Decode

LEMMA SameFacts ==
    ASSUME SameGraph
    PROVE  /\ Names' = Names /\ Created' = Created /\ FanIn' = FanIn
           /\ \A n : Targets(n)' = Targets(n)
           /\ \A c : HasClass(c)' = HasClass(c)
           /\ UNCHANGED <<conf, modules_map, connector, output_connectors,
                          input_connectors>>
<1>1. UNCHANGED <<conf, modules_map, connector, output_connectors, input_connectors>>
  BY DEF SameGraph, mapVars, linkVars
<1> QED BY <1>1 DEF Names, Created, FanIn, Targets, HasClass

LEMMA FlowGraph ==
    ASSUME GraphIInv, Flow
    PROVE  GraphIInv'
<1>1. /\ SameGraph /\ UNCHANGED opened
      /\ \/ phase' = phase
         \/ phase' = "crashed"
         \/ phase = "run" /\ phase' = "stopped"
  BY FlowKeeps
<1>2. MapsOK'
  <2>1. opened' \subseteq Created
    BY <1>1 DEF GraphIInv, MapsOK
  <2> QED BY <1>1, <2>1, SameMaps DEF GraphIInv, Late
<1>3. BuildOK'
  <2>1. /\ phase' # phase => phase' \notin {"add", "link"}
        /\ phase' \in {"open", "run"} => phase \in {"open", "run"}
    BY <1>1
  <2> QED BY <1>1, <2>1, SameBuilt DEF GraphIInv
<1>4. CountsAgree'
  BY <1>1, SameFacts DEF GraphIInv, CountsAgree
<1> QED BY <1>2, <1>3, <1>4 DEF GraphIInv

\* Before main has called Run nothing moves.
LEMMA QuietFlow ==
    ASSUME MainOK, Flow, main = "start"
    PROVE  MainCrash \/ MainRun
<1>1. /\ late = {} /\ ~stop_pipeline
      /\ \A n \in ModuleNames : queue[n] = << >> /\ requests[n] = << >>
      /\ \A t \in Threads : sending[t] = << >>
  BY DEF MainOK
<1>2. \A n \in ModuleNames : ~Process(n)
  BY <1>1 DEF Process, ProcessEos, Collect, Detect, PassOn, Show, Warp, Takes
<1>3. \A n \in ModuleNames : ~Respond(n)
  BY <1>1 DEF Respond
<1>4. \A t \in Threads : ~Transmit(t)
  BY <1>1 DEF Transmit, Transmitted
<1>5. ~Finish /\ ~FinishCrash /\ ~ObserverStop
  BY <1>1 DEF Finish, FinishCrash, ObserverStop
<1>6. \A n \in ModuleNames : ~Missing(n)
  BY <1>1 DEF Missing, CollectCrash, DetectCrash, RespondCrash, Takes
<1> QED BY <1>2, <1>3, <1>4, <1>5, <1>6
     DEF Flow, Decode, SourceFrame, SourceCrash, SourceEos, MainExit

\* The module of a thread that processes or responds was created.
LEMMA BusyFacts ==
    ASSUME GraphIInv, StartOK, MainOK, NEW n \in ModuleNames, Takes(n)
    PROVE  /\ n \in Created /\ n # "source" /\ opened = Names /\ main # "start"
           /\ phase = "run"
<1>1. n \in Names /\ n # "source" /\ queue[n] # << >> /\ phase = "run"
  BY DEF Takes
<1>2. main # "start"
  BY <1>1 DEF MainOK
<1>3. opened = Names
  BY <1>1, <1>2 DEF StartOK
<1>4. opened \subseteq Created
  BY DEF GraphIInv, MapsOK
<1> QED BY <1>1, <1>2, <1>3, <1>4

LEMMA SourceCreated ==
    ASSUME GraphIInv, MainOK, main # "start"
    PROVE  "source" \in Created /\ "source" \in opened /\ phase \in Late
<1>1. "source" \in opened /\ phase \in Late
  BY DEF MainOK
<1>2. opened \subseteq Created
  BY DEF GraphIInv, MapsOK
<1> QED BY <1>1, <1>2

-----------------------------------------------------------------------------
(* The count of the open modules, which RightMove brings to 1.             *)

LEMMA NamesFinite ==
    ASSUME MapsOK
    PROVE  /\ IsFiniteSet(Names) /\ IsFiniteSet(opened) /\ opened \subseteq Names
           /\ Cardinality(opened) \in Nat /\ Cardinality(Names) \in Nat
           /\ Cardinality(opened) <= Cardinality(Names)
           /\ Cardinality(ModuleNames) \in Nat
           /\ Cardinality(Names) <= Cardinality(ModuleNames)
<1>1. Names \subseteq ModuleNames /\ opened \subseteq Names
  BY DEF MapsOK
<1>2. IsFiniteSet(ModuleNames)
  BY FramePathAssumption
<1>3. IsFiniteSet(Names) /\ Cardinality(Names) <= Cardinality(ModuleNames)
  BY <1>1, <1>2, FS_Subset
<1>4. IsFiniteSet(opened) /\ Cardinality(opened) <= Cardinality(Names)
  BY <1>1, <1>3, FS_Subset
<1> QED BY <1>1, <1>2, <1>3, <1>4, FS_CardinalityType

LEMMA GraphCount ==
    ASSUME MapsOK, StartOK, MainOK, Build \/ Start, UNCHANGED pathVars
    PROVE  StartOK' /\ MainOK'
<1>1. UNCHANGED <<main, stream, frames, queue, sending, batch_array, requests, late,
                  through, stop_pipeline>>
  BY DEF pathVars, flowVars, endVars
<1>2. phase \in Early \cup {"open"}
  BY DEF Build, Start, BuildPipelineByJSONFile, BuildAdd, BuildAddNull, BuildAdded,
         BuildLink, BuildLinked, Open, Launch, Early
<1>3. main = "start" /\ through = {}
  BY <1>2 DEF MainOK, Early, Late
<1>4. Cardinality({}) = 0
  BY FS_EmptySet
<1>5. MainOK'
  BY <1>1, <1>3 DEF MainOK
<1>6. CASE Build
  <2>1. phase \in Early /\ UNCHANGED <<opened, run_id>>
    BY <1>6 DEF Build, BuildPipelineByJSONFile, BuildAdd, BuildAddNull, BuildAdded,
                BuildLink, BuildLinked, Early, startVars
  <2>2. phase' \in Early \cup {"open", "crashed"}
    BY <1>6 DEF Build, BuildPipelineByJSONFile, BuildAdd, BuildAddNull, BuildAdded,
                BuildLink, BuildLinked, Early
  <2>3. opened = {} /\ run_id = 1
    BY <2>1 DEF StartOK
  <2> QED BY <1>4, <1>5, <2>1, <2>2, <2>3 DEF StartOK, Early
<1>7. ASSUME NEW n \in Names, Open(n) PROVE StartOK'
  <2>1. /\ phase = "open" /\ n \notin opened /\ run_id' = run_id + 1
    BY <1>7 DEF Open
  <2>2. run_id = Cardinality(opened) + 1
    BY <2>1 DEF StartOK
  <2>3. /\ IsFiniteSet(opened \cup {n})
        /\ Cardinality(opened \cup {n}) = Cardinality(opened) + 1
    BY <2>1, NamesFinite, FS_AddElement
  <2>4. Cardinality(opened \cup {n}) <= Cardinality(ModuleNames)
    <3>1. opened \cup {n} \subseteq ModuleNames
      BY NamesFinite DEF MapsOK
    <3> QED BY <3>1, FramePathAssumption, FS_Subset
  <2>5. run_id' \in 0 .. Cardinality(ModuleNames) + 1
    BY <2>1, <2>2, <2>3, <2>4, NamesFinite
  <2>6. \/ phase' = "crashed"
        \/ phase' = "open" /\ opened' = opened \cup {n}
        \/ phase' = "run" /\ opened = {} /\ opened' = opened
        \/ phase' = "failed" /\ opened # {} /\ opened' = opened
    BY <1>7 DEF Open
  <2>7. CASE phase' = "crashed"
    BY <2>5, <2>7 DEF StartOK, Early
  <2>8. CASE phase' = "open" /\ opened' = opened \cup {n}
    BY <2>1, <2>2, <2>3, <2>5, <2>8 DEF StartOK, Early
  <2>9. CASE phase' = "run" /\ opened = {} /\ opened' = opened
    BY <1>1, <1>3, <2>5, <2>9 DEF StartOK, Early
  <2>10. CASE phase' = "failed" /\ opened # {} /\ opened' = opened
    BY <1>1, <1>3, <1>4, <2>1, <2>2, <2>5, <2>10, NamesFinite DEF StartOK, Early
  <2> QED BY <2>6, <2>7, <2>8, <2>9, <2>10
<1>8. CASE Launch
  <2>1. phase = "open" /\ phase' = "run" /\ opened = Names /\ UNCHANGED <<opened, run_id>>
        /\ Names' = Names
    BY <1>8 DEF Launch, startVars, mapVars, Names
  <2>2. run_id = Cardinality(opened) + 1
    BY <2>1 DEF StartOK
  <2>3. run_id' + Cardinality(through') = Cardinality(opened') + 1
    BY <1>1, <1>3, <1>4, <2>1, <2>2, NamesFinite
  <2>4. run_id' \in 0 .. Cardinality(ModuleNames) + 1
    BY <2>1 DEF StartOK
  <2>5. StartOK'
    BY <2>1, <2>3, <2>4 DEF StartOK, Early
  <2> QED BY <1>5, <2>5
<1> QED BY <1>5, <1>6, <1>7, <1>8 DEF Start

\* What a step of the threads does to main and to the count.
Counted == <<through, stop_pipeline, run_id>>

LEMMA FlowMoves ==
    ASSUME Flow
    PROVE  \/ UNCHANGED <<main, Counted>>
           \/ MainRun /\ UNCHANGED <<Counted, phase>>
           \/ MainExit /\ UNCHANGED <<Counted, phase>>
           \/ SourceEos
           \/ \E n \in ModuleNames : ProcessEos(n)
<1>1. Crash => UNCHANGED <<main, Counted>>
  BY CrashKeeps DEF pathVars, endVars, Counted
<1>2. MainCrash => UNCHANGED <<main, Counted>>
  BY <1>1 DEF MainCrash
<1>3. MainRun => UNCHANGED <<Counted, phase>>
  BY DEF MainRun, graphVars, startVars, endVars, Counted
<1>4. MainExit => UNCHANGED <<Counted, phase>>
  BY DEF MainExit, graphVars, startVars, endVars, Counted
<1>5. SourceFrame => UNCHANGED <<main, Counted>>
  BY DEF SourceFrame, graphVars, startVars, endVars, Counted
<1>6. SourceCrash => UNCHANGED <<main, Counted>>
  BY <1>1 DEF SourceCrash
<1>7. ASSUME NEW n PROVE /\ Collect(n) => UNCHANGED <<main, Counted>>
                         /\ Detect(n) => UNCHANGED <<main, Counted>>
                         /\ PassOn(n) => UNCHANGED <<main, Counted>>
                         /\ Show(n) => UNCHANGED <<main, Counted>>
                         /\ Warp(n) => UNCHANGED <<main, Counted>>
                         /\ Respond(n) => UNCHANGED <<main, Counted>>
                         /\ Transmit(n) => UNCHANGED <<main, Counted>>
  <2>1. Collect(n) => UNCHANGED <<main, Counted>>
    BY DEF Collect, graphVars, startVars, endVars, Counted
  <2>2. Detect(n) => UNCHANGED <<main, Counted>>
    BY DEF Detect, graphVars, startVars, endVars, Counted
  <2>3. PassOn(n) => UNCHANGED <<main, Counted>>
    BY DEF PassOn, graphVars, startVars, endVars, Counted
  <2>4. Show(n) => UNCHANGED <<main, Counted>>
    BY <1>1 DEF Show, graphVars, startVars, endVars, Counted
  <2>5. Warp(n) => UNCHANGED <<main, Counted>>
    BY <1>1 DEF Warp, graphVars, startVars, endVars, Counted
  <2>6. Respond(n) => UNCHANGED <<main, Counted>>
    BY DEF Respond, graphVars, startVars, endVars, Counted
  <2>7. Transmit(n) => UNCHANGED <<main, Counted>>
    BY DEF Transmit, graphVars, startVars, endVars, Counted
  <2> QED BY <2>1, <2>2, <2>3, <2>4, <2>5, <2>6, <2>7
<1>8. Finish \/ ObserverStop => UNCHANGED <<main, Counted>>
  BY DEF Finish, ObserverStop, graphVars, startVars, endVars, Counted
<1> QED BY <1>1, <1>2, <1>3, <1>4, <1>5, <1>6, <1>7, <1>8, MissingCrash DEF Decode, Process

LEMMA FlowMain ==
    ASSUME GraphIInv, StartOK, MainOK, Flow
    PROVE  MainOK'
<1>1. /\ SameGraph /\ UNCHANGED opened
      /\ \/ phase' = phase
         \/ phase' = "crashed"
         \/ phase = "run" /\ phase' = "stopped"
  BY FlowKeeps
<1>2. modules_map' = modules_map
  BY <1>1, SameFacts
<1>3. CASE main = "start"
  <2>1. MainCrash \/ MainRun
    BY <1>3, QuietFlow
  <2>2. CASE MainCrash
    <3>1. UNCHANGED pathVars
      BY <2>2, CrashKeeps DEF MainCrash
    <3> QED BY <1>1, <1>2, <1>3, <3>1 DEF MainOK, pathVars, flowVars, endVars
  <2>3. CASE MainRun
    BY <1>1, <1>2, <1>3, <2>3 DEF MainOK, MainRun, Late, endVars, graphVars
  <2> QED BY <2>1, <2>2, <2>3
<1>4. CASE main # "start"
  <2>1. /\ phase \in Late /\ "source" \in opened /\ modules_map["source"] = "Source"
        /\ main \in {"run", "eos", "exit"} /\ through \subseteq opened
        /\ "source" \in through => main \in {"eos", "exit"}
    BY <1>4 DEF MainOK
  <2>2. phase' \in Late
    BY <1>1, <2>1 DEF Late
  <2>3. /\ main' \in {"run", "eos", "exit"} /\ through' \subseteq opened
        /\ "source" \in through' => main' \in {"eos", "exit"}
    <3>1. CASE UNCHANGED <<main, Counted>>
      BY <2>1, <3>1 DEF Counted
    <3>2. CASE MainRun \/ (MainExit /\ UNCHANGED <<Counted, phase>>)
      BY <1>4, <2>1, <3>2 DEF MainRun, MainExit, Counted
    <3>3. CASE SourceEos
      BY <2>1, <3>3 DEF SourceEos, RightMove
    <3>4. ASSUME NEW n \in ModuleNames, ProcessEos(n)
          PROVE  /\ main' = main /\ through' = through \cup {n}
                 /\ n \in opened /\ n # "source"
      <4>1. Takes(n) /\ main' = main /\ through' = through \cup {n}
        BY <3>4 DEF ProcessEos, RightMove
      <4>2. n \in Names
        BY <4>1 DEF Takes
      <4> QED BY <4>1, <4>2, BusyFacts
    <3>5. CASE \E n \in ModuleNames : ProcessEos(n)
      BY <2>1, <3>4, <3>5
    <3> QED BY <3>1, <3>2, <3>3, <3>5, FlowMoves
  <2> QED BY <1>1, <1>2, <2>1, <2>2, <2>3 DEF MainOK
<1> QED BY <1>3, <1>4

\* A module has not yet processed the end that it takes.
LEMMA EndFresh ==
    ASSUME FlowOK, EndsOK, ~FanIn, NEW n \in ModuleNames, ProcessEos(n)
    PROVE  n \notin through
<1>1. Takes(n) /\ frames[Taken(n)].eos
  BY DEF ProcessEos
<1>2. n # "source" /\ queue[n] # << >>
  BY <1>1 DEF Takes
<1>3. queue[n] \in Seq(DOMAIN frames)
  BY DEF FlowOK
<1>4. 1 \in DOMAIN queue[n] /\ queue[n][1] = Taken(n)
  BY <1>2, <1>3 DEF Taken
<1>5. EndQueued(n)
  BY <1>1, <1>4 DEF EndQueued, EndAt, Plain
<1> QED BY <1>2, <1>5 DEF EndsOK, EndOK

\* RightMove by a module that was not through.
LEMMA MoveCount ==
    ASSUME GraphIInv, StartOK, MainOK, ToldWhenThrough, main # "start",
           SameGraph, UNCHANGED <<opened, phase>>, MainOK',
           NEW n \in opened, FanIn \/ n \notin through, RightMove(n),
           phase = "failed" => n = "source" /\ n \notin through, phase # "crashed"
    PROVE  StartOK' /\ ToldWhenThrough'
<1>1. /\ run_id' = IF run_id = 0 THEN 0 ELSE run_id - 1
      /\ stop_pipeline' = (stop_pipeline \/ run_id' = 1)
      /\ through' = through \cup {n}
  BY DEF RightMove
<1>2. run_id \in 0 .. Cardinality(ModuleNames) + 1 /\ phase \in {"run", "stopped", "failed"}
      /\ through \subseteq opened
  BY DEF StartOK, MainOK, Late
<1>3. /\ IsFiniteSet(Names) /\ IsFiniteSet(opened) /\ opened \subseteq Names
      /\ Cardinality(opened) \in Nat /\ Cardinality(ModuleNames) \in Nat
  BY NamesFinite DEF GraphIInv
<1>4. run_id' \in 0 .. Cardinality(ModuleNames) + 1
  BY <1>1, <1>2, <1>3
<1>5. Names' = Names /\ FanIn' = FanIn
  BY SameFacts
<1>6. IsFiniteSet(through) /\ Cardinality(through) \in Nat
  BY <1>2, <1>3, FS_Subset, FS_CardinalityType
<1>7. n \notin through =>
        /\ IsFiniteSet(through') /\ Cardinality(through') = Cardinality(through) + 1
        /\ Cardinality(through') <= Cardinality(opened)
        /\ Cardinality(through') = Cardinality(opened) => through' = opened
  <2>1. SUFFICES ASSUME n \notin through
                 PROVE  /\ IsFiniteSet(through')
                        /\ Cardinality(through') = Cardinality(through) + 1
                        /\ Cardinality(through') <= Cardinality(opened)
                        /\ Cardinality(through') = Cardinality(opened) => through' = opened
    OBVIOUS
  <2>2. IsFiniteSet(through') /\ Cardinality(through') = Cardinality(through) + 1
    BY <1>1, <1>6, <2>1, FS_AddElement
  <2>3. through' \subseteq opened
    BY <1>1, <1>2
  <2> QED BY <1>3, <2>2, <2>3, FS_Subset
<1>8. CASE phase = "failed"
  <2>1. /\ n = "source" /\ n \notin through /\ through \subseteq {"source"}
        /\ run_id + Cardinality(through) = Cardinality(opened) + 2
    BY <1>8 DEF StartOK
  <2>2. run_id' = run_id - 1 /\ run_id' + Cardinality(through') = Cardinality(opened) + 2
        /\ run_id' # 1
    BY <1>1, <1>2, <1>3, <1>6, <1>7, <2>1
  <2>3. StartOK'
    BY <1>1, <1>4, <1>8, <2>1, <2>2 DEF StartOK, Early
  <2>4. ToldWhenThrough'
    <3>1. stop_pipeline' => stop_pipeline
      BY <1>1, <2>2
    <3> QED BY <1>1, <1>2, <1>3, <1>5, <3>1 DEF ToldWhenThrough
  <2> QED BY <2>3, <2>4
<1>9. CASE phase \in {"run", "stopped"} /\ FanIn
  <2>1. opened = Names
    BY <1>9 DEF StartOK
  <2> QED BY <1>4, <1>5, <1>9, <2>1 DEF StartOK, ToldWhenThrough, Early
<1>10. CASE phase \in {"run", "stopped"} /\ ~FanIn
  <2>1. opened = Names /\ run_id + Cardinality(through) = Cardinality(opened) + 1
    BY <1>10 DEF StartOK
  <2>2. n \notin through
    BY <1>10
  <2>3. run_id' = run_id - 1 /\ run_id' + Cardinality(through') = Cardinality(opened) + 1
    BY <1>1, <1>2, <1>3, <1>6, <1>7, <2>1, <2>2
  <2>4. StartOK'
    BY <1>4, <1>5, <1>10, <2>1, <2>3 DEF StartOK, Early
  <2>5. run_id' = 1 => through' = Names
    BY <1>2, <1>3, <1>6, <1>7, <2>1, <2>2, <2>3
  <2>6. stop_pipeline => through' = Names
    BY <1>1, <1>2, <1>10, <2>1 DEF ToldWhenThrough
  <2> QED BY <1>1, <1>5, <2>4, <2>5, <2>6 DEF ToldWhenThrough
<1> QED BY <1>2, <1>8, <1>9, <1>10

LEMMA FlowCount ==
    ASSUME GraphIInv, StartOK, MainOK, FlowOK, EndsOK, ToldWhenThrough, Flow
    PROVE  StartOK' /\ ToldWhenThrough'
<1>1. /\ SameGraph /\ UNCHANGED opened
      /\ \/ phase' = phase
         \/ phase' = "crashed"
         \/ phase = "run" /\ phase' = "stopped"
  BY FlowKeeps
<1>2. Names' = Names /\ FanIn' = FanIn
  BY <1>1, SameFacts
<1>3. MainOK'
  BY FlowMain
<1>4. ASSUME UNCHANGED Counted, main' = main \/ opened # {}
      PROVE  StartOK' /\ ToldWhenThrough'
  <2>1. UNCHANGED <<through, stop_pipeline, run_id>>
    BY <1>4 DEF Counted
  <2>2. ToldWhenThrough'
    BY <1>2, <2>1 DEF ToldWhenThrough
  <2>3. StartOK'
    BY <1>1, <1>2, <1>4, <2>1 DEF StartOK, Early
  <2> QED BY <2>2, <2>3
<1>5. CASE UNCHANGED <<main, Counted>>
  BY <1>4, <1>5
<1>6. CASE MainRun /\ UNCHANGED <<Counted, phase>>
  BY <1>4, <1>6 DEF MainRun
<1>7. CASE MainExit /\ UNCHANGED <<Counted, phase>>
  <2>1. opened # {}
    BY <1>7, SourceCreated DEF MainExit
  <2> QED BY <1>4, <1>7, <2>1
<1>8. CASE SourceEos
  <2>1. main = "run" /\ phase # "crashed" /\ RightMove("source") /\ phase' = phase
    BY <1>8 DEF SourceEos, RightMove
  <2>2. "source" \in opened /\ "source" \notin through
    BY <2>1 DEF MainOK
  <2> QED BY <1>1, <1>3, <2>1, <2>2, MoveCount
<1>9. ASSUME NEW n \in ModuleNames, ProcessEos(n)
      PROVE  StartOK' /\ ToldWhenThrough'
  <2>1. Takes(n) /\ RightMove(n) /\ phase' = phase
    BY <1>9 DEF ProcessEos, RightMove
  <2>2. n \in Names /\ phase = "run" /\ opened = Names /\ main # "start"
    BY <2>1, BusyFacts DEF Takes
  <2>3. FanIn \/ n \notin through
    BY <1>9, EndFresh
  <2> QED BY <1>1, <1>3, <2>1, <2>2, <2>3, MoveCount
<1> QED BY <1>5, <1>6, <1>7, <1>8, <1>9, FlowMoves

-----------------------------------------------------------------------------
(* The frames, and where their numbers are.                                *)

LEMMA SeqWider ==
    ASSUME NEW S, NEW T, S \subseteq T
    PROVE  Seq(S) \subseteq Seq(T)
OBVIOUS

FramesKept == DOMAIN frames \subseteq DOMAIN frames' /\ Plain' \cap DOMAIN frames = Plain

LEMMA Wider ==
    ASSUME FlowOK, FramesKept, SameGraph
    PROVE  /\ queue \in [ModuleNames -> Seq(DOMAIN frames')]
           /\ \A n \in ModuleNames :
                /\ sending[<<n, "loop">>] \in Seq([frame : DOMAIN frames', to : Targets(n)'])
                /\ sending[<<n, "response">>] \in Seq([frame : Plain', to : Targets(n)'])
           /\ batch_array \in [ModuleNames -> Seq(Plain')]
           /\ requests \in [ModuleNames -> Seq({b \in Seq(Plain') : Len(b) = Batch})]
           /\ \A n \in ModuleNames : requests[n] # << >> => n \in Created'
           /\ \A x \in late : x.frame \in Plain' /\ IsList(x.objs)
<1>1. DOMAIN frames \subseteq DOMAIN frames' /\ Plain \subseteq Plain'
  BY DEF FramesKept
<1>2. Created' = Created /\ \A n : Targets(n)' = Targets(n)
  BY SameFacts
<1>3. queue \in [ModuleNames -> Seq(DOMAIN frames')]
  <2>1. queue \in [ModuleNames -> Seq(DOMAIN frames)]
    BY DEF FlowOK, SendingOK, HeldOK
  <2> QED BY <1>1, <2>1, SeqWider
<1>4. ASSUME NEW n \in ModuleNames
      PROVE  /\ sending[<<n, "loop">>] \in Seq([frame : DOMAIN frames', to : Targets(n)'])
             /\ sending[<<n, "response">>] \in Seq([frame : Plain', to : Targets(n)'])
  <2>1. /\ sending[<<n, "loop">>] \in Seq([frame : DOMAIN frames, to : Targets(n)])
        /\ sending[<<n, "response">>] \in Seq([frame : Plain, to : Targets(n)])
    BY DEF FlowOK, SendingOK, HeldOK
  <2>2. /\ [frame : DOMAIN frames, to : Targets(n)] \subseteq [frame : DOMAIN frames', to : Targets(n)']
        /\ [frame : Plain, to : Targets(n)] \subseteq [frame : Plain', to : Targets(n)']
    BY <1>1, <1>2
  <2>3. /\ Seq([frame : DOMAIN frames, to : Targets(n)])
             \subseteq Seq([frame : DOMAIN frames', to : Targets(n)'])
        /\ Seq([frame : Plain, to : Targets(n)])
             \subseteq Seq([frame : Plain', to : Targets(n)'])
    <3>1. Seq([frame : DOMAIN frames, to : Targets(n)])
            \subseteq Seq([frame : DOMAIN frames', to : Targets(n)'])
      BY <2>2, SeqWider
    <3>2. Seq([frame : Plain, to : Targets(n)])
            \subseteq Seq([frame : Plain', to : Targets(n)'])
      BY <2>2, SeqWider
    <3> QED BY <3>1, <3>2
  <2> QED BY <2>1, <2>3
<1>5. batch_array \in [ModuleNames -> Seq(Plain')]
  <2>1. batch_array \in [ModuleNames -> Seq(Plain)]
    BY DEF FlowOK, SendingOK, HeldOK
  <2> QED BY <1>1, <2>1, SeqWider
<1>6. requests \in [ModuleNames -> Seq({b \in Seq(Plain') : Len(b) = Batch})]
  <2>1. requests \in [ModuleNames -> Seq({b \in Seq(Plain) : Len(b) = Batch})]
    BY DEF FlowOK, SendingOK, HeldOK
  <2>2. {b \in Seq(Plain) : Len(b) = Batch} \subseteq {b \in Seq(Plain') : Len(b) = Batch}
    BY <1>1, SeqWider
  <2>3. Seq({b \in Seq(Plain) : Len(b) = Batch}) \subseteq Seq({b \in Seq(Plain') : Len(b) = Batch})
    BY <2>2, SeqWider
  <2> QED BY <2>1, <2>3
<1> QED BY <1>1, <1>2, <1>3, <1>4, <1>5, <1>6 DEF FlowOK, SendingOK, HeldOK

LEMMA SameFrames ==
    ASSUME UNCHANGED frames
    PROVE  FramesKept /\ Plain' = Plain
BY DEF FramesKept, Plain

LEMMA PushesType ==
    ASSUME MapsOK, NEW n \in Created, NEW F, NEW f \in F
    PROVE  /\ Pushes(n, f) \in Seq([frame : F, to : Targets(n)])
           /\ DOMAIN Pushes(n, f) = DOMAIN output_connectors[n]
           /\ \A i \in DOMAIN Pushes(n, f) :
                 Pushes(n, f)[i].frame = f /\ Pushes(n, f)[i].to = output_connectors[n][i]
<1>1. output_connectors[n] \in Seq(Created)
  BY DEF MapsOK
<1>2. /\ Len(output_connectors[n]) \in Nat
      /\ DOMAIN output_connectors[n] = 1 .. Len(output_connectors[n])
  BY <1>1
<1>3. \A i \in DOMAIN output_connectors[n] : output_connectors[n][i] \in Targets(n)
  BY DEF Targets, Range
<1> QED BY <1>2, <1>3 DEF Pushes

LEMMA ConcatLists ==
    ASSUME NEW s, NEW t, IsList(s), IsList(t)
    PROVE  /\ IsList(s \o t) /\ Range(s \o t) \subseteq Range(s) \cup Range(t)
           /\ HasLandmarks(s) /\ HasLandmarks(t) => HasLandmarks(s \o t)
<1> DEFINE R == Range(s) \cup Range(t)
<1>1. Range(s) \subseteq R /\ Range(t) \subseteq R
  OBVIOUS
<1>2. s \in Seq(Range(s)) /\ t \in Seq(Range(t))
  BY DEF IsList
<1> HIDE DEF R
<1>3. s \in Seq(R) /\ t \in Seq(R)
  BY <1>1, <1>2, SeqWider
<1>4. s \o t \in Seq(R)
  BY <1>3
<1>5. IsList(s \o t) /\ Range(s \o t) \subseteq R
  BY <1>4, ListFacts
<1>6. ASSUME HasLandmarks(s), HasLandmarks(t) PROVE HasLandmarks(s \o t)
  <2>1. /\ Len(s) \in Nat /\ Len(t) \in Nat
        /\ DOMAIN s = 1 .. Len(s) /\ DOMAIN t = 1 .. Len(t)
        /\ DOMAIN (s \o t) = 1 .. (Len(s) + Len(t))
        /\ \A k \in 1 .. (Len(s) + Len(t)) :
             (s \o t)[k] = IF k <= Len(s) THEN s[k] ELSE t[k - Len(s)]
    BY <1>3
  <2>2. ASSUME NEW k \in 1 .. (Len(s) + Len(t)) PROVE Len((s \o t)[k].fp) = 3
    <3>1. CASE k <= Len(s)
      BY <1>6, <2>1, <3>1 DEF HasLandmarks
    <3>2. CASE ~(k <= Len(s))
      <4>1. k - Len(s) \in 1 .. Len(t)
        BY <2>1, <3>2
      <4> QED BY <1>6, <2>1, <3>2, <4>1 DEF HasLandmarks
    <3> QED BY <3>1, <3>2
  <2> QED BY <2>1, <2>2 DEF HasLandmarks
<1> QED BY <1>5, <1>6 DEF R

LEMMA ObjsReplaced ==
    ASSUME NEW a, NEW b, NEW c, NEW d, NEW x, x = [eos |-> a, image |-> b, objs |-> c]
    PROVE  [x EXCEPT !.objs = d] = [eos |-> a, image |-> b, objs |-> d]
OBVIOUS

\* A frame that gets some faces.
LEMMA FacesFrame ==
    ASSUME NEW x, IsFrame(x), ~x.eos, NEW objs, IsList(objs)
    PROVE  LET y == [x EXCEPT !.objs = @ \o objs] IN
           /\ IsFrame(y) /\ ~y.eos /\ y.objs = x.objs \o objs /\ y.image = x.image
<1>1. /\ x = [eos |-> FALSE, image |-> x.image, objs |-> x.objs]
      /\ x.image \in Images \cup {NoImage} /\ IsList(x.objs)
  BY DEF IsFrame
<1> DEFINE y == [x EXCEPT !.objs = @ \o objs]
<1>2. y = [eos |-> FALSE, image |-> x.image, objs |-> x.objs \o objs]
  <2> DEFINE e == FALSE
             i == x.image
             o == x.objs
             more == o \o objs
  <2>1. y = [x EXCEPT !.objs = more]
    BY <1>1
  <2>2. x = [eos |-> e, image |-> i, objs |-> o]
    BY <1>1
  <2> HIDE DEF e, i, o, more
  <2>3. [x EXCEPT !.objs = more] = [eos |-> e, image |-> i, objs |-> more]
    BY <2>2, ObjsReplaced
  <2> QED BY <2>1, <2>3 DEF e, i, o, more
<1> HIDE DEF y
<1>3. ~y.eos /\ y.image = x.image /\ y.objs = x.objs \o objs
  BY <1>2
<1>4. IsList(y.objs)
  BY <1>1, <1>3, ConcatLists
<1>5. IsFrame(y)
  BY <1>1, <1>2, <1>3, <1>4 DEF IsFrame
<1> QED BY <1>3, <1>5 DEF y

\* The faces of some plain frames become more.
MoreFaces ==
    /\ frames' = [f \in DOMAIN frames |-> frames'[f]]
    /\ \A f \in DOMAIN frames :
         frames'[f] = frames[f] \/ (f \in Plain /\ IsFrame(frames'[f]) /\ ~frames'[f].eos)

LEMMA MoreFacts ==
    ASSUME FlowOK, MoreFaces
    PROVE  /\ FramesKept /\ IsList(frames') /\ Plain' = Plain
           /\ DOMAIN frames' = DOMAIN frames
           /\ \A f \in DOMAIN frames' : IsFrame(frames'[f])
<1>1. DOMAIN frames' = DOMAIN frames
  BY DEF MoreFaces
<1>2. \A f \in DOMAIN frames' : IsFrame(frames'[f])
  BY <1>1 DEF MoreFaces, FlowOK
<1>3. Plain' = Plain
  BY <1>1 DEF Plain, MoreFaces
<1>4. IsList(frames')
  <2>1. frames \in Seq(Range(frames))
    BY DEF FlowOK, IsList
  <2>2. Len(frames) \in Nat /\ DOMAIN frames = 1 .. Len(frames)
    BY <2>1
  <2>3. frames' = [f \in 1 .. Len(frames) |-> frames'[f]]
    BY <2>2 DEF MoreFaces
  <2>4. \A f \in 1 .. Len(frames) : frames'[f] \in Range(frames')
    BY <1>1, <2>2 DEF Range
  <2> QED BY <2>2, <2>3, <2>4 DEF IsList
<1>5. Plain \subseteq DOMAIN frames
  BY DEF Plain
<1>6. FramesKept
  BY <1>1, <1>3, <1>5 DEF FramesKept
<1> QED BY <1>1, <1>2, <1>3, <1>4, <1>6

\* A new frame gets the next number.
LEMMA NewFrame ==
    ASSUME FlowOK, NEW x, IsFrame(x), frames' = Append(frames, x)
    PROVE  /\ FramesKept /\ IsList(frames')
           /\ Len(frames) + 1 \in DOMAIN frames' /\ Len(frames) + 1 \notin DOMAIN frames
           /\ DOMAIN frames' = DOMAIN frames \cup {Len(frames) + 1}
           /\ frames'[Len(frames) + 1] = x
           /\ \A f \in DOMAIN frames : frames'[f] = frames[f]
           /\ \A f \in DOMAIN frames' : IsFrame(frames'[f])
<1>1. frames \in Seq(Range(frames))
  BY DEF FlowOK, IsList
<1>2. frames \in Seq(Range(frames) \cup {x})
  BY <1>1, SeqWider
<1>3. Append(frames, x) \in Seq(Range(frames) \cup {x})
  BY <1>2
<1>4. /\ Len(frames) \in Nat /\ DOMAIN frames = 1 .. Len(frames)
      /\ DOMAIN frames' = 1 .. Len(frames) + 1
      /\ frames'[Len(frames) + 1] = x
      /\ \A f \in 1 .. Len(frames) : frames'[f] = frames[f]
  BY <1>2
<1>5. IsList(frames')
  BY <1>3, ListFacts
<1>6. \A f \in DOMAIN frames' : IsFrame(frames'[f])
  BY <1>4 DEF FlowOK
<1>7. Plain' \cap DOMAIN frames = Plain
  BY <1>4 DEF Plain
<1> QED BY <1>4, <1>5, <1>6, <1>7 DEF FramesKept

-----------------------------------------------------------------------------
(* Where frames may be after a step.                                       *)

LEMMA SendingSet ==
    ASSUME FlowOK, FramesKept, SameGraph, NEW t \in Threads, NEW s,
           sending' = [sending EXCEPT ![t] = s],
           \A n \in ModuleNames :
             /\ t = <<n, "loop">> => s \in Seq([frame : DOMAIN frames', to : Targets(n)'])
             /\ t = <<n, "response">> => s \in Seq([frame : Plain', to : Targets(n)'])
    PROVE  SendingOK'
<1>1. DOMAIN sending = Threads
  BY DEF FlowOK, SendingOK
<1>2. DOMAIN sending' = Threads /\ \A u \in Threads : sending'[u] = IF u = t THEN s ELSE sending[u]
  BY <1>1
<1>3. ASSUME NEW n \in ModuleNames
      PROVE  /\ sending'[<<n, "loop">>] \in Seq([frame : DOMAIN frames', to : Targets(n)'])
             /\ sending'[<<n, "response">>] \in Seq([frame : Plain', to : Targets(n)'])
  <2>1. /\ sending[<<n, "loop">>] \in Seq([frame : DOMAIN frames', to : Targets(n)'])
        /\ sending[<<n, "response">>] \in Seq([frame : Plain', to : Targets(n)'])
    BY Wider
  <2>2. <<n, "loop">> \in Threads /\ <<n, "response">> \in Threads
    BY DEF Threads
  <2> QED BY <1>2, <2>1, <2>2
<1> QED BY <1>2, <1>3 DEF SendingOK

LEMMA SendingKept ==
    ASSUME FlowOK, FramesKept, SameGraph, UNCHANGED sending
    PROVE  SendingOK'
<1>1. DOMAIN sending' = Threads
  BY DEF FlowOK, SendingOK
<1> QED BY <1>1, Wider DEF SendingOK

LEMMA HeldKept ==
    ASSUME FlowOK, FramesKept, SameGraph, UNCHANGED <<batch_array, requests>>,
           late' \subseteq late
    PROVE  HeldOK'
BY Wider DEF HeldOK

\* Nothing moves.
LEMMA FlowSame ==
    ASSUME FlowOK, SameGraph, UNCHANGED <<stream, frames, flowVars>>,
           main' = main \/ main' \notin {"start", "run"}
    PROVE  FlowOK'
<1>1. UNCHANGED <<queue, sending, batch_array, requests, late>>
  BY DEF flowVars
<1>2. FramesKept /\ Plain' = Plain
  BY SameFrames
<1>3. SendingOK' /\ HeldOK'
  BY <1>1, <1>2, SendingKept, HeldKept
<1> QED BY <1>1, <1>2, <1>3 DEF FlowOK

LEMMA FlowMainRun ==
    ASSUME GraphIInv, FlowOK, MainRun
    PROVE  FlowOK'
<1>1. /\ SameGraph /\ UNCHANGED frames /\ main = "start" /\ main' = "run"
      /\ UNCHANGED <<queue, sending, batch_array, requests, late>>
      /\ stream' = Decoded(conf.path)
  BY DEF MainRun, graphVars, SameGraph, flowVars
<1>2. FramesKept /\ Plain' = Plain
  BY <1>1, SameFrames
<1>3. SendingOK' /\ HeldOK'
  BY <1>1, <1>2, SendingKept, HeldKept
<1>4. stream' \in Seq(Images \cup {NoImage, Moved})
  BY <1>1, DecodedFacts DEF GraphIInv, MapsOK
<1> QED BY <1>1, <1>2, <1>3, <1>4 DEF FlowOK

\* Source gives on a new frame.
LEMMA FlowSource ==
    ASSUME GraphIInv, MainOK, FlowOK, NEW x, IsFrame(x), SameGraph,
           frames' = Append(frames, x),
           sending' = [sending EXCEPT ![Loop("source")] = Pushes("source", Len(frames) + 1)],
           UNCHANGED <<queue, batch_array, requests, late>>,
           main = "run", stream' \in Seq(Images \cup {NoImage, Moved}),
           (main' = "run" /\ ~x.eos) \/ main' = "eos"
    PROVE  FlowOK'
<1>1. /\ FramesKept /\ IsList(frames') /\ Len(frames) + 1 \in DOMAIN frames'
      /\ \A f \in DOMAIN frames' : IsFrame(frames'[f])
  BY NewFrame
<1>2. SendingOK'
  <2>1. "source" \in Created /\ MapsOK
    BY SourceCreated DEF GraphIInv
  <2>2. Pushes("source", Len(frames) + 1)
        \in Seq([frame : DOMAIN frames', to : Targets("source")])
    BY <1>1, <2>1, PushesType
  <2>3. Targets("source")' = Targets("source")
    BY SameFacts
  <2>4. Loop("source") \in Threads
    BY FramePathAssumption DEF Threads, Loop, FramePathAssumption
  <2> DEFINE s == Pushes("source", Len(frames) + 1)
  <2>5. /\ sending' = [sending EXCEPT ![Loop("source")] = s]
        /\ s \in Seq([frame : DOMAIN frames', to : Targets("source")'])
    BY <2>2, <2>3
  <2> HIDE DEF s
  <2>6. \A n \in ModuleNames :
          /\ Loop("source") = <<n, "loop">> =>
               s \in Seq([frame : DOMAIN frames', to : Targets(n)'])
          /\ Loop("source") = <<n, "response">> =>
               s \in Seq([frame : Plain', to : Targets(n)'])
    BY <2>5 DEF Loop
  <2> QED BY <1>1, <2>4, <2>5, <2>6, SendingSet
<1>3. HeldOK'
  BY <1>1, HeldKept
<1>4. queue' \in [ModuleNames -> Seq(DOMAIN frames')]
  BY <1>1, Wider
<1>5. main' = "run" => Plain' = DOMAIN frames'
  <2>1. SUFFICES ASSUME main' = "run" PROVE Plain' = DOMAIN frames'
    OBVIOUS
  <2>2. Plain = DOMAIN frames /\ ~x.eos
    BY <2>1 DEF FlowOK
  <2>3. /\ DOMAIN frames' = DOMAIN frames \cup {Len(frames) + 1}
        /\ frames'[Len(frames) + 1] = x
        /\ \A f \in DOMAIN frames : frames'[f] = frames[f]
    BY NewFrame
  <2>4. \A f \in DOMAIN frames : ~frames[f].eos
    BY <2>2 DEF Plain
  <2>5. \A f \in DOMAIN frames' : ~frames'[f].eos
    BY <2>2, <2>3, <2>4
  <2> QED BY <2>5 DEF Plain
<1> QED BY <1>1, <1>2, <1>3, <1>4, <1>5 DEF FlowOK

\* A module gives on what it has taken.
LEMMA PassFacts ==
    ASSUME GraphIInv, StartOK, MainOK, FlowOK, NEW n \in ModuleNames,
           Takes(n), TakeAndPass(n), FramesKept, SameGraph
    PROVE  SendingOK' /\ queue' \in [ModuleNames -> Seq(DOMAIN frames')]
<1>1. n \in Created /\ queue[n] # << >> /\ MapsOK
  BY BusyFacts DEF Takes, GraphIInv
<1>2. queue \in [ModuleNames -> Seq(DOMAIN frames')]
  BY Wider
<1>3. Taken(n) \in DOMAIN frames'
  BY <1>1, <1>2 DEF Taken
<1>4. queue' \in [ModuleNames -> Seq(DOMAIN frames')]
  <2>1. Tail(queue[n]) \in Seq(DOMAIN frames')
    BY <1>1, <1>2
  <2> QED BY <1>2, <2>1 DEF TakeAndPass
<1> DEFINE s == Pushes(n, Taken(n))
<1>5. /\ sending' = [sending EXCEPT ![Loop(n)] = s]
      /\ s \in Seq([frame : DOMAIN frames', to : Targets(n)'])
  <2>1. s \in Seq([frame : DOMAIN frames', to : Targets(n)])
    BY <1>1, <1>3, PushesType
  <2>2. Targets(n)' = Targets(n)
    BY SameFacts
  <2> QED BY <2>1, <2>2 DEF TakeAndPass
<1> HIDE DEF s
<1>6. Loop(n) \in Threads
  BY DEF Threads, Loop
<1>7. \A m \in ModuleNames :
        /\ Loop(n) = <<m, "loop">> =>
             s \in Seq([frame : DOMAIN frames', to : Targets(m)'])
        /\ Loop(n) = <<m, "response">> =>
             s \in Seq([frame : Plain', to : Targets(m)'])
  BY <1>5 DEF Loop
<1> QED BY <1>4, <1>5, <1>6, <1>7, SendingSet

LEMMA HeadType ==
    ASSUME NEW S, NEW s \in Seq(S), s # << >>
    PROVE  Head(s) \in S /\ Tail(s) \in Seq(S)
OBVIOUS

LEMMA FlowPass ==
    ASSUME GraphIInv, StartOK, MainOK, FlowOK, NEW n \in ModuleNames,
           Takes(n), TakeAndPass(n), SameGraph,
           UNCHANGED <<main, stream, frames, batch_array, requests, late>>
    PROVE  FlowOK'
<1>1. FramesKept /\ Plain' = Plain
  BY SameFrames
<1>2. SendingOK' /\ queue' \in [ModuleNames -> Seq(DOMAIN frames')]
  BY <1>1, PassFacts
<1>3. HeldOK'
  BY <1>1, HeldKept
<1> QED BY <1>1, <1>2, <1>3 DEF FlowOK

LEMMA DetectFacts ==
    ASSUME FlowOK, NEW n \in ModuleNames, Detect(n)
    PROVE  MoreFaces
<1> DEFINE f == Taken(n)
           found == [k \in DOMAIN frames[f].image.faces |->
                       DetectedFace(frames[f].image.faces[k], frames[f].image)]
<1>1. /\ Takes(n) /\ ~frames[f].eos /\ TakeAndPass(n) /\ SameGraph
      /\ frames' = [frames EXCEPT ![f].objs = @ \o found]
      /\ UNCHANGED <<main, stream, batch_array, requests, late>>
  BY DEF Detect, graphVars, SameGraph
<1>2. f \in DOMAIN frames
  <2>1. queue[n] \in Seq(DOMAIN frames) /\ queue[n] # << >>
    BY <1>1 DEF FlowOK, Takes
  <2> QED BY <2>1 DEF Taken
<1>3. IsFrame(frames[f])
  BY <1>2 DEF FlowOK
<1>4. IsList(found)
  <2>1. frames[f].image \in Images
    <3>1. frames[f].image # NoImage
      BY <1>1 DEF Detect, Imageless
    <3> QED BY <1>1, <1>3, <3>1 DEF IsFrame
  <2>2. frames[f].image.faces \in Seq(Range(frames[f].image.faces))
    BY <2>1, ImageFacts DEF IsImage
  <2> DEFINE fs == frames[f].image.faces
             T == {DetectedFace(fs[k], frames[f].image) : k \in DOMAIN fs}
  <2>3. Len(fs) \in Nat /\ DOMAIN fs = 1 .. Len(fs)
    BY <2>2
  <2>4. \A k \in DOMAIN fs : DetectedFace(fs[k], frames[f].image) \in T
    OBVIOUS
  <2>5. found \in Seq(T)
    <3> HIDE DEF T, fs
    <3>1. found = [k \in 1 .. Len(fs) |-> DetectedFace(fs[k], frames[f].image)]
      BY <2>3 DEF fs
    <3> QED BY <2>3, <2>4, <3>1
  <2> HIDE DEF T
  <2> QED BY <2>5, ListFacts
<1> HIDE DEF found
<1>5. MoreFaces
  <2>1. frames' = [frames EXCEPT ![f] = [frames[f] EXCEPT !.objs = @ \o found]]
    BY <1>1, <1>2
  <2>2. /\ IsFrame([frames[f] EXCEPT !.objs = @ \o found])
        /\ ~([frames[f] EXCEPT !.objs = @ \o found]).eos
    BY <1>1, <1>3, <1>4, FacesFrame
  <2> DEFINE y == [frames[f] EXCEPT !.objs = @ \o found]
  <2>3. frames' = [frames EXCEPT ![f] = y] /\ IsFrame(y) /\ ~y.eos
    BY <2>1, <2>2
  <2> HIDE DEF y
  <2>4. f \in Plain
    BY <1>1, <1>2 DEF Plain
  <2>5. frames = [x \in DOMAIN frames |-> frames[x]]
    <3>1. frames \in Seq(Range(frames))
      BY DEF FlowOK, IsList
    <3> QED BY <3>1
  <2> QED BY <2>3, <2>4, <2>5 DEF MoreFaces
<1> QED BY <1>5

LEMMA FlowDetect ==
    ASSUME GraphIInv, StartOK, MainOK, FlowOK, NEW n \in ModuleNames, Detect(n)
    PROVE  FlowOK'
<1>1. /\ Takes(n) /\ TakeAndPass(n) /\ SameGraph
      /\ UNCHANGED <<main, stream, batch_array, requests, late>>
  BY DEF Detect, graphVars, SameGraph
<1>2. FramesKept /\ IsList(frames') /\ Plain' = Plain /\ DOMAIN frames' = DOMAIN frames
      /\ \A x \in DOMAIN frames' : IsFrame(frames'[x])
  BY DetectFacts, MoreFacts
<1>3. SendingOK' /\ queue' \in [ModuleNames -> Seq(DOMAIN frames')]
  BY <1>1, <1>2, PassFacts
<1>4. HeldOK'
  BY <1>1, <1>2, HeldKept
<1> QED BY <1>1, <1>2, <1>3, <1>4 DEF FlowOK

LEMMA FlowCollect ==
    ASSUME GraphIInv, StartOK, MainOK, FlowOK, NEW n \in ModuleNames, Collect(n)
    PROVE  FlowOK'
<1> DEFINE batch == Append(batch_array[n], Taken(n))
<1>1. /\ Takes(n) /\ ~frames[Taken(n)].eos /\ SameGraph
      /\ queue' = [queue EXCEPT ![n] = Tail(@)]
      /\ \/ /\ Len(batch) = Batch
            /\ requests' = [requests EXCEPT ![n] = Append(@, batch)]
            /\ batch_array' = [batch_array EXCEPT ![n] = << >>]
         \/ /\ batch_array' = [batch_array EXCEPT ![n] = batch]
            /\ UNCHANGED requests
      /\ UNCHANGED <<main, stream, frames, sending, late>>
  BY DEF Collect, graphVars, SameGraph
<1>2. FramesKept /\ Plain' = Plain
  BY <1>1, SameFrames
<1>3. queue \in [ModuleNames -> Seq(DOMAIN frames)] /\ queue[n] # << >>
  BY <1>1 DEF FlowOK, Takes
<1>4. Taken(n) \in Plain
  <2>1. Taken(n) \in DOMAIN frames
    BY <1>3 DEF Taken
  <2> QED BY <1>1, <2>1 DEF Plain
<1>5. queue' \in [ModuleNames -> Seq(DOMAIN frames')]
  <2>1. Tail(queue[n]) \in Seq(DOMAIN frames)
    BY <1>3
  <2> QED BY <1>1, <1>3, <2>1
<1>6. SendingOK'
  BY <1>1, <1>2, SendingKept
<1>7. /\ batch_array \in [ModuleNames -> Seq(Plain)]
      /\ requests \in [ModuleNames -> Seq({b \in Seq(Plain) : Len(b) = Batch})]
      /\ \A m \in ModuleNames : requests[m] # << >> => m \in Created
      /\ \A x \in late : x.frame \in Plain /\ IsList(x.objs)
  BY DEF FlowOK, HeldOK
<1>8. batch \in Seq(Plain)
  BY <1>4, <1>7
<1>9. n \in Created /\ Created' = Created
  BY <1>1, BusyFacts, SameFacts
<1> HIDE DEF batch
<1> DEFINE B == {b \in Seq(Plain) : Len(b) = Batch}
<1>10. batch_array' \in [ModuleNames -> Seq(Plain)]
  <2>1. << >> \in Seq(Plain) /\ batch_array \in [ModuleNames -> Seq(Plain)]
    BY <1>7
  <2>2. CASE batch_array' = [batch_array EXCEPT ![n] = << >>]
    BY <2>1, <2>2
  <2>3. CASE batch_array' = [batch_array EXCEPT ![n] = batch]
    BY <1>8, <2>1, <2>3
  <2> QED BY <1>1, <2>2, <2>3
<1>11. requests' \in [ModuleNames -> Seq(B)]
  <2>1. CASE UNCHANGED requests
    BY <1>7, <2>1
  <2>2. CASE Len(batch) = Batch /\ requests' = [requests EXCEPT ![n] = Append(@, batch)]
    <3>1. batch \in B
      BY <1>8, <2>2
    <3>2. requests \in [ModuleNames -> Seq(B)]
      BY <1>7
    <3> HIDE DEF B
    <3>3. Append(requests[n], batch) \in Seq(B)
      BY <3>1, <3>2
    <3> QED BY <2>2, <3>2, <3>3
  <2> QED BY <1>1, <2>1, <2>2
<1>12. \A m \in ModuleNames : requests'[m] # << >> => m \in Created'
  BY <1>1, <1>7, <1>9
<1>13. HeldOK'
  BY <1>1, <1>2, <1>7, <1>10, <1>11, <1>12 DEF HeldOK
<1> QED BY <1>1, <1>2, <1>5, <1>6, <1>13 DEF FlowOK

LEMMA FlowTransmit ==
    ASSUME GraphIInv, FlowOK, NEW t \in Threads, Transmit(t)
    PROVE  FlowOK'
<1> DEFINE head == Head(sending[t])
<1>1. /\ sending[t] # << >> /\ SameGraph
      /\ \/ queue' = [queue EXCEPT ![head.to] = Append(@, head.frame)]
         \/ UNCHANGED queue
      /\ sending' = [sending EXCEPT ![t] = Tail(@)]
      /\ UNCHANGED <<main, stream, frames, batch_array, requests, late>>
  BY DEF Transmit, Transmitted, graphVars, SameGraph
<1>2. FramesKept /\ Plain' = Plain
  BY <1>1, SameFrames
<1>3. HeldOK'
  BY <1>1, <1>2, HeldKept
<1>4. PICK n \in ModuleNames : t = <<n, "loop">> \/ t = <<n, "response">>
  BY DEF Threads
<1>5. /\ DOMAIN sending = Threads
      /\ t = <<n, "loop">> => sending[t] \in Seq([frame : DOMAIN frames, to : Targets(n)])
      /\ t = <<n, "response">> => sending[t] \in Seq([frame : Plain, to : Targets(n)])
  BY <1>4 DEF FlowOK, SendingOK
<1>6. Plain \subseteq DOMAIN frames
  BY DEF Plain
<1>7. head.frame \in DOMAIN frames /\ head.to \in Targets(n)
  <2>1. CASE t = <<n, "loop">>
    <3>1. head \in [frame : DOMAIN frames, to : Targets(n)]
      BY <1>1, <1>5, <2>1, HeadType
    <3> HIDE DEF head
    <3> QED BY <3>1
  <2>2. CASE t = <<n, "response">>
    <3>1. head \in [frame : Plain, to : Targets(n)]
      BY <1>1, <1>5, <2>2, HeadType
    <3> HIDE DEF head
    <3> QED BY <1>6, <3>1
  <2> QED BY <1>4, <2>1, <2>2
<1> HIDE DEF head
<1>8. queue' \in [ModuleNames -> Seq(DOMAIN frames')]
  <2>1. queue \in [ModuleNames -> Seq(DOMAIN frames)]
    BY DEF FlowOK
  <2>2. \A m \in ModuleNames : Append(queue[m], head.frame) \in Seq(DOMAIN frames)
    BY <1>7, <2>1
  <2> QED BY <1>1, <2>1, <2>2, ZenonT(60)
<1>9. Targets(n)' = Targets(n)
  BY <1>1, SameFacts
<1>10. \A m \in ModuleNames :
         /\ t = <<m, "loop">> =>
              Tail(sending[t]) \in Seq([frame : DOMAIN frames', to : Targets(m)'])
         /\ t = <<m, "response">> =>
              Tail(sending[t]) \in Seq([frame : Plain', to : Targets(m)'])
  <2>1. CASE t = <<n, "loop">>
    <3>1. Tail(sending[t]) \in Seq([frame : DOMAIN frames, to : Targets(n)])
      BY <1>1, <1>5, <2>1
    <3> QED BY <1>1, <1>9, <2>1, <3>1
  <2>2. CASE t = <<n, "response">>
    <3>1. Tail(sending[t]) \in Seq([frame : Plain, to : Targets(n)])
      BY <1>1, <1>5, <2>2
    <3> QED BY <1>2, <1>9, <2>2, <3>1
  <2> QED BY <1>4, <2>1, <2>2
<1>11. SendingOK'
  <2>1. sending' = [sending EXCEPT ![t] = Tail(sending[t])]
    BY <1>1
  <2> DEFINE s == Tail(sending[t])
  <2> HIDE DEF s
  <2>2. sending' = [sending EXCEPT ![t] = s]
    BY <2>1 DEF s
  <2>3. \A m \in ModuleNames :
          /\ t = <<m, "loop">> => s \in Seq([frame : DOMAIN frames', to : Targets(m)'])
          /\ t = <<m, "response">> => s \in Seq([frame : Plain', to : Targets(m)'])
    BY <1>10 DEF s
  <2> QED BY <1>1, <1>2, <2>2, <2>3, SendingSet
<1> QED BY <1>1, <1>2, <1>3, <1>8, <1>11, SMTT(30) DEF FlowOK

LEMMA FlowStop ==
    ASSUME FlowOK, ObserverStop
    PROVE  FlowOK'
<1>1. /\ SameGraph /\ queue' = [n \in ModuleNames |-> << >>]
      /\ sending' = [t \in Threads |->
                       IF t = Loop("source") THEN sending[t] ELSE << >>]
      /\ UNCHANGED <<main, stream, frames, batch_array, requests, late>>
  BY DEF ObserverStop, SameGraph
<1>2. FramesKept /\ Plain' = Plain
  BY <1>1, SameFrames
<1>3. HeldOK'
  BY <1>1, <1>2, HeldKept
<1>4. SendingOK'
  <2>1. DOMAIN sending' = Threads
    BY <1>1
  <2>2. ASSUME NEW n \in ModuleNames
        PROVE  /\ sending'[<<n, "loop">>] \in Seq([frame : DOMAIN frames', to : Targets(n)'])
               /\ sending'[<<n, "response">>] \in Seq([frame : Plain', to : Targets(n)'])
    <3>1. <<n, "loop">> \in Threads /\ <<n, "response">> \in Threads
      BY DEF Threads
    <3>2. /\ sending'[<<n, "loop">>] = sending[<<n, "loop">>]
             \/ sending'[<<n, "loop">>] = << >>
          /\ sending'[<<n, "response">>] = << >>
      BY <1>1, <3>1 DEF Loop
    <3>3. sending[<<n, "loop">>] \in Seq([frame : DOMAIN frames', to : Targets(n)'])
      BY <1>1, <1>2, Wider
    <3>4. /\ << >> \in Seq([frame : DOMAIN frames', to : Targets(n)'])
          /\ << >> \in Seq([frame : Plain', to : Targets(n)'])
      OBVIOUS
    <3>5. sending'[<<n, "response">>] \in Seq([frame : Plain', to : Targets(n)'])
      BY <3>2, <3>4
    <3>6. sending'[<<n, "loop">>] \in Seq([frame : DOMAIN frames', to : Targets(n)'])
      BY <3>2, <3>3, <3>4
    <3> QED BY <3>5, <3>6
  <2> QED BY <2>1, <2>2 DEF SendingOK
<1> QED BY <1>1, <1>2, <1>3, <1>4 DEF FlowOK

LEMMA FlattenLists ==
    ASSUME NEW m \in Nat, NEW v, v = [k \in 1 .. m |-> v[k]],
           \A k \in 1 .. m : IsList(v[k]) /\ HasLandmarks(v[k])
    PROVE  IsList(FlattenSeq(v)) /\ HasLandmarks(FlattenSeq(v))
<1> DEFINE T == {o \in UNION {Range(v[k]) : k \in 1 .. m} : Len(o.fp) = 3}
<1>1. ASSUME NEW k \in 1 .. m PROVE v[k] \in Seq(T)
  <2>1. v[k] \in Seq(Range(v[k]))
    BY DEF IsList
  <2>2. \A j \in DOMAIN v[k] : v[k][j] \in T
    BY DEF Range, HasLandmarks
  <2> HIDE DEF T
  <2> QED BY <2>1, <2>2
<1>2. \A o \in T : Len(o.fp) = 3
  OBVIOUS
<1> HIDE DEF T
<1>3. v \in Seq(Seq(T))
  <2> DEFINE S == Seq(T)
  <2>1. \A k \in 1 .. m : v[k] \in S
    BY <1>1
  <2> HIDE DEF S
  <2>2. v \in [1 .. m -> S]
    BY <2>1
  <2>3. v \in Seq(S)
    BY <2>2
  <2> QED BY <2>3 DEF S
<1>4. FlattenSeq(v) \in Seq(T)
  BY <1>3, FlattenType
<1>5. \A k \in DOMAIN FlattenSeq(v) : FlattenSeq(v)[k] \in T
  BY <1>4
<1> QED BY <1>2, <1>4, <1>5, ListFacts DEF HasLandmarks

\* What a response adds are faces with landmarks.
LEMMA RespondFacts ==
    ASSUME GraphIInv, FlowOK, NEW n \in ModuleNames, Respond(n)
    PROVE  /\ MoreFaces
           /\ \A f \in Plain :
                HasLandmarks(frames[f].objs) => HasLandmarks(frames'[f].objs)
           /\ \A x \in late' : x \in late \/
                (/\ x.frame \in Plain /\ IsList(x.objs) /\ HasLandmarks(x.objs)
                 /\ x.null => MayFail)
           /\ sending' = [sending EXCEPT ![<<n, "response">>] = sending'[<<n, "response">>]]
           /\ sending'[<<n, "response">>] \in Seq([frame : Plain, to : Targets(n)])
<1> DEFINE batch == Head(requests[n])
<1>13. PICK nulls \in NullData(batch) :
           \E result :
             /\ \A k \in 1 .. Batch :
                  result[k] \in IF k \in nulls THEN {Nothing} ELSE Outcomes(batch[k])
             /\ \E behind \in SUBSET {k \in 1 .. Batch :
                                        \E j \in 1 .. k - 1 : result[j].thrown} :
                  /\ late' = late \cup
                       {[frame |-> batch[k], at |-> k, objs |-> result[k].objs,
                         null |-> k \in nulls] : k \in behind}
                  /\ frames' = AllWithFaces(batch, result, behind)
  BY ZenonT(60) DEF Respond
<1>11. PICK result :
             /\ \A k \in 1 .. Batch :
                  result[k] \in IF k \in nulls THEN {Nothing} ELSE Outcomes(batch[k])
             /\ \E behind \in SUBSET {k \in 1 .. Batch :
                                        \E j \in 1 .. k - 1 : result[j].thrown} :
                  /\ late' = late \cup
                       {[frame |-> batch[k], at |-> k, objs |-> result[k].objs,
                         null |-> k \in nulls] : k \in behind}
                  /\ frames' = AllWithFaces(batch, result, behind)
  BY <1>13
<1>12. PICK behind \in SUBSET {k \in 1 .. Batch : \E j \in 1 .. k - 1 : result[j].thrown} :
             /\ late' = late \cup
                  {[frame |-> batch[k], at |-> k, objs |-> result[k].objs,
                    null |-> k \in nulls] : k \in behind}
             /\ frames' = AllWithFaces(batch, result, behind)
  BY <1>11
<1>1. /\ nulls \in NullData(batch) /\ behind \in SUBSET (1 .. Batch)
      /\ \A k \in 1 .. Batch : result[k] = Nothing \/ result[k] \in Outcomes(batch[k])
      /\ late' = late \cup
           {[frame |-> batch[k], at |-> k, objs |-> result[k].objs,
             null |-> k \in nulls] : k \in behind}
      /\ frames' = AllWithFaces(batch, result, behind)
  <2>1. \A k \in 1 .. Batch : result[k] = Nothing \/ result[k] \in Outcomes(batch[k])
    BY <1>11
  <2>2. behind \in SUBSET (1 .. Batch)
    BY <1>12
  <2> HIDE DEF batch
  <2> QED BY <1>12, <2>1, <2>2
<1>2. /\ requests[n] # << >>
      /\ sending' = [sending EXCEPT ![<<n, "response">>] =
                       FlattenSeq([k \in 1 .. Batch |-> Pushes(n, batch[k])])]
  BY DEF Respond
<1>3. batch \in Seq(Plain) /\ Len(batch) = Batch /\ n \in Created
  <2> DEFINE B == {b \in Seq(Plain) : Len(b) = Batch}
  <2>1. requests[n] \in Seq(B) /\ n \in Created
    BY <1>2 DEF FlowOK, HeldOK
  <2> HIDE DEF B
  <2>2. batch \in B
    BY <1>2, <2>1, HeadType
  <2> HIDE DEF batch
  <2> QED BY <2>1, <2>2 DEF B
<1> HIDE DEF batch
<1>4. Batch \in Nat /\ \A k \in 1 .. Batch : batch[k] \in Plain
  BY <1>3, FramePathAssumption DEF FramePathAssumption
<1>5. \A k \in 1 .. Batch : IsList(result[k].objs) /\ HasLandmarks(result[k].objs)
  <2>1. IsList(Nothing.objs) /\ HasLandmarks(Nothing.objs)
    BY DEF Nothing, IsList, HasLandmarks
  <2> QED BY <1>1, <2>1, OutcomeFacts
<1>6. \A x \in late' : x \in late \/
        (/\ x.frame \in Plain /\ IsList(x.objs) /\ HasLandmarks(x.objs)
         /\ x.null => MayFail)
  <2>1. nulls # {} => MayFail
    BY <1>1 DEF NullData
  <2>2. SUFFICES ASSUME NEW x \in late', x \notin late
                 PROVE  /\ x.frame \in Plain /\ IsList(x.objs) /\ HasLandmarks(x.objs)
                        /\ x.null => MayFail
    OBVIOUS
  <2>3. PICK k \in behind : x = [frame |-> batch[k], at |-> k, objs |-> result[k].objs,
                                 null |-> k \in nulls]
    BY <1>1, <2>2
  <2>4. k \in 1 .. Batch
    OBVIOUS
  <2>5. x.frame = batch[k] /\ x.objs = result[k].objs /\ (x.null <=> k \in nulls)
    BY <2>3
  <2> QED BY <1>4, <1>5, <2>1, <2>4, <2>5
<1>7. ASSUME NEW f \in Plain
      PROVE  /\ frames'[f] = frames[f] \/ (IsFrame(frames'[f]) /\ ~frames'[f].eos)
             /\ HasLandmarks(frames[f].objs) => HasLandmarks(frames'[f].objs)
  <2> DEFINE v == [k \in 1 .. Batch |->
                     IF batch[k] = f /\ k \notin behind THEN result[k].objs
                                                       ELSE << >>]
             more == FlattenSeq(v)
  <2>1. f \in DOMAIN frames /\ ~frames[f].eos /\ IsFrame(frames[f])
    BY DEF Plain, FlowOK
  <2>2. CASE f \notin Range(batch)
    BY <1>1, <2>1, <2>2 DEF AllWithFaces
  <2>3. CASE f \in Range(batch)
    <3>1. frames'[f] = [frames[f] EXCEPT !.objs = @ \o more]
      BY <1>1, <2>1, <2>3 DEF AllWithFaces
    <3>2. IsList(<< >>) /\ HasLandmarks(<< >>)
      BY DEF IsList, HasLandmarks
    <3>3. \A k \in 1 .. Batch : IsList(v[k]) /\ HasLandmarks(v[k])
      BY <1>5, <3>2
    <3>4. v = [k \in 1 .. Batch |-> v[k]]
      OBVIOUS
    <3>5. IsList(more) /\ HasLandmarks(more)
      <4> HIDE DEF v
      <4> QED BY <1>4, <3>3, <3>4, FlattenLists
    <3> HIDE DEF v, more
    <3>6. /\ IsFrame(frames'[f]) /\ ~frames'[f].eos
          /\ frames'[f].objs = frames[f].objs \o more
      <4> DEFINE x == frames[f]
      <4>1. IsFrame(x) /\ ~x.eos /\ frames'[f] = [x EXCEPT !.objs = @ \o more]
        BY <2>1, <3>1
      <4> HIDE DEF x
      <4>2. LET y == [x EXCEPT !.objs = @ \o more] IN
            IsFrame(y) /\ ~y.eos /\ y.objs = x.objs \o more
        BY <3>5, <4>1, FacesFrame
      <4>3. /\ IsFrame(frames'[f]) /\ ~frames'[f].eos
            /\ frames'[f].objs = x.objs \o more
        BY <4>1, <4>2
      <4> QED BY <4>3 DEF x
    <3>7. IsList(frames[f].objs)
      BY <2>1 DEF IsFrame
    <3> QED BY <3>5, <3>6, <3>7, ConcatLists
  <2> QED BY <2>2, <2>3
<1>8. MoreFaces
  <2>1. frames' = [f \in DOMAIN frames |-> frames'[f]]
    BY <1>1 DEF AllWithFaces
  <2>2. ASSUME NEW f \in DOMAIN frames, f \notin Plain
        PROVE  frames'[f] = frames[f]
    <3>1. f \notin Range(batch)
      BY <1>3, <2>2, ListFacts
    <3> QED BY <1>1, <3>1 DEF AllWithFaces
  <2> QED BY <1>7, <2>1, <2>2 DEF MoreFaces
<1>9. FlattenSeq([k \in 1 .. Batch |-> Pushes(n, batch[k])])
      \in Seq([frame : Plain, to : Targets(n)])
  <2> DEFINE T == [frame : Plain, to : Targets(n)]
             v == [k \in 1 .. Batch |-> Pushes(n, batch[k])]
  <2>1. \A k \in 1 .. Batch : v[k] \in Seq(T)
    BY <1>3, <1>4, PushesType DEF GraphIInv
  <2>2. v = [k \in 1 .. Batch |-> v[k]]
    OBVIOUS
  <2> HIDE DEF T, v
  <2>3. v \in Seq(Seq(T))
    BY <1>4, <2>1, <2>2
  <2>4. FlattenSeq(v) \in Seq(T)
    BY <2>3, FlattenType
  <2> QED BY <2>4 DEF T, v
<1>10. /\ sending' = [sending EXCEPT ![<<n, "response">>] = sending'[<<n, "response">>]]
       /\ sending'[<<n, "response">>] \in Seq([frame : Plain, to : Targets(n)])
  <2> DEFINE s == FlattenSeq([k \in 1 .. Batch |-> Pushes(n, batch[k])])
  <2>1. sending' = [sending EXCEPT ![<<n, "response">>] = s]
    BY <1>2 DEF batch
  <2>2. DOMAIN sending = Threads /\ <<n, "response">> \in Threads
    BY DEF FlowOK, SendingOK, Threads
  <2> HIDE DEF s
  <2>3. sending'[<<n, "response">>] = s
    BY <2>1, <2>2
  <2> QED BY <1>9, <2>1, <2>3 DEF s
<1> QED BY <1>6, <1>7, <1>8, <1>10

LEMMA FlowRespond ==
    ASSUME GraphIInv, FlowOK, NEW n \in ModuleNames, Respond(n)
    PROVE  FlowOK'
<1>1. /\ SameGraph /\ requests' = [requests EXCEPT ![n] = Tail(@)]
      /\ requests[n] # << >>
      /\ UNCHANGED <<main, stream, queue, batch_array>>
  BY DEF Respond, graphVars, SameGraph
<1>2. /\ FramesKept /\ IsList(frames') /\ Plain' = Plain /\ DOMAIN frames' = DOMAIN frames
      /\ \A x \in DOMAIN frames' : IsFrame(frames'[x])
  BY RespondFacts, MoreFacts
<1>3. SendingOK'
  <2> DEFINE s == sending'[<<n, "response">>]
  <2>1. /\ sending' = [sending EXCEPT ![<<n, "response">>] = s]
        /\ s \in Seq([frame : Plain, to : Targets(n)])
    BY RespondFacts
  <2> HIDE DEF s
  <2>2. Targets(n)' = Targets(n)
    BY <1>1, SameFacts
  <2>3. \A m \in ModuleNames :
          /\ <<n, "response">> = <<m, "loop">> =>
               s \in Seq([frame : DOMAIN frames', to : Targets(m)'])
          /\ <<n, "response">> = <<m, "response">> =>
               s \in Seq([frame : Plain', to : Targets(m)'])
    BY <1>2, <2>1, <2>2
  <2>4. <<n, "response">> \in Threads
    BY DEF Threads
  <2> QED BY <1>1, <1>2, <2>1, <2>3, <2>4, SendingSet
<1>4. HeldOK'
  <2>1. /\ batch_array \in [ModuleNames -> Seq(Plain)]
        /\ requests \in [ModuleNames -> Seq({b \in Seq(Plain) : Len(b) = Batch})]
        /\ \A m \in ModuleNames : requests[m] # << >> => m \in Created
        /\ \A x \in late : x.frame \in Plain /\ IsList(x.objs)
    BY DEF FlowOK, HeldOK
  <2>2. requests' \in [ModuleNames -> Seq({b \in Seq(Plain) : Len(b) = Batch})]
    <3> DEFINE B == {b \in Seq(Plain) : Len(b) = Batch}
    <3>1. requests \in [ModuleNames -> Seq(B)]
      BY <2>1
    <3> HIDE DEF B
    <3>2. Tail(requests[n]) \in Seq(B)
      BY <1>1, <3>1, HeadType
    <3>3. requests' \in [ModuleNames -> Seq(B)]
      BY <1>1, <3>1, <3>2
    <3> QED BY <3>3 DEF B
  <2>3. \A m \in ModuleNames : requests'[m] # << >> => m \in Created'
    <3>1. Created' = Created
      BY <1>1, SameFacts
    <3> QED BY <1>1, <2>1, <3>1
  <2>4. \A x \in late' : x.frame \in Plain' /\ IsList(x.objs)
    BY <1>2, <2>1, RespondFacts
  <2> QED BY <1>1, <1>2, <2>1, <2>2, <2>3, <2>4 DEF HeldOK
<1>5. queue' \in [ModuleNames -> Seq(DOMAIN frames')]
  BY <1>1, <1>2 DEF FlowOK
<1> QED BY <1>1, <1>2, <1>3, <1>4, <1>5 DEF FlowOK

\* A task that was not waited for.
LEMMA FinishFacts ==
    ASSUME FlowOK, Finish
    PROVE  /\ MoreFaces /\ late' \subseteq late
           /\ \A f \in Plain :
                (/\ HasLandmarks(frames[f].objs)
                 /\ \A x \in late : HasLandmarks(x.objs)) =>
                HasLandmarks(frames'[f].objs)
<1>1. PICK x \in late : /\ frames' = WithFaces(frames, x.frame, x.objs)
                        /\ late' = late \ {x}
  BY DEF Finish
<1> DEFINE f == x.frame
           y == [frames[f] EXCEPT !.objs = @ \o x.objs]
<1>2. f \in Plain /\ IsList(x.objs)
  BY DEF FlowOK, HeldOK
<1>3. f \in DOMAIN frames /\ ~frames[f].eos /\ IsFrame(frames[f])
  BY <1>2 DEF Plain, FlowOK
<1>4. frames' = [frames EXCEPT ![f] = y]
  BY <1>1, <1>3 DEF WithFaces
<1>5. IsFrame(y) /\ ~y.eos /\ y.objs = frames[f].objs \o x.objs
  BY <1>2, <1>3, FacesFrame
<1> HIDE DEF y
<1>6. frames = [z \in DOMAIN frames |-> frames[z]]
  <2>1. frames \in Seq(Range(frames))
    BY DEF FlowOK, IsList
  <2> QED BY <2>1
<1>7. frames'[f] = y /\ \A z \in DOMAIN frames : z # f => frames'[z] = frames[z]
  BY <1>3, <1>4
<1>8. frames' = [z \in DOMAIN frames |-> frames'[z]]
  BY <1>4, <1>6
<1>9. MoreFaces
  BY <1>2, <1>5, <1>7, <1>8 DEF MoreFaces
<1>10. IsList(frames[f].objs)
  BY <1>3 DEF IsFrame
<1>11. HasLandmarks(frames[f].objs) /\ HasLandmarks(x.objs) => HasLandmarks(y.objs)
  BY <1>2, <1>5, <1>10, ConcatLists
<1> QED BY <1>1, <1>7, <1>9, <1>11 DEF Plain

LEMMA FlowFinish ==
    ASSUME GraphIInv, FlowOK, Finish
    PROVE  FlowOK'
<1>1. SameGraph /\ UNCHANGED <<main, stream, queue, sending, batch_array, requests>>
  BY DEF Finish, graphVars, SameGraph
<1>2. /\ FramesKept /\ IsList(frames') /\ Plain' = Plain /\ DOMAIN frames' = DOMAIN frames
      /\ late' \subseteq late
      /\ \A x \in DOMAIN frames' : IsFrame(frames'[x])
  BY FinishFacts, MoreFacts
<1>3. HeldOK' /\ SendingOK'
  BY <1>1, <1>2, HeldKept, SendingKept
<1> QED BY <1>1, <1>2, <1>3 DEF FlowOK

LEMMA FlowFrames ==
    ASSUME GraphIInv, StartOK, MainOK, FlowOK, Flow
    PROVE  FlowOK'
<1>1. ASSUME Crash PROVE FlowOK'
  BY <1>1, CrashKeeps, FlowSame DEF pathVars
<1>2. CASE MainCrash \/ SourceCrash
  BY <1>1, <1>2 DEF MainCrash, SourceCrash
<1>3. CASE MainRun
  BY <1>3, FlowMainRun
<1>4. CASE SourceFrame
  <2> DEFINE x == [eos |-> FALSE, image |-> Head(stream), objs |-> << >>]
  <2>1. /\ SameGraph /\ main = "run" /\ main' = "run"
        /\ frames' = Append(frames, x)
        /\ sending' = [sending EXCEPT
                         ![Loop("source")] = Pushes("source", Len(frames) + 1)]
        /\ UNCHANGED <<queue, batch_array, requests, late>>
        /\ stream # << >> /\ Head(stream) # Moved /\ stream' = Tail(stream)
    BY <1>4 DEF SourceFrame, graphVars, SameGraph
  <2>2. stream \in Seq(Images \cup {NoImage, Moved})
    BY DEF FlowOK
  <2>3. Head(stream) \in Images \cup {NoImage, Moved} /\ stream' \in Seq(Images \cup {NoImage, Moved})
    <3> DEFINE S == Images \cup {NoImage, Moved}
    <3>1. stream \in Seq(S)
      BY <2>2
    <3> HIDE DEF S
    <3>2. Head(stream) \in S /\ stream' \in Seq(S)
      BY <2>1, <3>1, HeadType
    <3> QED BY <3>2 DEF S
  <2>4. IsFrame(x) /\ ~x.eos
    <3>1. IsList(<< >>)
      BY DEF IsList
    <3> QED BY <2>1, <2>3, <3>1 DEF IsFrame
  <2> HIDE DEF x
  <2> QED BY <2>1, <2>3, <2>4, FlowSource
<1>5. CASE SourceEos
  <2> DEFINE x == [eos |-> TRUE]
  <2>1. /\ SameGraph /\ main = "run" /\ main' = "eos"
        /\ frames' = Append(frames, x)
        /\ sending' = [sending EXCEPT
                         ![Loop("source")] = Pushes("source", Len(frames) + 1)]
        /\ UNCHANGED <<stream, queue, batch_array, requests, late>>
    BY <1>5 DEF SourceEos, RightMove, SameGraph
  <2>2. IsFrame(x)
    BY DEF IsFrame
  <2>3. stream' \in Seq(Images \cup {NoImage, Moved})
    BY <2>1 DEF FlowOK
  <2> HIDE DEF x
  <2> QED BY <2>1, <2>2, <2>3, FlowSource
<1>6. CASE MainExit
  BY <1>6, FlowSame DEF MainExit, graphVars, SameGraph
<1>7. ASSUME NEW n \in ModuleNames, Process(n) PROVE FlowOK'
  <2>1. CASE ProcessEos(n)
    BY <2>1, FlowPass DEF ProcessEos, RightMove, SameGraph
  <2>2. CASE Collect(n)
    BY <2>2, FlowCollect
  <2>3. CASE Detect(n)
    BY <2>3, FlowDetect
  <2>4. CASE PassOn(n)
    BY <2>4, FlowPass DEF PassOn, graphVars, SameGraph
  <2>5. CASE Show(n)
    BY <1>1, <2>5, FlowPass DEF Show, graphVars, SameGraph
  <2>6. CASE Warp(n)
    BY <1>1, <2>6, FlowPass DEF Warp, graphVars, SameGraph
  <2> QED BY <1>7, <2>1, <2>2, <2>3, <2>4, <2>5, <2>6 DEF Process
<1>8. ASSUME NEW n \in ModuleNames, Respond(n) PROVE FlowOK'
  BY <1>8, FlowRespond
<1>9. CASE Finish
  BY <1>9, FlowFinish
<1>10. ASSUME NEW t \in Threads, Transmit(t) PROVE FlowOK'
  BY <1>10, FlowTransmit
<1>11. CASE ObserverStop
  BY <1>11, FlowStop
<1> QED BY <1>1, <1>2, <1>3, <1>4, <1>5, <1>6, <1>7, <1>8, <1>9, <1>10, <1>11, MissingCrash
     DEF Decode

-----------------------------------------------------------------------------
(* The end of the stream.                                                  *)

QueueLess(n) == \E d \in {0, 1} : \A i \in DOMAIN queue'[n] :
                  EndAt(n, i)' => EndAt(n, i + d)
SendLess(n, m) == \E d \in {0, 1} : \A i \in DOMAIN sending'[Loop(m)] :
                    EndFor(n, m, i)' => EndFor(n, m, i + d)

\* The ends that are on their way become fewer.
LEMMA EndLess ==
    ASSUME FlowOK', NEW n \in ModuleNames, EndOK(n), SameGraph, through' = through,
           QueueLess(n), \A m \in ModuleNames : SendLess(n, m)
    PROVE  EndOK(n)'
<1>1. queue'[n] \in Seq(DOMAIN frames')
  BY DEF FlowOK
<1>2. DOMAIN queue'[n] \subseteq Nat
  BY <1>1
<1>3. ASSUME NEW m \in ModuleNames
      PROVE  DOMAIN sending'[Loop(m)] \subseteq Nat
  <2>1. sending'[Loop(m)] \in Seq([frame : DOMAIN frames', to : Targets(m)'])
    BY DEF FlowOK, SendingOK, Loop
  <2> QED BY <2>1
<1>4. Created' = Created /\ output_connectors' = output_connectors
  BY SameFacts
<1>5. PICK d \in {0, 1} : \A i \in DOMAIN queue'[n] : EndAt(n, i)' => EndAt(n, i + d)
  BY DEF QueueLess
<1>6. EndQueued(n)' => EndQueued(n)
  <2>1. \A i : EndAt(n, i) => i \in DOMAIN queue[n]
    BY DEF EndAt
  <2>2. \A i : EndAt(n, i)' => i \in DOMAIN queue'[n]
    BY DEF EndAt
  <2> QED BY <1>5, <2>1, <2>2 DEF EndQueued
<1>7. \A m \in ModuleNames : EndSent(n, m)' => EndSent(n, m)
  <2>1. \A m, i : EndFor(n, m, i) => i \in DOMAIN sending[Loop(m)]
    BY DEF EndFor
  <2> QED BY <2>1 DEF SendLess, EndSent
<1>8. \A i, j \in DOMAIN queue'[n] : EndAt(n, i)' /\ EndAt(n, j)' => i = j
  <2>1. SUFFICES ASSUME NEW i \in DOMAIN queue'[n], NEW j \in DOMAIN queue'[n],
                        EndAt(n, i)', EndAt(n, j)'
                 PROVE  i = j
    OBVIOUS
  <2>2. EndAt(n, i + d) /\ EndAt(n, j + d)
    BY <1>5, <2>1
  <2>3. i + d = j + d
    <3>1. i + d \in DOMAIN queue[n] /\ j + d \in DOMAIN queue[n]
      BY <2>2 DEF EndAt
    <3> QED BY <2>2, <3>1 DEF EndOK
  <2> QED BY <1>2, <2>3
<1>9. \A m \in ModuleNames : \A i, j \in DOMAIN sending'[Loop(m)] :
         EndFor(n, m, i)' /\ EndFor(n, m, j)' => i = j
  <2>1. SUFFICES ASSUME NEW m \in ModuleNames,
                        NEW i \in DOMAIN sending'[Loop(m)],
                        NEW j \in DOMAIN sending'[Loop(m)],
                        EndFor(n, m, i)', EndFor(n, m, j)'
                 PROVE  i = j
    OBVIOUS
  <2>2. PICK e \in {0, 1} : \A k \in DOMAIN sending'[Loop(m)] :
                              EndFor(n, m, k)' => EndFor(n, m, k + e)
    BY DEF SendLess
  <2>3. EndFor(n, m, i + e) /\ EndFor(n, m, j + e)
    BY <2>1, <2>2
  <2>4. i + e = j + e
    <3>1. i + e \in DOMAIN sending[Loop(m)] /\ j + e \in DOMAIN sending[Loop(m)]
      BY <2>3 DEF EndFor
    <3> QED BY <2>3, <3>1 DEF EndOK
  <2> QED BY <1>3, <2>1, <2>4
<1>10. \A m \in ModuleNames : EndSent(n, m)' =>
         ~EndQueued(n)' /\ n \notin through' /\ m \in through'
  BY <1>6, <1>7 DEF EndOK
<1>11. /\ EndQueued(n)' => n \notin through'
       /\ EndQueued(n)' \/ n \in through' =>
            \E m \in Created' \cap through' : n \in Range(output_connectors'[m])
  BY <1>4, <1>6 DEF EndOK
<1> QED BY <1>8, <1>9, <1>10, <1>11 DEF EndOK

LEMMA QueueSame ==
    ASSUME FlowOK, FramesKept, NEW n \in ModuleNames, queue'[n] = queue[n]
    PROVE  (\A i : EndAt(n, i)' <=> EndAt(n, i)) /\ QueueLess(n)
           /\ (EndQueued(n)' <=> EndQueued(n))
<1>1. queue[n] \in Seq(DOMAIN frames)
  BY DEF FlowOK
<1>2. \A i \in DOMAIN queue[n] : queue[n][i] \in DOMAIN frames
  BY <1>1
<1>3. \A i : EndAt(n, i)' <=> EndAt(n, i)
  BY <1>2 DEF EndAt, FramesKept
<1>4. \A i \in DOMAIN queue[n] : i + 0 = i
  BY <1>1
<1> QED BY <1>3, <1>4 DEF QueueLess, EndQueued

LEMMA QueueTail ==
    ASSUME FlowOK, FramesKept, NEW n \in ModuleNames, queue[n] # << >>,
           queue'[n] = Tail(queue[n])
    PROVE  QueueLess(n) /\ \A i : EndAt(n, i)' => i + 1 > 1 /\ EndAt(n, i + 1)
<1>1. queue[n] \in Seq(DOMAIN frames)
  BY DEF FlowOK
<1>2. \A i \in DOMAIN queue[n] : queue[n][i] \in DOMAIN frames
  BY <1>1
<1>3. \A i \in DOMAIN Tail(queue[n]) : /\ i + 1 \in DOMAIN queue[n] /\ i + 1 > 1
                                       /\ Tail(queue[n])[i] = queue[n][i + 1]
  BY <1>1
<1>4. \A i : EndAt(n, i)' => i + 1 > 1 /\ EndAt(n, i + 1)
  BY <1>2, <1>3 DEF EndAt, FramesKept
<1> QED BY <1>4 DEF QueueLess

LEMMA PushFacts ==
    ASSUME NEW F, NEW G, NEW s \in Seq([frame : F, to : G])
    PROVE  \A i \in DOMAIN s : s[i].frame \in F /\ s[i].to \in G
<1> DEFINE T == [frame : F, to : G]
<1>1. s \in Seq(T)
  OBVIOUS
<1> HIDE DEF T
<1>2. \A i \in DOMAIN s : s[i] \in T
  BY <1>1
<1> QED BY <1>2 DEF T

LEMMA SendSame ==
    ASSUME FlowOK, FramesKept, NEW m \in ModuleNames,
           sending'[Loop(m)] = sending[Loop(m)]
    PROVE  \A n : /\ \A i : EndFor(n, m, i)' <=> EndFor(n, m, i)
                  /\ SendLess(n, m) /\ (EndSent(n, m)' <=> EndSent(n, m))
<1>1. sending[Loop(m)] \in Seq([frame : DOMAIN frames, to : Targets(m)])
  BY DEF FlowOK, SendingOK, Loop
<1>2. \A i \in DOMAIN sending[Loop(m)] : sending[Loop(m)][i].frame \in DOMAIN frames
  BY <1>1, PushFacts
<1>3. \A n, i : EndFor(n, m, i)' <=> EndFor(n, m, i)
  BY <1>2 DEF EndFor, FramesKept
<1>4. \A i \in DOMAIN sending[Loop(m)] : i + 0 = i
  BY <1>1
<1> QED BY <1>3, <1>4 DEF SendLess, EndSent

LEMMA SendTail ==
    ASSUME FlowOK, FramesKept, NEW m \in ModuleNames, sending[Loop(m)] # << >>,
           sending'[Loop(m)] = Tail(sending[Loop(m)])
    PROVE  \A n : /\ \A i : EndFor(n, m, i)' => i + 1 > 1 /\ EndFor(n, m, i + 1)
                  /\ SendLess(n, m)
<1> DEFINE T == [frame : DOMAIN frames, to : Targets(m)]
<1>1. sending[Loop(m)] \in Seq(T)
  BY DEF FlowOK, SendingOK, Loop
<1>2. \A i \in DOMAIN sending[Loop(m)] : sending[Loop(m)][i].frame \in DOMAIN frames
  BY <1>1, PushFacts
<1> HIDE DEF T
<1>3. \A i \in DOMAIN Tail(sending[Loop(m)]) :
        /\ i + 1 \in DOMAIN sending[Loop(m)] /\ i + 1 > 1
        /\ Tail(sending[Loop(m)])[i] = sending[Loop(m)][i + 1]
  BY <1>1
<1>4. \A n, i : EndFor(n, m, i)' => i + 1 > 1 /\ EndFor(n, m, i + 1)
  BY <1>2, <1>3 DEF EndFor, FramesKept
<1> QED BY <1>4 DEF SendLess

\* No end is sent.
LEMMA SendNone ==
    ASSUME NEW m, \A i \in DOMAIN sending'[Loop(m)] :
                    sending'[Loop(m)][i].frame \in Plain'
    PROVE  \A n : (\A i : ~EndFor(n, m, i)') /\ SendLess(n, m)
BY DEF EndFor, SendLess

LEMMA EndsLess ==
    ASSUME EndsOK, FlowOK', SameGraph, through' = through,
           \A n \in ModuleNames : QueueLess(n),
           \A n, m \in ModuleNames : SendLess(n, m)
    PROVE  EndsOK'
BY EndLess, SameFacts DEF EndsOK

\* A module passes the end: it was not through, and was the only one to send
\* it to its successors.
LEMMA EndPassed ==
    ASSUME GraphIInv, MainOK, FlowOK, EndsOK, FlowOK', SameGraph, FramesKept,
           NEW m \in Created, NEW f, f \notin Plain',
           Transmitted(Loop(m)), through' = through \cup {m},
           ~FanIn => m \notin through,
           sending' = [sending EXCEPT ![Loop(m)] = Pushes(m, f)],
           m # "source" => queue[m] # << >> /\ EndAt(m, 1),
           \A n \in ModuleNames \ {"source"} :
              queue'[n] = IF n = m THEN Tail(queue[n]) ELSE queue[n]
    PROVE  EndsOK'
<1>1. /\ Created' = Created /\ FanIn' = FanIn /\ output_connectors' = output_connectors
      /\ MapsOK /\ CountsAgree /\ Created \subseteq ModuleNames
  BY SameFacts DEF GraphIInv, MapsOK
<1>2. SUFFICES ASSUME ~FanIn, NEW n \in ModuleNames \ {"source"}
               PROVE  EndOK(n)'
  BY <1>1 DEF EndsOK
<1>3. m \notin through
  BY <1>2
<1>4. EndOK(n) /\ (m # "source" => EndOK(m))
  BY <1>1, <1>2 DEF EndsOK
<1>5. \A k \in ModuleNames : Loop(k) \in Threads
  BY DEF Threads, Loop
<1>6. /\ sending'[Loop(m)] = Pushes(m, f)
      /\ \A k \in ModuleNames : k # m => sending'[Loop(k)] = sending[Loop(k)]
  <2>1. DOMAIN sending = Threads
    BY DEF FlowOK, SendingOK
  <2>2. \A k \in ModuleNames : k # m => Loop(k) # Loop(m)
    BY DEF Loop
  <2> QED BY <1>1, <1>5, <2>1, <2>2
<1>7. /\ DOMAIN Pushes(m, f) = DOMAIN output_connectors[m]
      /\ \A i \in DOMAIN Pushes(m, f) : Pushes(m, f)[i].to = output_connectors[m][i]
  BY DEF Pushes
<1>8. ASSUME NEW i \in DOMAIN output_connectors[m], NEW k \in Created \cap through,
             output_connectors[m][i] \in Range(output_connectors[k])
      PROVE  FALSE
  <2>1. PICK j \in DOMAIN output_connectors[k] :
          output_connectors[m][i] = output_connectors[k][j]
    BY <1>8 DEF Range
  <2>2. m = k
    BY <1>1, <1>2, <2>1, OnlyLink
  <2> QED BY <1>3, <2>2
<1>9. \A i : EndFor(n, m, i)' => /\ i \in DOMAIN output_connectors[m]
                                 /\ output_connectors[m][i] = n
  BY <1>6, <1>7 DEF EndFor
<1>10. EndSent(n, m)' => ~EndQueued(n) /\ n \notin through
  <2>1. SUFFICES ASSUME EndSent(n, m)' PROVE ~(EndQueued(n) \/ n \in through)
    OBVIOUS
  <2>2. PICK i : EndFor(n, m, i)'
    BY <2>1 DEF EndSent
  <2> QED BY <1>4, <1>8, <1>9, <2>2 DEF EndOK
<1>11. \A k \in ModuleNames : k # m =>
         /\ \A i : EndFor(n, k, i)' <=> EndFor(n, k, i)
         /\ EndSent(n, k)' <=> EndSent(n, k)
  BY <1>6, SendSame
<1>12. m # "source" => EndQueued(m)
  <2>1. EndAt(m, 1) => EndQueued(m)
    BY DEF EndAt, EndQueued
  <2> QED BY <2>1
<1>13. \A i : EndFor(n, m, i)' => i \in DOMAIN sending'[Loop(m)]
  BY DEF EndFor
<1>14. \A k \in ModuleNames : \A i, j \in DOMAIN sending'[Loop(k)] :
          EndFor(n, k, i)' /\ EndFor(n, k, j)' => i = j
  <2>1. SUFFICES ASSUME NEW k \in ModuleNames,
                        NEW i \in DOMAIN sending'[Loop(k)],
                        NEW j \in DOMAIN sending'[Loop(k)],
                        EndFor(n, k, i)', EndFor(n, k, j)'
                 PROVE  i = j
    OBVIOUS
  <2>2. CASE k = m
    <3>1. /\ i \in DOMAIN output_connectors[m] /\ j \in DOMAIN output_connectors[m]
          /\ output_connectors[m][i] = output_connectors[m][j]
      BY <1>9, <2>1, <2>2
    <3> QED BY <1>1, <1>2, <3>1, OnlyLink
  <2>3. CASE k # m
    <3>1. EndFor(n, k, i) /\ EndFor(n, k, j)
      BY <1>11, <2>1, <2>3
    <3>2. i \in DOMAIN sending[Loop(k)] /\ j \in DOMAIN sending[Loop(k)]
      BY <3>1 DEF EndFor
    <3> QED BY <1>4, <3>1, <3>2 DEF EndOK
  <2> QED BY <2>2, <2>3
<1>15. CASE n # m
  <2>1. \A i : EndAt(n, i)' <=> EndAt(n, i)
    BY <1>2, <1>15, QueueSame
  <2>2. (EndQueued(n)' <=> EndQueued(n)) /\ queue'[n] = queue[n]
    BY <1>2, <1>15, QueueSame
  <2>3. n \in through' <=> n \in through
    BY <1>15
  <2>4. \A i, j \in DOMAIN queue'[n] : EndAt(n, i)' /\ EndAt(n, j)' => i = j
    BY <1>4, <2>1, <2>2 DEF EndOK
  <2>5. ASSUME NEW k \in ModuleNames, EndSent(n, k)'
        PROVE  ~EndQueued(n)' /\ n \notin through' /\ k \in through'
    <3>1. CASE k = m
      BY <1>10, <2>2, <2>3, <2>5, <3>1
    <3>2. CASE k # m
      BY <1>4, <1>11, <2>2, <2>3, <2>5, <3>2 DEF EndOK
    <3> QED BY <3>1, <3>2
  <2>6. EndQueued(n)' => n \notin through'
    BY <1>4, <2>2, <2>3 DEF EndOK
  <2>7. EndQueued(n)' \/ n \in through' =>
          \E k \in Created' \cap through' : n \in Range(output_connectors'[k])
    BY <1>1, <1>4, <2>2, <2>3 DEF EndOK
  <2> QED BY <1>14, <2>4, <2>5, <2>6, <2>7 DEF EndOK
<1>16. CASE n = m
  <2>1. queue[n] # << >> /\ EndAt(n, 1) /\ queue'[n] = Tail(queue[n]) /\ EndQueued(n)
    BY <1>2, <1>12, <1>16
  <2>2. \A i : ~EndAt(n, i)'
    <3>1. \A i : EndAt(n, i)' => i + 1 > 1 /\ EndAt(n, i + 1)
      BY <1>2, <2>1, QueueTail
    <3>2. \A i : EndAt(n, i) => i \in DOMAIN queue[n]
      BY DEF EndAt
    <3>3. \A i : EndAt(n, i)' => i + 1 = 1
      BY <1>4, <2>1, <3>1, <3>2 DEF EndOK
    <3> QED BY <3>1, <3>3
  <2>3. ~EndQueued(n)'
    BY <2>2 DEF EndQueued
  <2>4. \A k \in ModuleNames : ~EndSent(n, k)'
    BY <1>4, <1>10, <1>11, <2>1 DEF EndOK
  <2>5. \E k \in Created' \cap through' : n \in Range(output_connectors'[k])
    BY <1>1, <1>4, <2>1 DEF EndOK
  <2> QED BY <1>14, <2>2, <2>3, <2>4, <2>5 DEF EndOK
<1> QED BY <1>15, <1>16

\* The end is pushed into the queue of a successor.
LEMMA EndPushed ==
    ASSUME GraphIInv, MainOK, FlowOK, EndsOK, FlowOK', SameGraph, UNCHANGED frames,
           NEW m \in ModuleNames, sending[Loop(m)] # << >>, through' = through,
           sending' = [sending EXCEPT ![Loop(m)] = Tail(@)],
           NEW f, NEW p, f = Head(sending[Loop(m)]).frame,
           p = Head(sending[Loop(m)]).to, f \notin Plain,
           queue' = [queue EXCEPT ![p] = Append(@, f)]
    PROVE  EndsOK'
<1>1. /\ Created' = Created /\ FanIn' = FanIn /\ output_connectors' = output_connectors
      /\ MapsOK /\ CountsAgree /\ Created \subseteq ModuleNames
  BY SameFacts DEF GraphIInv, MapsOK
<1>2. SUFFICES ASSUME ~FanIn, NEW n \in ModuleNames \ {"source"}
               PROVE  EndOK(n)'
  BY <1>1 DEF EndsOK
<1>3. FramesKept /\ EndOK(n)
  BY <1>2, SameFrames DEF EndsOK
<1>4. /\ DOMAIN sending = Threads /\ \A k \in ModuleNames : Loop(k) \in Threads
      /\ \A k \in ModuleNames : k # m => Loop(k) # Loop(m)
  BY DEF FlowOK, SendingOK, Threads, Loop
<1>5. /\ sending'[Loop(m)] = Tail(sending[Loop(m)])
      /\ \A k \in ModuleNames : k # m => sending'[Loop(k)] = sending[Loop(k)]
  BY <1>4
<1>6. \A k \in ModuleNames : SendLess(n, k)
  BY <1>3, <1>5, SendSame, SendTail
<1>7. CASE n # p
  <2>1. queue'[n] = queue[n]
    BY <1>2, <1>7 DEF FlowOK
  <2>2. QueueLess(n)
    BY <1>2, <1>3, <2>1, QueueSame
  <2> QED BY <1>2, <1>3, <1>6, <2>2, EndLess
<1>8. CASE n = p
  <2>1. EndFor(n, m, 1) /\ EndSent(n, m)
    <3>1. sending[Loop(m)] \in Seq([frame : DOMAIN frames, to : Targets(m)])
      BY DEF FlowOK, SendingOK, Loop
    <3>2. 1 \in DOMAIN sending[Loop(m)] /\ Head(sending[Loop(m)]) = sending[Loop(m)][1]
      BY <3>1
    <3> QED BY <1>8, <3>2 DEF EndFor, EndSent
  <2>2. ~EndQueued(n) /\ n \notin through /\ m \in through
    BY <1>3, <2>1 DEF EndOK
  <2>3. ASSUME NEW k \in ModuleNames, EndSent(n, k)
        PROVE  k \in Created /\ n \in Range(output_connectors[k])
    <3>1. sending[Loop(k)] \in Seq([frame : DOMAIN frames, to : Targets(k)])
      BY DEF FlowOK, SendingOK, Loop
    <3>2. PICK i \in DOMAIN sending[Loop(k)] : sending[Loop(k)][i].to = n
      BY <2>3 DEF EndSent, EndFor
    <3>3. n \in Targets(k)
      BY <3>1, <3>2, PushFacts
    <3> QED BY <3>3 DEF Targets
  <2>4. \A k \in ModuleNames : ~EndSent(n, k)'
    <3>1. SUFFICES ASSUME NEW k \in ModuleNames, EndSent(n, k)' PROVE FALSE
      OBVIOUS
    <3>2. CASE k = m
      <4>1. PICK i : EndFor(n, m, i)'
        BY <3>1, <3>2 DEF EndSent
      <4>2. i + 1 > 1 /\ EndFor(n, m, i + 1)
        BY <1>3, <1>5, <4>1, SendTail
      <4>3. i + 1 \in DOMAIN sending[Loop(m)] /\ 1 \in DOMAIN sending[Loop(m)]
        BY <2>1, <4>2 DEF EndFor
      <4>4. i + 1 = 1
        BY <1>3, <2>1, <4>2, <4>3 DEF EndOK
      <4> QED BY <4>2, <4>4
    <3>3. CASE k # m
      <4>1. EndSent(n, k)
        BY <1>3, <1>5, <3>1, <3>3, SendSame
      <4>2. /\ k \in Created /\ n \in Range(output_connectors[k])
            /\ m \in Created /\ n \in Range(output_connectors[m])
        BY <2>1, <2>3, <4>1
      <4>3. PICK i \in DOMAIN output_connectors[k], j \in DOMAIN output_connectors[m] :
              output_connectors[k][i] = output_connectors[m][j]
        BY <4>2 DEF Range
      <4> QED BY <1>1, <1>2, <3>3, <4>2, <4>3, OnlyLink
    <3> QED BY <3>2, <3>3
  <2>5. \A i \in DOMAIN queue'[n] : EndAt(n, i)' => i = Len(queue[n]) + 1
    <3>1. queue[n] \in Seq(DOMAIN frames) /\ queue'[n] = Append(queue[n], f)
      BY <1>2, <1>8 DEF FlowOK
    <3>2. f \in DOMAIN frames
      <4>1. sending[Loop(m)] \in Seq([frame : DOMAIN frames, to : Targets(m)])
        BY DEF FlowOK, SendingOK, Loop
      <4>2. 1 \in DOMAIN sending[Loop(m)] /\ Head(sending[Loop(m)]) = sending[Loop(m)][1]
        BY <4>1
      <4> QED BY <4>1, <4>2, PushFacts
    <3>3. ASSUME NEW i \in DOMAIN queue'[n], i # Len(queue[n]) + 1
          PROVE  i \in DOMAIN queue[n] /\ queue'[n][i] = queue[n][i]
      BY <3>1, <3>2, <3>3
    <3>4. \A i \in DOMAIN queue[n] : queue[n][i] \in Plain
      BY <2>2 DEF EndQueued, EndAt
    <3>5. Plain' = Plain
      BY SameFrames
    <3> QED BY <3>3, <3>4, <3>5 DEF EndAt
  <2>6. n \in Range(output_connectors[m]) /\ m \in Created
    BY <2>1, <2>3
  <2>7. \A k \in ModuleNames : \A i, j \in DOMAIN sending'[Loop(k)] :
          EndFor(n, k, i)' /\ EndFor(n, k, j)' => i = j
    BY <2>4 DEF EndSent
  <2>8. \E k \in Created' \cap through' : n \in Range(output_connectors'[k])
    BY <1>1, <2>2, <2>6
  <2> QED BY <2>2, <2>4, <2>5, <2>7, <2>8 DEF EndOK
<1> QED BY <1>7, <1>8

\* Frames that are not the end are taken and given on.
LEMMA EndsPlain ==
    ASSUME FlowOK, EndsOK, FlowOK', SameGraph, FramesKept, through' = through,
           NEW n \in ModuleNames, queue[n] # << >>,
           queue' = [queue EXCEPT ![n] = Tail(@)],
           \/ UNCHANGED sending
           \/ /\ sending' = [sending EXCEPT ![Loop(n)] = Pushes(n, Taken(n))]
              /\ Taken(n) \in Plain'
    PROVE  EndsOK'
<1>1. /\ DOMAIN sending = Threads
      /\ \A k \in ModuleNames : Loop(k) \in Threads
      /\ \A k \in ModuleNames : k # n => Loop(k) # Loop(n)
  BY DEF FlowOK, SendingOK, Threads, Loop
<1>2. \A k, m \in ModuleNames : SendLess(k, m)
  <2>1. \A m \in ModuleNames :
          \/ sending'[Loop(m)] = sending[Loop(m)]
          \/ \A i \in DOMAIN sending'[Loop(m)] : sending'[Loop(m)][i].frame \in Plain'
    <3>1. \A i \in DOMAIN Pushes(n, Taken(n)) : Pushes(n, Taken(n))[i].frame = Taken(n)
      BY DEF Pushes
    <3> DEFINE s == Pushes(n, Taken(n))
    <3> HIDE DEF s
    <3>2. \/ UNCHANGED sending
          \/ /\ sending' = [sending EXCEPT ![Loop(n)] = s]
             /\ \A i \in DOMAIN s : s[i].frame \in Plain'
      BY <3>1 DEF s
    <3> QED BY <1>1, <3>2
  <2> QED BY <2>1, SendSame, SendNone
<1>3. \A k \in ModuleNames : QueueLess(k)
  <2>1. \A k \in ModuleNames : queue'[k] = IF k = n THEN Tail(queue[k]) ELSE queue[k]
    BY DEF FlowOK
  <2> QED BY <2>1, QueueSame, QueueTail
<1> QED BY <1>2, <1>3, EndsLess

\* Neither a queue nor what the loops have to send changes.
LEMMA EndsStay ==
    ASSUME FlowOK, EndsOK, FlowOK', SameGraph, FramesKept, through' = through,
           UNCHANGED queue,
           \A m \in ModuleNames : sending'[Loop(m)] = sending[Loop(m)]
    PROVE  EndsOK'
<1>1. \A k \in ModuleNames : QueueLess(k)
  BY QueueSame
<1>2. \A k, m \in ModuleNames : SendLess(k, m)
  BY SendSame
<1> QED BY <1>1, <1>2, EndsLess

LEMMA TakenPlain ==
    ASSUME FlowOK, NEW n \in ModuleNames, Takes(n)
    PROVE  /\ queue[n] # << >> /\ Taken(n) \in DOMAIN frames
           /\ ~frames[Taken(n)].eos => Taken(n) \in Plain
           /\ 1 \in DOMAIN queue[n] /\ queue[n][1] = Taken(n)
<1>1. queue[n] # << >> /\ queue[n] \in Seq(DOMAIN frames)
  BY DEF FlowOK, Takes
<1>2. 1 \in DOMAIN queue[n] /\ queue[n][1] = Taken(n) /\ Taken(n) \in DOMAIN frames
  BY <1>1 DEF Taken
<1> QED BY <1>1, <1>2 DEF Plain

LEMMA SourceEosEnds ==
    ASSUME GraphIInv, StartOK, MainOK, FlowOK, EndsOK, SourceEos
    PROVE  EndsOK'
<1>1. Flow
  BY DEF Flow, Decode
<1>2. FlowOK'
  BY <1>1, FlowFrames
<1> DEFINE x == [eos |-> TRUE]
<1>3. /\ SameGraph /\ main = "run" /\ Transmitted(Loop("source"))
      /\ frames' = Append(frames, x)
      /\ sending' = [sending EXCEPT
                       ![Loop("source")] = Pushes("source", Len(frames) + 1)]
      /\ UNCHANGED queue /\ through' = through \cup {"source"}
  BY DEF SourceEos, RightMove, SameGraph
<1>4. "source" \in Created /\ "source" \notin through
  BY <1>3, SourceCreated DEF MainOK
<1>5. IsFrame(x) /\ x.eos
  BY DEF IsFrame
<1> HIDE DEF x
<1>6. FramesKept /\ Len(frames) + 1 \notin Plain'
  BY <1>3, <1>5, NewFrame DEF Plain
<1> DEFINE f == Len(frames) + 1
           m == "source"
<1> HIDE DEF f
<1>7. f \notin Plain' /\ sending' = [sending EXCEPT ![Loop(m)] = Pushes(m, f)]
  BY <1>3, <1>6 DEF f
<1> QED BY <1>2, <1>3, <1>4, <1>6, <1>7, EndPassed

LEMMA ProcessEosEnds ==
    ASSUME GraphIInv, StartOK, MainOK, FlowOK, EndsOK, NEW n \in ModuleNames,
           ProcessEos(n)
    PROVE  EndsOK'
<1>1. Flow
  BY DEF Flow, Process
<1>2. FlowOK'
  BY <1>1, FlowFrames
<1>3. /\ SameGraph /\ Takes(n) /\ frames[Taken(n)].eos /\ TakeAndPass(n)
      /\ through' = through \cup {n} /\ UNCHANGED frames
  BY DEF ProcessEos, RightMove, SameGraph
<1>4. n \in Created /\ Transmitted(Loop(n))
  BY <1>3, BusyFacts DEF Takes
<1>5. FramesKept /\ Plain' = Plain
  BY <1>3, SameFrames
<1>6. /\ queue[n] # << >> /\ 1 \in DOMAIN queue[n] /\ queue[n][1] = Taken(n)
      /\ Taken(n) \notin Plain
  BY <1>3, TakenPlain DEF Plain
<1>7. EndAt(n, 1)
  BY <1>6 DEF EndAt
<1>8. ~FanIn => n \notin through
  BY EndFresh
<1>9. \A k \in ModuleNames \ {"source"} :
        queue'[k] = IF k = n THEN Tail(queue[k]) ELSE queue[k]
  BY <1>3 DEF TakeAndPass, FlowOK
<1>10. sending' = [sending EXCEPT ![Loop(n)] = Pushes(n, Taken(n))]
  BY <1>3 DEF TakeAndPass
<1> QED BY <1>2, <1>3, <1>4, <1>5, <1>6, <1>7, <1>8, <1>9, <1>10, EndPassed

LEMMA TransmitEnds ==
    ASSUME GraphIInv, StartOK, MainOK, FlowOK, EndsOK, NEW t \in Threads,
           phase # "crashed", Transmit(t)
    PROVE  EndsOK'
<1>1. Flow
  BY DEF Flow
<1>2. FlowOK'
  BY <1>1, FlowFrames, SMTT(30)
<1> DEFINE head == Head(sending[t])
<1>3. /\ sending[t] # << >> /\ SameGraph /\ UNCHANGED frames /\ through' = through
      /\ \/ queue' = [queue EXCEPT ![head.to] = Append(@, head.frame)]
         \/ UNCHANGED queue
      /\ sending' = [sending EXCEPT ![t] = Tail(@)]
  BY DEF Transmit, Transmitted, graphVars, SameGraph, endVars
<1>4. FramesKept /\ Plain' = Plain
  BY <1>3, SameFrames
<1>5. PICK m \in ModuleNames : t = Loop(m) \/ t = <<m, "response">>
  BY DEF Threads, Loop
<1>6. DOMAIN sending = Threads /\ \A k \in ModuleNames : Loop(k) \in Threads
  BY DEF FlowOK, SendingOK, Threads, Loop
<1>7. \A k \in ModuleNames : \/ sending'[Loop(k)] = sending[Loop(k)]
                             \/ /\ sending[Loop(k)] # << >>
                                /\ sending'[Loop(k)] = Tail(sending[Loop(k)])
  BY <1>3, <1>6
<1>8. \A k, l \in ModuleNames : SendLess(k, l)
  BY <1>4, <1>7, SendSame, SendTail
<1>9. CASE UNCHANGED queue
  <2>1. \A k \in ModuleNames : QueueLess(k)
    BY <1>4, <1>9, QueueSame
  <2> QED BY <1>2, <1>3, <1>8, <2>1, EndsLess
<1>10. CASE queue' = [queue EXCEPT ![head.to] = Append(@, head.frame)]
  <2>1. CASE head.frame \in Plain
    <3>1. ASSUME NEW k \in ModuleNames PROVE QueueLess(k)
      <4>1. CASE queue'[k] = queue[k]
        BY <1>4, <4>1, QueueSame
      <4>2. CASE queue'[k] = Append(queue[k], head.frame)
        <5>1. queue[k] \in Seq(DOMAIN frames)
          BY DEF FlowOK
        <5> DEFINE f == head.frame
        <5>2. f \in Plain' /\ queue'[k] = Append(queue[k], f) /\ f \in DOMAIN frames
          BY <1>4, <2>1, <4>2 DEF Plain
        <5> HIDE DEF f
        <5>3. ASSUME NEW i \in DOMAIN queue'[k]
              PROVE  \/ i \in DOMAIN queue[k] /\ queue'[k][i] = queue[k][i] /\ i + 0 = i
                     \/ queue'[k][i] \in Plain'
          <6>1. CASE i = Len(queue[k]) + 1
            BY <5>1, <5>2, <6>1
          <6>2. CASE i # Len(queue[k]) + 1
            BY <5>1, <5>2, <6>2, SMTT(30)
          <6> QED BY <6>1, <6>2
        <5> QED BY <1>4, <5>3 DEF QueueLess, EndAt
      <4> QED BY <1>10, <4>1, <4>2 DEF FlowOK
    <3> QED BY <1>2, <1>3, <1>4, <1>8, <3>1, EndsLess
  <2>2. CASE head.frame \notin Plain
    <3>1. t = Loop(m)
      <4>1. SUFFICES ASSUME t = <<m, "response">> PROVE FALSE
        BY <1>5
      <4>2. sending[t] \in Seq([frame : Plain, to : Targets(m)])
        BY <4>1 DEF FlowOK, SendingOK
      <4>3. 1 \in DOMAIN sending[t] /\ head = sending[t][1]
        BY <1>3, <4>2
      <4>4. head.frame \in Plain
        BY <4>2, <4>3, PushFacts
      <4> QED BY <2>2, <4>4
    <3> DEFINE f == head.frame
               p == head.to
    <3>2. /\ sending[Loop(m)] # << >>
          /\ sending' = [sending EXCEPT ![Loop(m)] = Tail(@)]
          /\ f = Head(sending[Loop(m)]).frame /\ p = Head(sending[Loop(m)]).to
          /\ f \notin Plain /\ queue' = [queue EXCEPT ![p] = Append(@, f)]
      BY <1>3, <1>10, <2>2, <3>1
    <3> HIDE DEF f, p
    <3> QED BY <1>2, <1>3, <3>2, EndPushed, Zenon
  <2> QED BY <2>1, <2>2
<1> QED BY <1>3, <1>9, <1>10

LEMMA FlowEnds ==
    ASSUME GraphIInv, StartOK, MainOK, FlowOK, EndsOK, Flow
    PROVE  EndsOK'
<1>1. FlowOK' /\ SameGraph
  BY FlowFrames, FlowKeeps
<1>2. ASSUME UNCHANGED <<queue, sending, frames, through>> PROVE EndsOK'
  BY <1>1, <1>2, SameFrames, EndsStay
<1>3. CASE MainCrash \/ SourceCrash \/ MainRun \/ MainExit
  BY <1>2, <1>3 DEF MainCrash, SourceCrash, MainRun, MainExit, Crash, pathVars,
                    flowVars, endVars
<1>4. CASE SourceFrame
  <2> DEFINE x == [eos |-> FALSE, image |-> Head(stream), objs |-> << >>]
             m == "source"
             f == Len(frames) + 1
  <2>1. /\ frames' = Append(frames, x) /\ main = "run" /\ main' = "run"
        /\ UNCHANGED <<queue, through>>
        /\ sending' = [sending EXCEPT ![Loop(m)] = Pushes(m, f)]
    BY <1>4 DEF SourceFrame, endVars
  <2>2. Plain' = DOMAIN frames'
    BY <1>1, <2>1 DEF FlowOK
  <2>3. FramesKept /\ f \in Plain'
    <3>1. FramesKept /\ DOMAIN frames' = DOMAIN frames \cup {f}
      <4>1. IsList(frames)
        BY DEF FlowOK
      <4>2. frames \in Seq(Range(frames))
        BY <4>1 DEF IsList
      <4>3. /\ Len(frames) \in Nat /\ DOMAIN frames = 1 .. Len(frames)
            /\ DOMAIN frames' = 1 .. Len(frames) + 1
        BY <2>1, <4>2
      <4>4. Plain = DOMAIN frames
        BY <2>1 DEF FlowOK
      <4> QED BY <2>2, <4>3, <4>4 DEF FramesKept
    <3> QED BY <2>2, <3>1
  <2>4. DOMAIN sending = Threads /\ \A k \in ModuleNames : Loop(k) \in Threads
    BY DEF FlowOK, SendingOK, Threads, Loop
  <2>5. \A i \in DOMAIN Pushes(m, f) : Pushes(m, f)[i].frame = f
    BY DEF Pushes
  <2> DEFINE s == Pushes(m, f)
  <2>6. sending' = [sending EXCEPT ![Loop(m)] = s]
        /\ \A i \in DOMAIN s : s[i].frame \in Plain'
    BY <2>1, <2>3, <2>5
  <2> HIDE DEF s
  <2>7. \A k \in ModuleNames :
          \/ sending'[Loop(k)] = sending[Loop(k)]
          \/ \A i \in DOMAIN sending'[Loop(k)] : sending'[Loop(k)][i].frame \in Plain'
    BY <2>4, <2>6
  <2>8. \A k, l \in ModuleNames : SendLess(k, l)
    BY <2>3, <2>7, SendSame, SendNone
  <2>9. \A k \in ModuleNames : QueueLess(k)
    BY <2>1, <2>3, QueueSame
  <2> QED BY <1>1, <2>1, <2>8, <2>9, EndsLess
<1>5. CASE SourceEos
  BY <1>5, SourceEosEnds
<1>6. ASSUME NEW n \in ModuleNames, Process(n) PROVE EndsOK'
  <2>1. CASE ProcessEos(n)
    BY <2>1, ProcessEosEnds
  <2>2. CASE Collect(n)
    <3>1. /\ Takes(n) /\ queue' = [queue EXCEPT ![n] = Tail(@)]
          /\ UNCHANGED <<frames, sending, through>>
      BY <2>2 DEF Collect, endVars
    <3> QED BY <1>1, <3>1, SameFrames, TakenPlain, EndsPlain
  <2>3. ASSUME Takes(n), ~frames[Taken(n)].eos, TakeAndPass(n), FramesKept,
               UNCHANGED through
        PROVE  EndsOK'
    <3>1. /\ queue' = [queue EXCEPT ![n] = Tail(@)]
          /\ sending' = [sending EXCEPT ![Loop(n)] = Pushes(n, Taken(n))]
      BY <2>3 DEF TakeAndPass
    <3>2. queue[n] # << >> /\ Taken(n) \in Plain'
      BY <2>3, TakenPlain DEF FramesKept
    <3> QED BY <1>1, <2>3, <3>1, <3>2, EndsPlain
  <2>4. CASE Detect(n)
    <3>1. Takes(n) /\ ~frames[Taken(n)].eos /\ TakeAndPass(n) /\ UNCHANGED through
      BY <2>4 DEF Detect, endVars
    <3>2. FramesKept
      BY <2>4, DetectFacts, MoreFacts
    <3> QED BY <2>3, <3>1, <3>2
  <2>5. CASE PassOn(n)
    BY <2>3, <2>5, SameFrames DEF PassOn, endVars
  <2>6. CASE Show(n)
    <3>1. CASE Crash
      BY <1>2, <3>1 DEF Crash, pathVars, flowVars, endVars
    <3>2. CASE ~Crash
      BY <2>3, <2>6, <3>2, SameFrames DEF Show, endVars
    <3> QED BY <3>1, <3>2
  <2>7. CASE Warp(n)
    <3>1. CASE Crash
      BY <1>2, <3>1 DEF Crash, pathVars, flowVars, endVars
    <3>2. CASE ~Crash
      BY <2>3, <2>7, <3>2, SameFrames DEF Warp, endVars
    <3> QED BY <3>1, <3>2
  <2> QED BY <1>6, <2>1, <2>2, <2>4, <2>5, <2>6, <2>7 DEF Process
<1>7. ASSUME NEW n \in ModuleNames, Respond(n) PROVE EndsOK'
  <2>1. FramesKept /\ UNCHANGED <<queue, through>>
    BY <1>7, RespondFacts, MoreFacts DEF Respond, endVars
  <2>2. \A m \in ModuleNames : sending'[Loop(m)] = sending[Loop(m)]
    <3> DEFINE s == sending'[<<n, "response">>]
    <3>1. sending' = [sending EXCEPT ![<<n, "response">>] = s]
      BY <1>7, RespondFacts
    <3>2. DOMAIN sending = Threads /\ \A m \in ModuleNames : Loop(m) \in Threads
      BY DEF FlowOK, SendingOK, Threads, Loop
    <3>3. \A m \in ModuleNames : Loop(m) # <<n, "response">>
      BY DEF Loop
    <3> HIDE DEF s
    <3> QED BY <3>1, <3>2, <3>3
  <2> QED BY <1>1, <2>1, <2>2, EndsStay
<1>8. CASE Finish
  <2>1. FramesKept /\ UNCHANGED <<queue, sending, through>>
    BY <1>8, FinishFacts, MoreFacts DEF Finish, endVars
  <2> QED BY <1>1, <2>1, EndsStay
<1>9. ASSUME NEW t \in Threads, phase # "crashed", Transmit(t) PROVE EndsOK'
  BY <1>9, TransmitEnds
<1>10. CASE ObserverStop
  <2>1. /\ queue' = [n \in ModuleNames |-> << >>]
        /\ sending' = [t \in Threads |->
                         IF t = Loop("source") THEN sending[t] ELSE << >>]
        /\ UNCHANGED <<frames, through>>
    BY <1>10 DEF ObserverStop, endVars
  <2>2. \A m \in ModuleNames : Loop(m) \in Threads
    BY DEF Threads, Loop
  <2>3. \A m \in ModuleNames : \/ sending'[Loop(m)] = sending[Loop(m)]
                               \/ sending'[Loop(m)] = << >>
    BY <2>1, <2>2
  <2>4. \A k, l \in ModuleNames : SendLess(k, l)
    <3>1. \A m \in ModuleNames :
            sending'[Loop(m)] = << >> =>
              \A i \in DOMAIN sending'[Loop(m)] : sending'[Loop(m)][i].frame \in Plain'
      OBVIOUS
    <3> QED BY <2>1, <2>3, <3>1, SameFrames, SendSame, SendNone
  <2>5. \A k \in ModuleNames : QueueLess(k)
    BY <2>1 DEF QueueLess, EndAt
  <2> QED BY <1>1, <2>1, <2>4, <2>5, EndsLess
<1>11. CASE Crash
  BY <1>2, <1>11 DEF Crash, pathVars, flowVars, endVars
<1> QED BY <1>3, <1>4, <1>5, <1>6, <1>7, <1>8, <1>9, <1>10, <1>11, MissingCrash DEF Decode

-----------------------------------------------------------------------------
(* The capacities, the landmarks, and why the process ends.                *)

LEMMA FlowBounded ==
    ASSUME GraphIInv, MainOK, FlowOK, Bounded, Flow
    PROVE  Bounded'
<1>1. Names' = Names /\ UNCHANGED <<modules_map, connector>> /\ SameGraph
  BY FlowKeeps, SameFacts
<1>2. Names \subseteq ModuleNames
  BY DEF GraphIInv, MapsOK
<1>3. ASSUME \A n \in ModuleNames : \/ queue'[n] = queue[n]
                                    \/ queue[n] # << >> /\ queue'[n] = Tail(queue[n])
                                    \/ queue'[n] = << >>
                                    \/ /\ Len(queue[n]) < connector[n]
                                       /\ \E f \in DOMAIN frames :
                                            queue'[n] = Append(queue[n], f)
      PROVE  Bounded'
  <2>1. SUFFICES ASSUME NEW n \in Names, modules_map[n] # Null
                 PROVE  Len(queue'[n]) <= connector[n]
    BY <1>1 DEF Bounded
  <2>2. queue[n] \in Seq(DOMAIN frames) /\ Len(queue[n]) <= connector[n]
    BY <1>2, <2>1 DEF FlowOK, Bounded
  <2>3. connector[n] \in Nat
    BY <2>1 DEF GraphIInv, MapsOK
  <2>4. CASE queue[n] # << >> /\ queue'[n] = Tail(queue[n])
    <3>1. Len(Tail(queue[n])) = Len(queue[n]) - 1 /\ Len(queue[n]) \in Nat
      BY <2>2, <2>4
    <3> QED BY <2>2, <2>3, <2>4, <3>1
  <2>5. CASE Len(queue[n]) < connector[n] /\ \E f \in DOMAIN frames :
               queue'[n] = Append(queue[n], f)
    <3>1. PICK f \in DOMAIN frames : queue'[n] = Append(queue[n], f)
      BY <2>5
    <3>2. Len(queue'[n]) = Len(queue[n]) + 1 /\ Len(queue[n]) \in Nat
      BY <2>2, <3>1
    <3> QED BY <2>3, <2>5, <3>2
  <2>6. CASE queue'[n] = << >>
    BY <2>3, <2>6
  <2> QED BY <1>2, <1>3, <2>2, <2>4, <2>5, <2>6
<1>4. ASSUME UNCHANGED queue PROVE Bounded'
  BY <1>3, <1>4
<1>5. ASSUME NEW n \in ModuleNames, Takes(n), queue' = [queue EXCEPT ![n] = Tail(@)]
      PROVE  Bounded'
  <2>1. queue[n] # << >>
    BY <1>5 DEF Takes
  <2>2. \A k \in ModuleNames : queue'[k] = IF k = n THEN Tail(queue[k]) ELSE queue[k]
    BY <1>5 DEF FlowOK
  <2> QED BY <1>3, <2>1, <2>2
<1>6. CASE Decode
  BY <1>4, <1>6 DEF Decode, MainCrash, MainRun, SourceFrame, SourceCrash, SourceEos,
                    MainExit, Crash, pathVars, flowVars
<1>7. ASSUME NEW n \in ModuleNames, Process(n) PROVE Bounded'
  <2>1. CASE Crash
    BY <1>4, <2>1, SMTT(30) DEF Crash, pathVars, flowVars
  <2>2. CASE ~Crash
    BY <1>5, <1>7, <2>2 DEF Process, ProcessEos, Collect, Detect, PassOn, Show, Warp,
                            TakeAndPass
  <2> QED BY <2>1, <2>2
<1>8. ASSUME NEW n \in ModuleNames, Respond(n) PROVE Bounded'
  BY <1>4, <1>8 DEF Respond
<1>9. CASE Finish
  BY <1>4, <1>9 DEF Finish
<1>10. ASSUME NEW t \in Threads, Transmit(t) PROVE Bounded'
  <2> DEFINE head == Head(sending[t])
  <2>1. CASE UNCHANGED queue
    BY <1>4, <2>1
  <2>2. CASE ~(UNCHANGED queue)
    <3>1. /\ sending[t] # << >> /\ Len(queue[head.to]) < connector[head.to]
          /\ queue' = [queue EXCEPT ![head.to] = Append(@, head.frame)]
      BY <1>10, <2>2 DEF Transmit, Transmitted
    <3>2. head.frame \in DOMAIN frames
      <4>1. PICK m \in ModuleNames : t = <<m, "loop">> \/ t = <<m, "response">>
        BY DEF Threads
      <4>2. /\ t = <<m, "loop">> =>
                 sending[t] \in Seq([frame : DOMAIN frames, to : Targets(m)])
            /\ t = <<m, "response">> =>
                 sending[t] \in Seq([frame : Plain, to : Targets(m)])
        BY DEF FlowOK, SendingOK
      <4>3. 1 \in DOMAIN sending[t] /\ head = sending[t][1]
        <5>1. \E S : sending[t] \in Seq(S)
          BY <4>1, <4>2
        <5> QED BY <3>1, <5>1
      <4>4. CASE t = <<m, "loop">>
        BY <4>2, <4>3, <4>4, PushFacts
      <4>5. CASE t = <<m, "response">>
        <5>1. head.frame \in Plain
          BY <4>2, <4>3, <4>5, PushFacts
        <5> QED BY <5>1 DEF Plain
      <4> QED BY <4>1, <4>4, <4>5
    <3> DEFINE f == head.frame
               p == head.to
    <3>3. /\ Len(queue[p]) < connector[p] /\ f \in DOMAIN frames
          /\ queue' = [queue EXCEPT ![p] = Append(@, f)]
      BY <3>1, <3>2
    <3> HIDE DEF f, p
    <3>4. \A k \in ModuleNames : queue'[k] = IF k = p THEN Append(queue[k], f)
                                             ELSE queue[k]
      BY <3>3 DEF FlowOK
    <3> QED BY <1>3, <3>3, <3>4
  <2> QED BY <2>1, <2>2
<1>11. CASE ObserverStop
  BY <1>3, <1>11 DEF ObserverStop
<1>12. CASE Crash
  BY <1>4, <1>12 DEF Crash, pathVars, flowVars
<1> QED BY <1>6, <1>7, <1>8, <1>9, <1>10, <1>11, <1>12, MissingCrash

\* Only main gives the stream something.
LEMMA StreamLess ==
    ASSUME FlowOK, Flow
    PROVE  MainRun \/ Range(stream') \subseteq Range(stream)
<1>1. CASE SourceFrame
  <2> DEFINE S == Images \cup {NoImage, Moved}
  <2>1. stream \in Seq(S)
    BY DEF FlowOK
  <2> HIDE DEF S
  <2>2. stream # << >> /\ stream' = Tail(stream)
    BY <1>1 DEF SourceFrame
  <2>3. \A i \in DOMAIN Tail(stream) : i + 1 \in DOMAIN stream
                                       /\ Tail(stream)[i] = stream[i + 1]
    BY <2>1, <2>2
  <2>4. Range(stream') \subseteq Range(stream)
    BY <2>2, <2>3, SMTT(30) DEF Range
  <2> QED BY <2>4
<1>2. ASSUME NEW n \in ModuleNames, Process(n) \/ Respond(n) PROVE UNCHANGED stream
  BY <1>2 DEF Process, ProcessEos, Collect, Detect, PassOn, Show, Warp, Respond,
              Crash, pathVars
<1>3. CASE MainCrash \/ SourceCrash \/ SourceEos \/ MainExit \/ Finish \/ ObserverStop
           \/ Crash
  <2>1. UNCHANGED stream
    BY <1>3 DEF MainCrash, SourceCrash, SourceEos, MainExit, Finish,
                ObserverStop, Crash, pathVars
  <2> QED BY <2>1
<1>4. ASSUME NEW t \in Threads, Transmit(t) PROVE UNCHANGED stream
  BY <1>4 DEF Transmit
<1> QED BY <1>1, <1>2, <1>3, <1>4, MissingCrash DEF Decode

\* Faces are added to frames that keep their images.
LEMMA AddedImage ==
    ASSUME NEW x, IsFrame(x), ~x.eos, NEW objs
    PROVE  [x EXCEPT !.objs = @ \o objs].image = x.image
BY DEF IsFrame

LEMMA DetectImages ==
    ASSUME FlowOK, NEW n \in ModuleNames, Detect(n), NEW f \in Plain
    PROVE  frames'[f].image = frames[f].image
<1> DEFINE found == [k \in DOMAIN frames[Taken(n)].image.faces |->
                       DetectedFace(frames[Taken(n)].image.faces[k], frames[Taken(n)].image)]
<1>1. frames' = [frames EXCEPT ![Taken(n)].objs = @ \o found]
  BY DEF Detect
<1> HIDE DEF found
<1>2. f \in DOMAIN frames /\ IsFrame(frames[f]) /\ ~frames[f].eos
  BY DEF Plain, FlowOK
<1>3. frames'[f] = frames[f] \/ frames'[f] = [frames[f] EXCEPT !.objs = @ \o found]
  BY <1>1, <1>2
<1> QED BY <1>2, <1>3, AddedImage

LEMMA RespondImages ==
    ASSUME FlowOK, NEW n \in ModuleNames, Respond(n), NEW f \in Plain
    PROVE  frames'[f].image = frames[f].image
<1>1. PICK result, behind : frames' = AllWithFaces(Head(requests[n]), result, behind)
  BY DEF Respond
<1>2. f \in DOMAIN frames /\ IsFrame(frames[f]) /\ ~frames[f].eos
  BY DEF Plain, FlowOK
<1>3. frames'[f] = frames[f] \/ \E objs : frames'[f] = [frames[f] EXCEPT !.objs = @ \o objs]
  BY <1>1, <1>2 DEF AllWithFaces
<1> QED BY <1>2, <1>3, AddedImage

LEMMA FinishImages ==
    ASSUME FlowOK, Finish, NEW f \in Plain
    PROVE  frames'[f].image = frames[f].image
<1>1. PICK x \in late : frames' = WithFaces(frames, x.frame, x.objs)
  BY DEF Finish
<1>2. f \in DOMAIN frames /\ IsFrame(frames[f]) /\ ~frames[f].eos
  BY DEF Plain, FlowOK
<1>3. frames'[f] = frames[f] \/ frames'[f] = [frames[f] EXCEPT !.objs = @ \o x.objs]
  BY <1>1, <1>2 DEF WithFaces
<1> QED BY <1>2, <1>3, AddedImage

LEMMA FlowFaces ==
    ASSUME GraphIInv, StartOK, MainOK, FlowOK, FacesOK, Flow
    PROVE  FacesOK'
<1>1. /\ SameGraph /\ UNCHANGED <<conf, modules_map>>
      /\ HasClass("OpencvDetect")' = HasClass("OpencvDetect")
  BY FlowKeeps, SameFacts
<1> DEFINE Marked == /\ \A f \in Plain : HasLandmarks(frames[f].objs)
                     /\ \A x \in late : HasLandmarks(x.objs)
           Known == ImgFlag(conf.path) /\ Len(GetFiles(conf.path)) > 1
<1>2. /\ ~HasClass("OpencvDetect") => Marked
      /\ Moved \in Range(stream) => Known
  BY DEF FacesOK
<1>3. Known' = Known
  BY <1>1
<1>4. ASSUME UNCHANGED <<frames, late>> PROVE Marked => Marked'
  BY <1>4 DEF Plain
<1>5. ASSUME ~HasClass("OpencvDetect") PROVE Marked'
  <2>1. Marked
    BY <1>2, <1>5
  <2>2. ASSUME NEW x, IsFrame(x), ~x.eos => HasLandmarks(x.objs),
               frames' = Append(frames, x), UNCHANGED late
        PROVE  Marked'
    <3>1. /\ DOMAIN frames' = DOMAIN frames \cup {Len(frames) + 1}
          /\ frames'[Len(frames) + 1] = x
          /\ \A f \in DOMAIN frames : frames'[f] = frames[f]
      BY <2>2, NewFrame
    <3> QED BY <2>1, <2>2, <3>1 DEF Plain
  <2>3. CASE SourceFrame
    <3> DEFINE x == [eos |-> FALSE, image |-> Head(stream), objs |-> << >>]
    <3>1. /\ frames' = Append(frames, x) /\ UNCHANGED late
          /\ stream # << >> /\ Head(stream) # Moved
      BY <2>3 DEF SourceFrame
    <3>2. Head(stream) \in Images \cup {NoImage}
      <4> DEFINE S == Images \cup {NoImage, Moved}
      <4>1. stream \in Seq(S)
        BY DEF FlowOK
      <4> HIDE DEF S
      <4>2. Head(stream) \in S
        BY <3>1, <4>1, HeadType
      <4> QED BY <3>1, <4>2 DEF S
    <3>3. IsFrame(x) /\ HasLandmarks(x.objs)
      <4>1. IsList(<< >>) /\ HasLandmarks(<< >>)
        BY DEF IsList, HasLandmarks
      <4> QED BY <3>2, <4>1 DEF IsFrame
    <3> HIDE DEF x, Marked
    <3> QED BY <2>2, <3>1, <3>3
  <2>4. CASE SourceEos
    <3> DEFINE x == [eos |-> TRUE]
    <3>1. frames' = Append(frames, x) /\ UNCHANGED late
      BY <2>4 DEF SourceEos
    <3>2. IsFrame(x) /\ x.eos
      BY DEF IsFrame
    <3> HIDE DEF x, Marked
    <3> QED BY <2>2, <3>1, <3>2
  <2>5. CASE MainCrash \/ MainRun \/ SourceCrash \/ MainExit \/ ObserverStop \/ Crash
    BY <1>4, <2>1, <2>5 DEF MainCrash, MainRun, SourceCrash, MainExit, ObserverStop,
                            Crash, pathVars, flowVars
  <2>6. ASSUME NEW n \in ModuleNames, Process(n) PROVE Marked'
    <3>1. ~Detect(n)
      <4>1. Takes(n) /\ modules_map[n] = "OpencvDetect" => HasClass("OpencvDetect")
        BY DEF Takes, HasClass
      <4> QED BY <1>5, <4>1 DEF Detect
    <3>2. UNCHANGED <<frames, late>>
      BY <2>6, <3>1 DEF Process, ProcessEos, Collect, PassOn, Show, Warp, Crash,
                        pathVars, flowVars
    <3> QED BY <1>4, <2>1, <3>2
  <2>7. ASSUME NEW n \in ModuleNames, Respond(n) PROVE Marked'
    <3>1. Plain' = Plain
      BY <2>7, RespondFacts, MoreFacts
    <3>2. /\ \A f \in Plain :
               HasLandmarks(frames[f].objs) => HasLandmarks(frames'[f].objs)
          /\ \A x \in late' : x \in late \/ HasLandmarks(x.objs)
      BY <2>7, RespondFacts
    <3> QED BY <2>1, <3>1, <3>2
  <2>8. CASE Finish
    <3>1. Plain' = Plain
      BY <2>8, FinishFacts, MoreFacts
    <3> QED BY <2>1, <2>8, <3>1, FinishFacts
  <2>9. ASSUME NEW t \in Threads, Transmit(t) PROVE Marked'
    BY <1>4, <2>1, <2>9 DEF Transmit
  <2> HIDE DEF Marked
  <2> QED BY <2>3, <2>4, <2>5, <2>6, <2>7, <2>8, <2>9, MissingCrash DEF Decode
<1>6. Moved \in Range(stream') => Known
  <2>1. CASE MainRun
    <3>1. stream' = Decoded(conf.path) /\ conf \in Configurations
      BY <2>1 DEF MainRun, GraphIInv, MapsOK
    <3> QED BY <3>1, DecodedFacts
  <2> QED BY <1>2, <2>1, StreamLess
<1> QED BY <1>1, <1>3, <1>5, <1>6 DEF FacesOK

LEMMA FlowMissing ==
    ASSUME GraphIInv, MainOK, FlowOK, MissingOK, Flow
    PROVE  MissingOK'
<1>1. /\ SameGraph /\ UNCHANGED <<conf, modules_map>>
      /\ HasClass("Inference")' <=> HasClass("Inference")
  BY FlowKeeps, SameFacts
<1> DEFINE Unread == Unreadable(conf.path)
           Infers == HasClass("Inference")
           Fails == conf.fails
<1>2. /\ \A f \in Plain : frames[f].image = NoImage => Unread
      /\ \A n \in ModuleNames : requests[n] # << >> => Infers
      /\ \A x \in late : Infers /\ (x.null => Fails \/ Unread)
      /\ NoImage \in Range(stream) => Unread
  BY DEF MissingOK
<1> DEFINE Whole == \A f \in Plain' : frames'[f].image = NoImage => Unread
           Asked == \A n \in ModuleNames : requests'[n] # << >> => Infers
           Behind == \A x \in late' : Infers /\ (x.null => Fails \/ Unread)
<1>3. NoImage \in Range(stream') => Unread
  <2>1. CASE MainRun
    <3>1. stream' = Decoded(conf.path) /\ conf \in Configurations
      BY <2>1 DEF MainRun, GraphIInv, MapsOK
    <3> QED BY <3>1, DecodedFacts
  <2> QED BY <1>2, <2>1, StreamLess
<1>4. SUFFICES Whole /\ Asked /\ Behind
  BY <1>1, <1>3 DEF MissingOK
<1>5. ASSUME UNCHANGED <<frames, requests, late>> PROVE Whole /\ Asked /\ Behind
  <2> HIDE DEF Unread, Infers, Fails
  <2> QED BY <1>2, <1>5 DEF Plain
<1>6. ASSUME NEW x, IsFrame(x), ~x.eos => (x.image = NoImage => Unread),
             frames' = Append(frames, x), UNCHANGED <<requests, late>>
      PROVE  Whole /\ Asked /\ Behind
  <2>1. /\ DOMAIN frames' = DOMAIN frames \cup {Len(frames) + 1}
        /\ frames'[Len(frames) + 1] = x
        /\ \A f \in DOMAIN frames : frames'[f] = frames[f]
    BY <1>6, NewFrame
  <2> HIDE DEF Unread, Infers, Fails
  <2> QED BY <1>2, <1>6, <2>1 DEF Plain
<1>7. ASSUME Plain' = Plain, \A f \in Plain : frames'[f].image = frames[f].image
      PROVE  Whole
  BY <1>2, <1>7
<1>8. CASE SourceFrame
  <2> DEFINE x == [eos |-> FALSE, image |-> Head(stream), objs |-> << >>]
  <2>1. /\ frames' = Append(frames, x) /\ UNCHANGED <<requests, late>>
        /\ stream # << >> /\ Head(stream) # Moved
    BY <1>8 DEF SourceFrame
  <2>2. Head(stream) \in Images \cup {NoImage} /\ Head(stream) \in Range(stream)
    <3> DEFINE S == Images \cup {NoImage, Moved}
    <3>1. stream \in Seq(S)
      BY DEF FlowOK
    <3> HIDE DEF S
    <3>2. Head(stream) \in S /\ Head(stream) = stream[1] /\ 1 \in DOMAIN stream
      BY <2>1, <3>1
    <3> QED BY <2>1, <3>2 DEF S, Range
  <2>3. IsFrame(x) /\ (x.image = NoImage => Unread)
    <3>1. IsList(<< >>)
      BY DEF IsList
    <3> QED BY <1>2, <2>2, <3>1 DEF IsFrame
  <2> HIDE DEF x, Whole, Asked, Behind
  <2> QED BY <1>6, <2>1, <2>3
<1>9. CASE SourceEos
  <2> DEFINE x == [eos |-> TRUE]
  <2>1. frames' = Append(frames, x) /\ UNCHANGED <<requests, late>>
    BY <1>9 DEF SourceEos
  <2>2. IsFrame(x) /\ x.eos
    BY DEF IsFrame
  <2> HIDE DEF x, Whole, Asked, Behind
  <2> QED BY <1>6, <2>1, <2>2
<1>10. CASE Crash \/ MainCrash \/ MainRun \/ SourceCrash \/ MainExit \/ ObserverStop
  <2>1. UNCHANGED <<frames, requests, late>>
    BY <1>10 DEF Crash, MainCrash, MainRun, SourceCrash, MainExit, ObserverStop,
                 pathVars, flowVars
  <2> QED BY <1>5, <2>1
<1>11. ASSUME NEW n \in ModuleNames, Process(n) PROVE Whole /\ Asked /\ Behind
  <2>1. CASE Collect(n)
    <3>1. UNCHANGED <<frames, late>> /\ n \in Names /\ modules_map[n] = "Inference"
      BY <2>1 DEF Collect, Takes
    <3>2. Infers
      BY <3>1 DEF HasClass
    <3> HIDE DEF Unread, Infers, Fails
    <3> QED BY <1>2, <3>1, <3>2 DEF Plain
  <2>2. CASE Detect(n)
    <3>1. UNCHANGED <<requests, late>>
      BY <2>2 DEF Detect
    <3>2. Plain' = Plain /\ \A f \in Plain : frames'[f].image = frames[f].image
      BY <2>2, DetectFacts, MoreFacts, DetectImages
    <3> QED BY <1>2, <1>7, <3>1, <3>2
  <2>3. CASE ProcessEos(n) \/ PassOn(n) \/ Show(n) \/ Warp(n)
    <3>1. UNCHANGED <<frames, requests, late>>
      BY <2>3 DEF ProcessEos, PassOn, Show, Warp, Crash, pathVars, flowVars
    <3> QED BY <1>5, <3>1
  <2> QED BY <1>11, <2>1, <2>2, <2>3 DEF Process
<1>12. ASSUME NEW n \in ModuleNames, Respond(n) PROVE Whole /\ Asked /\ Behind
  <2>1. /\ requests[n] # << >> /\ requests' = [requests EXCEPT ![n] = Tail(@)]
        /\ n \in ModuleNames
    BY <1>12 DEF Respond
  <2>2. Plain' = Plain /\ \A f \in Plain : frames'[f].image = frames[f].image
    BY <1>12, RespondFacts, MoreFacts, RespondImages
  <2>3. Infers
    BY <1>2, <2>1
  <2>4. MayFail => conf.fails \/ Unread
    BY <1>2 DEF MayFail, Imageless, Plain
  <2>5. \A x \in late' : x \in late \/ (x.null => MayFail)
    BY <1>12, RespondFacts
  <2>6. Whole
    BY <1>7, <2>2
  <2>7. Asked
    BY <2>3
  <2>8. Behind
    BY <1>2, <2>3, <2>4, <2>5
  <2> QED BY <2>6, <2>7, <2>8
<1>13. CASE Finish
  <2>1. Plain' = Plain /\ \A f \in Plain : frames'[f].image = frames[f].image
    BY <1>13, FinishFacts, MoreFacts, FinishImages
  <2>2. late' \subseteq late /\ UNCHANGED requests
    BY <1>13, FinishFacts DEF Finish
  <2> QED BY <1>2, <1>7, <2>1, <2>2
<1>14. ASSUME NEW t \in Threads, Transmit(t) PROVE Whole /\ Asked /\ Behind
  <2>1. UNCHANGED <<frames, requests, late>>
    BY <1>14 DEF Transmit
  <2> QED BY <1>5, <2>1
<1>15. Whole /\ Asked /\ Behind
  <2> HIDE DEF Whole, Asked, Behind
  <2> QED BY <1>8, <1>9, <1>10, <1>11, <1>12, <1>13, <1>14, MissingCrash DEF Decode
<1> QED BY <1>15

LEMMA FlowCrash ==
    ASSUME GraphIInv, StartOK, MainOK, FlowOK, FacesOK, MissingOK, CrashExplained, Flow
    PROVE  CrashExplained'
<1>1. /\ SameGraph /\ UNCHANGED <<conf, modules_map, opened>> /\ Names' = Names
  BY FlowKeeps, SameFacts, SMTT(30)
<1>2. phase # "crashed"
  BY ZenonT(60) DEF Flow, Decode, MainCrash, MainRun, SourceFrame, SourceCrash, SourceEos,
         MainExit, Process, ProcessEos, Collect, Detect, PassOn, Show, Warp, Takes,
         Respond, Finish, ObserverStop, Missing, CollectCrash, DetectCrash, RespondCrash,
         FinishCrash
<1>3. SUFFICES ASSUME phase' = "crashed" PROVE CrashExplained'
  BY DEF CrashExplained
<1>4. \A c : HasClass(c)' <=> HasClass(c)
  BY <1>1 DEF HasClass
<1>5. CASE MainCrash
  BY <1>1, <1>5 DEF MainCrash, CrashExplained
<1>6. CASE SourceCrash
  <2>1. stream # << >> /\ Head(stream) = Moved
    BY <1>6 DEF SourceCrash
  <2>2. Moved \in Range(stream)
    <3>1. stream \in Seq(Images \cup {NoImage, Moved})
      BY DEF FlowOK
    <3>2. 1 \in DOMAIN stream /\ Head(stream) = stream[1]
      BY <2>1, <3>1
    <3> QED BY <2>1, <3>2 DEF Range
  <2> QED BY <1>1, <2>2 DEF FacesOK, CrashExplained
<1>7. ASSUME NEW n \in ModuleNames, Show(n) \/ Warp(n), phase' = "crashed"
      PROVE  CrashExplained'
  <2> DEFINE f == Taken(n)
  <2>1. /\ Takes(n) /\ ~frames[f].eos /\ Faces(n) # << >> /\ UNCHANGED frames
        /\ \/ /\ modules_map[n] \in {"OpencvWarp", "Show"} /\ Empty(Head(Faces(n)))
           \/ /\ modules_map[n] = "OpencvWarp"
              /\ \E o \in Range(Faces(n)) : Len(o.fp) # 3
    <3>1. CASE Show(n)
      <4>1. ~(UNCHANGED graphVars)
        BY <1>2, <1>7 DEF graphVars
      <4> QED BY <3>1, <4>1 DEF Show, Crash, pathVars
    <3>2. CASE Warp(n)
      <4>1. ~(UNCHANGED graphVars)
        BY <1>2, <1>7 DEF graphVars
      <4> QED BY <3>2, <4>1 DEF Warp, WarpCrashes, Crash, pathVars
    <3> QED BY <1>7, <3>1, <3>2
  <2>2. f \in Plain /\ f \in DOMAIN frames /\ Faces(n) = frames[f].objs /\ n \in Names
    BY <2>1, TakenPlain DEF Plain, Faces, Takes
  <2>3. IsList(frames[f].objs)
    BY <2>1, <2>2 DEF FlowOK, IsFrame
  <2>4. CASE modules_map[n] \in {"OpencvWarp", "Show"} /\ Empty(Head(Faces(n)))
    <3>1. HasClass("OpencvWarp") \/ HasClass("Show")
      BY <2>2, <2>4 DEF HasClass
    <3>2. Head(frames[f].objs) \in Range(frames[f].objs)
      <4>1. frames[f].objs \in Seq(Range(frames[f].objs)) /\ frames[f].objs # << >>
        BY <2>1, <2>2, <2>3 DEF IsList
      <4> QED BY <4>1, HeadType
    <3>3. \E g \in DOMAIN frames' :
            ~frames'[g].eos /\ \E o \in Range(frames'[g].objs) : Empty(o)
      BY <2>1, <2>2, <2>4, <3>2
    <3> QED BY <1>4, <3>1, <3>3 DEF CrashExplained
  <2>5. CASE modules_map[n] = "OpencvWarp" /\ \E o \in Range(Faces(n)) : Len(o.fp) # 3
    <3>1. ~HasLandmarks(frames[f].objs)
      BY <2>2, <2>5 DEF HasLandmarks, Range
    <3>2. HasClass("OpencvDetect")
      BY <2>2, <3>1 DEF FacesOK
    <3>3. HasClass("OpencvWarp")
      BY <2>2, <2>5, SMTT(30) DEF HasClass
    <3> QED BY <1>4, <3>2, <3>3 DEF CrashExplained
  <2> QED BY <2>1, <2>4, <2>5
<1>8. ASSUME NEW n \in ModuleNames, Process(n), ~(Show(n) \/ Warp(n)) PROVE FALSE
  BY <1>2, <1>3, <1>8 DEF Process, ProcessEos, RightMove, Collect, Detect, PassOn,
                          graphVars
<1>9. ASSUME NEW n \in ModuleNames, Respond(n) PROVE FALSE
  BY <1>2, <1>3, <1>9 DEF Respond, graphVars
<1>10. ASSUME NEW t \in Threads, Transmit(t) PROVE FALSE
  BY <1>2, <1>3, <1>10 DEF Transmit, graphVars
<1>11. ~(Finish \/ ObserverStop \/ MainRun \/ MainExit \/ SourceFrame \/ SourceEos)
  BY <1>2, <1>3 DEF Finish, ObserverStop, MainRun, MainExit, SourceFrame, SourceEos,
                    RightMove, graphVars
<1>12. MayFail => conf.fails \/ Unreadable(conf.path)
  BY DEF MissingOK, MayFail, Imageless, Plain
<1>13. ASSUME NEW n \in ModuleNames, Missing(n) PROVE CrashExplained'
  <2>1. CASE CollectCrash(n)
    <3>1. n \in Names /\ modules_map[n] = "Inference" /\ OnDevice(n)
      BY <2>1 DEF CollectCrash, Takes
    <3>2. OnDevice(n)' = OnDevice(n)
      BY <1>1 DEF OnDevice, HasParams, ParamSet, SameGraph, mapVars
    <3> QED BY <1>1, <3>1, <3>2 DEF CrashExplained
  <2>2. CASE DetectCrash(n)
    <3>1. Takes(n) /\ Imageless(Taken(n)) /\ n \in Names /\ modules_map[n] = "OpencvDetect"
      BY <2>2 DEF DetectCrash, Takes
    <3>2. Unreadable(conf.path)
      BY <3>1, TakenPlain DEF MissingOK, Imageless
    <3>3. HasClass("OpencvDetect")
      BY <3>1 DEF HasClass
    <3> QED BY <1>1, <1>4, <3>2, <3>3 DEF CrashExplained
  <2>3. CASE RespondCrash(n)
    <3>1. HasClass("Inference") /\ MayFail
      BY <2>3 DEF RespondCrash, MissingOK
    <3> QED BY <1>1, <1>4, <1>12, <3>1 DEF CrashExplained
  <2> QED BY <1>13, <2>1, <2>2, <2>3 DEF Missing
<1>14. CASE FinishCrash
  <2>1. PICK x \in late : x.null
    BY <1>14 DEF FinishCrash
  <2>2. HasClass("Inference") /\ (conf.fails \/ Unreadable(conf.path))
    BY <2>1 DEF MissingOK
  <2> QED BY <1>1, <1>4, <2>2 DEF CrashExplained
<1> QED BY <1>3, <1>5, <1>6, <1>7, <1>8, <1>9, <1>10, <1>11, <1>13, <1>14 DEF Flow, Decode

LEMMA GraphCrash ==
    ASSUME MapsOK, CrashExplained, Build \/ Start, UNCHANGED frames
    PROVE  CrashExplained'
<1>1. phase # "crashed"
  BY DEF Build, Start, BuildPipelineByJSONFile, BuildAdd, BuildAddNull, BuildAdded,
         BuildLink, BuildLinked, Open, Launch
<1>2. SUFFICES ASSUME phase' = "crashed" PROVE CrashExplained'
  BY DEF CrashExplained
<1>3. CASE BuildAddNull
  <2>1. /\ at < Len(configs) /\ Create(configs[at + 1].class) = Null
        /\ UNCHANGED conf
    BY <1>3 DEF BuildAddNull
  <2> DEFINE v == configs[at + 1]
  <2>2. v.class \notin Registered
    BY <2>1, FramePathAssumption DEF Create, FramePathAssumption
  <2>3. CASE conf.from = "code"
    <3>1. configs = conf.modules /\ conf \in Configurations /\ at \in 0 .. Len(configs)
      BY <2>3 DEF MapsOK
    <3>2. configs \in Seq(Range(configs))
      BY <3>1, ConfFacts
    <3>3. at + 1 \in DOMAIN configs
      BY <2>1, <3>1, <3>2
    <3>4. v \in Range(conf.modules)
      BY <3>1, <3>3 DEF Range
    <3> QED BY <2>1, <2>2, <3>4 DEF CrashExplained
  <2>4. CASE conf.from # "code"
    BY <2>1, <2>4 DEF CrashExplained
  <2> QED BY <2>3, <2>4
<1>4. ASSUME NEW n \in Names, Open(n) PROVE CrashExplained'
  <2>1. OpenCrashes(n) /\ UNCHANGED <<conf, mapVars>>
    BY <1>2, <1>4 DEF Open
  <2>2. OpenCrashes(n)' /\ n \in Names'
    BY <2>1 DEF OpenCrashes, mapVars, ParamSet, OpenResults, HasParams, Names
  <2> QED BY <2>2 DEF CrashExplained
<1> QED BY <1>1, <1>2, <1>3, <1>4 DEF Build, Start, BuildPipelineByJSONFile, BuildAdd,
         BuildAdded, BuildLink, BuildLinked, Launch

-----------------------------------------------------------------------------
(* Before main has called Run, and the invariant.                          *)

Still == /\ main = "start" /\ MapsOK /\ MainOK
         /\ DOMAIN sending = Threads
         /\ queue = [n \in ModuleNames |-> queue[n]]
         /\ batch_array = [n \in ModuleNames |-> batch_array[n]]
         /\ requests = [n \in ModuleNames |-> requests[n]]

StillOK == FlowOK /\ EndsOK /\ Bounded /\ ToldWhenThrough /\ FacesOK /\ MissingOK

LEMMA EmptyType == \A S : << >> \in Seq(S)
OBVIOUS

LEMMA StillFacts == Still => StillOK
<1>1. SUFFICES ASSUME Still PROVE StillOK
  OBVIOUS
<1>2. /\ stream = << >> /\ frames = << >> /\ late = {} /\ through = {}
      /\ ~stop_pipeline
      /\ \A n \in ModuleNames : /\ queue[n] = << >> /\ batch_array[n] = << >>
                                /\ requests[n] = << >>
      /\ \A t \in Threads : sending[t] = << >>
  BY <1>1 DEF Still, MainOK
<1>3. DOMAIN frames = {} /\ Plain = {}
  BY <1>2 DEF Plain
<1>4. \A n \in ModuleNames : <<n, "loop">> \in Threads /\ <<n, "response">> \in Threads
  BY DEF Threads
<1>5. SendingOK
  <2>1. \A n \in ModuleNames : sending[<<n, "loop">>] = << >>
                               /\ sending[<<n, "response">>] = << >>
    BY <1>2, <1>4
  <2> QED BY <1>1, <2>1, EmptyType DEF SendingOK, Still
<1> DEFINE empty == [n \in ModuleNames |-> << >>]
<1>11. queue = empty /\ batch_array = empty /\ requests = empty
  <2>1. queue = empty
    BY <1>1, <1>2 DEF Still
  <2>2. batch_array = empty
    BY <1>1, <1>2 DEF Still
  <2>3. requests = empty
    BY <1>1, <1>2 DEF Still
  <2> QED BY <2>1, <2>2, <2>3
<1>12. \A S : empty \in [ModuleNames -> Seq(S)]
  BY EmptyType
<1> HIDE DEF empty
<1>6. HeldOK
  <2>1. batch_array \in [ModuleNames -> Seq(Plain)]
    BY <1>11, <1>12
  <2>2. requests \in [ModuleNames -> Seq({b \in Seq(Plain) : Len(b) = Batch})]
    BY <1>11, <1>12
  <2> QED BY <1>2, <2>1, <2>2 DEF HeldOK
<1>7. FlowOK
  <2>1. queue \in [ModuleNames -> Seq(DOMAIN frames)]
    BY <1>11, <1>12
  <2>2. IsList(frames) /\ stream \in Seq(Images \cup {NoImage, Moved})
    BY <1>2 DEF IsList
  <2> QED BY <1>3, <1>5, <1>6, <2>1, <2>2 DEF FlowOK
<1>8. EndsOK
  <2>1. \A n, m \in ModuleNames : \A i : ~EndAt(n, i) /\ ~EndFor(n, m, i)
    <3>1. \A i : i \notin DOMAIN << >>
      OBVIOUS
    <3> QED BY <1>2, <1>4, <3>1 DEF EndAt, EndFor, Loop
  <2>2. \A n, m \in ModuleNames : ~EndQueued(n) /\ ~EndSent(n, m)
    BY <2>1 DEF EndQueued, EndSent
  <2> QED BY <1>2, <2>1, <2>2 DEF EndsOK, EndOK
<1>9. Bounded
  <2>1. SUFFICES ASSUME NEW n \in Names, modules_map[n] # Null
                 PROVE  Len(queue[n]) <= connector[n]
    BY DEF Bounded
  <2>2. connector[n] \in Nat /\ n \in ModuleNames
    BY <1>1, <2>1 DEF Still, MapsOK
  <2> QED BY <1>2, <2>2
<1>10. FacesOK
  BY <1>2, <1>3 DEF FacesOK, Range
<1>13. MissingOK
  BY <1>2, <1>3 DEF MissingOK, Range
<1> QED BY <1>2, <1>7, <1>8, <1>9, <1>10, <1>13 DEF StillOK, ToldWhenThrough

LEMMA StillNext == Still' => StillOK'
BY StillFacts, PTL

LEMMA PathInvInit == PathInit => PathIInv
<1>1. SUFFICES ASSUME PathInit PROVE PathIInv
  OBVIOUS
<1>2. /\ main = "start" /\ stream = << >> /\ frames = << >>
      /\ queue = [n \in ModuleNames |-> << >>]
      /\ sending = [t \in Threads |-> << >>]
      /\ batch_array = [n \in ModuleNames |-> << >>]
      /\ requests = [n \in ModuleNames |-> << >>]
      /\ late = {} /\ through = {} /\ stop_pipeline = FALSE
  BY <1>1 DEF PathInit
<1>3. /\ conf \in Configurations
      /\ phase = IF conf.from = "code" THEN "add" ELSE "read"
      /\ configs = IF conf.from = "code" THEN conf.modules ELSE << >>
      /\ at = 0 /\ opened = {} /\ run_id = 1
      /\ modules_map = NoNames /\ modules_config_ = NoNames /\ connector = NoNames
      /\ output_connectors = NoNames /\ input_connectors = NoNames
  BY <1>1 DEF PathInit, GraphInit
<1>4. DOMAIN NoNames = {} /\ NoNames = [n \in {} |-> NoNames[n]]
  BY DEF NoNames
<1>5. Names = {} /\ Created = {}
  BY <1>3, <1>4 DEF Names, Created
<1>6. Len(configs) \in Nat
  <2>1. conf.modules \in Seq(Range(conf.modules))
    BY <1>3, ConfFacts
  <2> QED BY <1>3, <2>1
<1>7. MapsOK
  <2>1. /\ connector \in [Created -> Nat]
        /\ output_connectors \in [Created -> Seq(Created)]
        /\ input_connectors \in [Created -> Seq(Created)]
        /\ modules_map = [n \in Names |-> modules_map[n]]
        /\ modules_config_ = [n \in Created |-> modules_config_[n]]
    BY <1>3, <1>4, <1>5
  <2> QED BY <1>3, <1>5, <1>6, <2>1 DEF MapsOK, Phases
<1>8. BuildOK
  BY <1>3, <1>5 DEF BuildOK, GraphOf
<1>9. CountsAgree
  BY <1>5 DEF CountsAgree
<1>10. StartOK
  <2>1. Cardinality(ModuleNames) \in Nat
    BY FS_CardinalityType, FramePathAssumption DEF FramePathAssumption
  <2> QED BY <1>3, <2>1 DEF StartOK, Early
<1>11. MainOK
  BY <1>2, <1>3 DEF MainOK
<1>12. Still
  BY <1>2, <1>7, <1>11 DEF Still
<1>13. StillOK
  BY <1>12, StillFacts
<1>14. CrashExplained
  BY <1>3 DEF CrashExplained
<1> QED BY <1>7, <1>8, <1>9, <1>10, <1>11, <1>13, <1>14
     DEF PathIInv, GraphIInv, StillOK

LEMMA PathStutter ==
    ASSUME GraphIInv, StartOK, MainOK, FlowOK, EndsOK, Bounded, ToldWhenThrough,
           FacesOK, MissingOK, CrashExplained, UNCHANGED <<graphVars, pathVars>>
    PROVE  /\ GraphIInv' /\ StartOK' /\ MainOK' /\ FlowOK' /\ EndsOK' /\ Bounded'
           /\ ToldWhenThrough' /\ FacesOK' /\ MissingOK' /\ CrashExplained'
<1>1. /\ UNCHANGED <<conf, configs, at, phase, modules_map, modules_config_, connector,
                     output_connectors, input_connectors, opened, run_id, main, stream,
                     frames, queue, sending, batch_array, requests, late, through,
                     stop_pipeline>>
      /\ UNCHANGED flowVars
  BY DEF graphVars, mapVars, linkVars, startVars, pathVars, flowVars, endVars
<1>2. SameGraph
  BY DEF graphVars, SameGraph
<1>3. /\ Names' = Names /\ Created' = Created /\ FanIn' = FanIn
      /\ \A c : HasClass(c)' = HasClass(c)
  BY <1>2, SameFacts
<1>4. GraphIInv'
  <2>1. MapsOK /\ BuildOK /\ CountsAgree
    BY DEF GraphIInv
  <2>2. MapsOK'
    BY <1>1, <1>2, <2>1, SameMaps DEF MapsOK
  <2>3. BuildOK'
    BY <1>1, <1>2, <2>1, SameBuilt
  <2>4. CountsAgree'
    BY <1>1, <1>3, <2>1 DEF CountsAgree
  <2> QED BY <2>2, <2>3, <2>4 DEF GraphIInv
<1>5. StartOK'
  BY <1>1, <1>3 DEF StartOK
<1>6. MainOK'
  BY <1>1 DEF MainOK
<1>7. FlowOK'
  BY <1>1, <1>2, FlowSame
<1>8. EndsOK'
  BY <1>1, <1>2, <1>7, SameFrames, EndsStay
<1>9. Bounded'
  BY <1>1, <1>3 DEF Bounded
<1>10. ToldWhenThrough'
  BY <1>1, <1>3 DEF ToldWhenThrough
<1>11. FacesOK'
  BY <1>1, <1>3 DEF FacesOK, Plain
<1>12. CrashExplained'
  BY <1>1, <1>3 DEF CrashExplained, Consistent, OpenCrashes, OpenResults, ParamSet,
                    HasParams, OnDevice
<1>13. MissingOK'
  BY <1>1, <1>3 DEF MissingOK, Plain
<1> QED BY <1>4, <1>5, <1>6, <1>7, <1>8, <1>9, <1>10, <1>11, <1>12, <1>13

LEMMA PathInvNext == PathIInv /\ [PathNext]_programVars => PathIInv'
<1>1. SUFFICES ASSUME PathIInv, [PathNext]_programVars PROVE PathIInv'
  OBVIOUS
<1>2. GraphIInv /\ StartOK /\ MainOK /\ FlowOK /\ EndsOK /\ Bounded
      /\ ToldWhenThrough /\ FacesOK /\ MissingOK /\ CrashExplained
  BY <1>1 DEF PathIInv
<1>3. MapsOK /\ BuildOK /\ CountsAgree
  BY <1>2 DEF GraphIInv
<1>4. CASE (Build \/ Start) /\ UNCHANGED pathVars
  <2>1. GraphIInv' /\ StartOK' /\ MainOK'
    BY <1>2, <1>3, <1>4, GraphMaps, GraphBuilt, GraphCounts, GraphCount DEF GraphIInv
  <2>2. UNCHANGED <<main, frames, queue, sending, batch_array, requests>>
    BY <1>4 DEF pathVars, flowVars
  <2>3. main = "start"
    <3>1. phase \in Early \cup {"open"}
      BY <1>4 DEF Build, Start, BuildPipelineByJSONFile, BuildAdd, BuildAddNull,
                  BuildAdded, BuildLink, BuildLinked, Open, Launch, Early
    <3> QED BY <1>2, <3>1 DEF MainOK, Early, Late
  <2>4. /\ DOMAIN sending = Threads
        /\ queue = [n \in ModuleNames |-> queue[n]]
        /\ batch_array = [n \in ModuleNames |-> batch_array[n]]
        /\ requests = [n \in ModuleNames |-> requests[n]]
    BY <1>2 DEF FlowOK, SendingOK, HeldOK
  <2>5. Still'
    BY <2>1, <2>2, <2>3, <2>4 DEF Still, GraphIInv
  <2>6. StillOK'
    BY <2>5, StillNext
  <2>7. CrashExplained'
    BY <1>2, <1>3, <1>4, <2>2, GraphCrash
  <2> QED BY <2>1, <2>6, <2>7 DEF PathIInv, StillOK
<1>5. CASE Flow
  <2>1. GraphIInv' /\ MainOK' /\ FlowOK' /\ EndsOK'
    BY <1>2, <1>5, FlowGraph, FlowMain, FlowFrames, FlowEnds
  <2>2. StartOK' /\ ToldWhenThrough'
    BY <1>2, <1>5, FlowCount
  <2>3. Bounded' /\ FacesOK' /\ MissingOK' /\ CrashExplained'
    BY <1>2, <1>5, FlowBounded, FlowFaces, FlowMissing, FlowCrash
  <2> QED BY <2>1, <2>2, <2>3 DEF PathIInv
<1>6. CASE UNCHANGED programVars
  <2>1. UNCHANGED <<graphVars, pathVars>>
    BY <1>6 DEF programVars
  <2>2. /\ GraphIInv' /\ StartOK' /\ MainOK' /\ FlowOK' /\ EndsOK' /\ Bounded'
        /\ ToldWhenThrough' /\ FacesOK' /\ MissingOK' /\ CrashExplained'
    BY <1>2, <2>1, PathStutter
  <2> QED BY <2>2 DEF PathIInv
<1> QED BY <1>1, <1>4, <1>5, <1>6 DEF PathNext

\* Whatever the configuration, the program keeps the graph it has built, the
\* places of its frames and the count of the ends of the stream consistent
\* (BuildPipeline, Start, TaskLoop, TransmitData, RightMove and Stop together).
THEOREM PathInvariance == PathSpec => []PathIInv
BY PathInvInit, PathInvNext, PTL DEF PathSpec

LEMMA GraphFacts == PathIInv => GraphInv
<1>1. SUFFICES ASSUME PathIInv PROVE GraphInv
  OBVIOUS
<1>2. /\ MapsOK /\ BuildOK /\ CountsAgree /\ StartOK /\ MainOK /\ FlowOK /\ Bounded
  BY <1>1 DEF PathIInv, GraphIInv
<1>3. PathTypeOK
  <2>1. /\ conf \in Configurations /\ phase \in Phases \cup {"stopped"}
        /\ at \in 0 .. Len(configs) /\ Names \subseteq ModuleNames
        /\ opened \subseteq Names
    BY <1>2 DEF MapsOK
  <2>2. main \in {"start", "run", "eos", "exit"} /\ through \subseteq Names
    BY <1>2, <2>1 DEF MainOK
  <2>3. run_id \in 0 .. Cardinality(ModuleNames) + 1
    BY <1>2 DEF StartOK
  <2>4. \A n \in ModuleNames : Range(queue[n]) \subseteq DOMAIN frames
    <3>1. \A n \in ModuleNames : queue[n] \in Seq(DOMAIN frames)
      BY <1>2 DEF FlowOK
    <3> QED BY <3>1, ListFacts
  <2> QED BY <2>1, <2>2, <2>3, <2>4 DEF PathTypeOK
<1> QED BY <1>2, <1>3, CountsLinks, BuiltFacts DEF GraphInv

\* For every configuration, BuildPipeline and LinkModules leave the graph that it
\* describes, the assertions of TransmitData on the links hold, and no connector
\* is ever fuller than the capacity that SetModuleAttribute gave it.
THEOREM GraphInvCorrect == PathSpec => []GraphInv
BY PathInvariance, GraphFacts, PTL

LEMMA ToldFacts == PathIInv => ToldWhenThrough
BY DEF PathIInv

\* For every graph in which no module is linked into twice, and every stream, the
\* end of the stream that brings run_id to 1 in RightMove is that of the last
\* module, so that the observer is not told before all are through.
THEOREM ToldWhenThroughCorrect == PathSpec => []ToldWhenThrough
BY PathInvariance, ToldFacts, PTL

LEMMA CrashFacts == PathIInv => CrashExplained
BY DEF PathIInv

\* For every configuration, every input (with images that imread cannot read) and
\* every device (one that fails requests included), a process that OpenCV's decoder
\* feeds ends early, by a null pointer or an exception that nobody catches, only
\* for one of the listed reasons.
THEOREM CrashExplainedCorrect == PathSpec => []CrashExplained
BY PathInvariance, CrashFacts, PTL

-----------------------------------------------------------------------------
(* The thread pools: types.                                                *)

LEMMA ConcatFacts ==
    ASSUME NEW S, NEW p \in Seq(S), NEW q \in Seq(S)
    PROVE  /\ p \o q \in Seq(S)
           /\ Len(p \o q) = Len(p) + Len(q)
           /\ \A i \in 1 .. Len(p) + Len(q) :
                 (p \o q)[i] = IF i <= Len(p) THEN p[i] ELSE q[i - Len(p)]
OBVIOUS

\* What is left of a sequence without one of its places (TryPop).
LEMMA RemoveFacts ==
    ASSUME NEW S, NEW s \in Seq(S), NEW k \in DOMAIN s
    PROVE  /\ RemoveAt(s, k) \in Seq(S)
           /\ Len(RemoveAt(s, k)) = Len(s) - 1
           /\ \A i \in 1 .. Len(s) - 1 :
                 RemoveAt(s, k)[i] = IF i < k THEN s[i] ELSE s[i + 1]
<1>1. k \in 1 .. Len(s) /\ Len(s) \in Nat
  OBVIOUS
<1>2. /\ SubSeq(s, 1, k - 1) \in Seq(S)
      /\ Len(SubSeq(s, 1, k - 1)) = k - 1
      /\ \A i \in 1 .. k - 1 : SubSeq(s, 1, k - 1)[i] = s[i]
  BY <1>1
<1>3. /\ SubSeq(s, k + 1, Len(s)) \in Seq(S)
      /\ Len(SubSeq(s, k + 1, Len(s))) = Len(s) - k
      /\ \A i \in 1 .. Len(s) - k : SubSeq(s, k + 1, Len(s))[i] = s[k + i]
  BY <1>1
<1>4. RemoveAt(s, k) = SubSeq(s, 1, k - 1) \o SubSeq(s, k + 1, Len(s))
  BY DEF RemoveAt
<1> DEFINE p == SubSeq(s, 1, k - 1)
           q == SubSeq(s, k + 1, Len(s))
<1>5. /\ p \o q \in Seq(S)
      /\ Len(p \o q) = Len(p) + Len(q)
      /\ \A i \in 1 .. Len(p) + Len(q) :
            (p \o q)[i] = IF i <= Len(p) THEN p[i] ELSE q[i - Len(p)]
  BY <1>2, <1>3, ConcatFacts
<1>6. Len(p) = k - 1 /\ Len(q) = Len(s) - k
  BY <1>2, <1>3
<1>7. Len(p) + Len(q) = Len(s) - 1
  <2> HIDE DEF p, q
  <2> QED BY <1>1, <1>6
<1>8. ASSUME NEW i \in 1 .. Len(s) - 1
      PROVE  (p \o q)[i] = IF i < k THEN s[i] ELSE s[i + 1]
  <2>1. CASE i < k
    <3>1. i \in 1 .. k - 1 /\ i <= Len(p)
      BY <1>1, <1>6, <2>1
    <3> QED BY <1>2, <1>5, <1>7, <2>1, <3>1
  <2>2. CASE ~(i < k)
    <3>1. i - (k - 1) \in 1 .. Len(s) - k /\ k + (i - (k - 1)) = i + 1
      BY <1>1, <2>2
    <3>2. ~(i <= Len(p)) /\ i - Len(p) = i - (k - 1)
      BY <1>1, <1>6, <2>2
    <3>3. (p \o q)[i] = q[i - (k - 1)]
      BY <1>5, <1>7, <3>2
    <3>4. q[i - (k - 1)] = s[k + (i - (k - 1))]
      BY <1>3, <3>1
    <3> QED BY <2>2, <3>1, <3>3, <3>4
  <2> QED BY <2>1, <2>2
<1> QED BY <1>4, <1>5, <1>7, <1>8

LEMMA WorkerFacts == /\ MaxThreads \in Nat /\ InitThreads \in 0 .. MaxThreads
                     /\ NoTask \notin Tasks
                     /\ \A w \in Workers : w \in Nat /\ w >= 1 /\ w <= MaxThreads
                     /\ \A n \in 0 .. MaxThreads : 1 .. n \subseteq Workers
BY PoolAssumption DEF PoolAssumption, Workers

LEMMA FirstFacts == TypeOK => First \subseteq DOMAIN task_q
BY DEF First

LEMMA TypeInit == Init => TypeOK
<1> SUFFICES ASSUME Init PROVE TypeOK
  OBVIOUS
<1> USE WorkerFacts DEF Init
<1>1. task_q \in Seq(Tasks)
  OBVIOUS
<1>2. threads \in 0 .. MaxThreads /\ ci \in 0 .. MaxThreads + 1
  OBVIOUS
<1> QED BY <1>1, <1>2 DEF TypeOK, Idle

LEMMA TypePusher ==
    ASSUME NEW t \in Tasks PROVE TypeOK /\ Pusher(t) => TypeOK'
<1> SUFFICES ASSUME TypeOK, Pusher(t) PROVE TypeOK'
  OBVIOUS
<1> USE DEF TypeOK, Idle, workerVars, stopVars
<1>1. CASE PushEmplace(t)
  <2>1. Append(task_q, t) \in Seq(Tasks)
    OBVIOUS
  <2> QED BY <1>1, <2>1 DEF PushEmplace
<1>2. CASE PushNotify(t)
  BY <1>2 DEF PushNotify, Asleep
<1> QED BY <1>1, <1>2 DEF Pusher

\* What a pop of the queue does to the types.
LEMMA TypeTake ==
    ASSUME NEW w \in Workers, TypeOK, Take(w) \/ TakeNothing
    PROVE  /\ task_q' \in Seq(Tasks)
           /\ status' \in [Tasks -> {"new", "pending", "running", "done", "broken"}]
           /\ hold' \in [Workers -> Tasks \union {NoTask}]
<1>1. CASE Take(w)
  <2>1. PICK k \in DOMAIN task_q :
           /\ hold' = [hold EXCEPT ![w] = task_q[k]]
           /\ status' = [status EXCEPT ![task_q[k]] = "running"]
           /\ task_q' = RemoveAt(task_q, k)
    BY <1>1, FirstFacts DEF Take
  <2>2. task_q \in Seq(Tasks) /\ task_q[k] \in Tasks
    BY DEF TypeOK
  <2>3. RemoveAt(task_q, k) \in Seq(Tasks)
    BY <2>2, RemoveFacts
  <2> QED BY <2>1, <2>2, <2>3 DEF TypeOK
<1>2. CASE TakeNothing
  BY <1>2 DEF TakeNothing, TypeOK
<1> QED BY <1>1, <1>2

LEMMA TypeWorker ==
    ASSUME NEW w \in Workers
    PROVE  TypeOK /\ HoldOK /\ (Worker(w) \/ SpuriousWake(w)) => TypeOK'
<1> SUFFICES ASSUME TypeOK, HoldOK, Worker(w) \/ SpuriousWake(w) PROVE TypeOK'
  OBVIOUS
<1> USE DEF Idle, Step, stopVars
<1>1. CASE TryPop(w)
  <2>1. Take(w) \/ TakeNothing
    BY <1>1 DEF TryPop
  <2> QED BY <1>1, <2>1, TypeTake DEF TryPop, TypeOK
<1>2. CASE RunTask(w)
  BY <1>2 DEF RunTask, TypeOK
<1>3. CASE TestFlag(w)
  BY <1>3 DEF TestFlag, TypeOK
<1>4. CASE Lock(w)
  BY <1>4 DEF Lock, TypeOK
<1>5. CASE PredTryPop(w)
  <2>1. Take(w) \/ TakeNothing
    BY <1>5 DEF PredTryPop
  <2> QED BY <1>5, <2>1, TypeTake DEF PredTryPop, TypeOK
<1>6. CASE PredFlags(w)
  BY <1>6 DEF PredFlags, TypeOK
<1>7. CASE Block(w)
  BY <1>7 DEF Block, TypeOK
<1>8. CASE Leave(w)
  BY <1>8 DEF Leave, TypeOK
<1>9. CASE SpuriousWake(w)
  BY <1>9 DEF SpuriousWake, TypeOK
<1> QED BY <1>1, <1>2, <1>3, <1>4, <1>5, <1>6, <1>7, <1>8, <1>9 DEF Worker

LEMMA TypeResize ==
    ASSUME NEW n \in 0 .. MaxThreads PROVE TypeOK /\ Resize(n) => TypeOK'
<1> SUFFICES ASSUME TypeOK, Resize(n) PROVE TypeOK'
  OBVIOUS
<1> USE WorkerFacts DEF Idle, Goto, Resize, TypeOK
<1>1. CASE Grow(n)
  BY <1>1 DEF Grow
<1>2. CASE Shrink(n)
  <2>1. n + 1 .. threads \subseteq Workers
    BY DEF Workers
  <2> QED BY <1>2, <2>1 DEF Shrink, NotifyAll, Asleep
<1>3. CASE ShrinkFatal(n)
  BY <1>3 DEF ShrinkFatal
<1> QED BY <1>1, <1>2, <1>3

LEMMA TypeController ==
    TypeOK /\ StopOK /\ (Controller \/ \E wait \in BOOLEAN : StopCall(wait)) => TypeOK'
<1> SUFFICES ASSUME TypeOK, StopOK, Controller \/ \E wait \in BOOLEAN : StopCall(wait)
             PROVE  TypeOK'
  OBVIOUS
<1> USE WorkerFacts DEF Idle, Goto, workerVars, stopVars
<1>1. ASSUME NEW wait \in BOOLEAN, StopCall(wait) PROVE TypeOK'
  BY <1>1 DEF StopCall, TypeOK
<1>2. CASE StopFlag
  <2>1. ci \in 0 .. MaxThreads + 1 /\ threads \in 0 .. MaxThreads /\ ci <= threads
    BY <1>2 DEF StopFlag, TypeOK
  <2>2. ci + 1 \in 0 .. MaxThreads + 1
    BY <2>1
  <2>3. ci' \in 0 .. MaxThreads + 1
    BY <1>2, <2>1, <2>2 DEF StopFlag
  <2>4. cpc' \in {"flag", "clear"}
    BY <1>2 DEF StopFlag
  <2> QED BY <1>2, <2>3, <2>4 DEF StopFlag, TypeOK
<1>3. CASE StopFlagsSet
  BY <1>3 DEF StopFlagsSet, TypeOK
<1>4. CASE ClearPop
  <2>1. PICK k \in DOMAIN task_q :
           /\ task_q' = RemoveAt(task_q, k)
           /\ status' = [status EXCEPT ![task_q[k]] = "broken"]
    BY <1>4, FirstFacts DEF ClearPop
  <2>2. RemoveAt(task_q, k) \in Seq(Tasks)
    BY RemoveFacts DEF TypeOK
  <2> QED BY <1>4, <2>1, <2>2 DEF ClearPop, TypeOK
<1>5. CASE ClearDone
  BY <1>5 DEF ClearDone, TypeOK, StopOK
<1>6. CASE StopNotify
  BY <1>6 DEF StopNotify, NotifyAll, Asleep, TypeOK
<1>7. CASE Join
  BY <1>7 DEF Join, TypeOK
<1>8. CASE StopReturn
  BY <1>8 DEF StopReturn, TypeOK
<1> QED BY <1>1, <1>2, <1>3, <1>4, <1>5, <1>6, <1>7, <1>8 DEF Controller

-----------------------------------------------------------------------------
(* Holders and queue.                                                      *)

\* A sequence without repetition loses one element by RemoveAt, and no other.
LEMMA DropFacts ==
    ASSUME NEW S, NEW s \in Seq(S), NEW k \in DOMAIN s,
           \A i, j \in DOMAIN s : s[i] = s[j] => i = j
    PROVE  LET q == RemoveAt(s, k)
           IN  /\ \A i \in DOMAIN q : q[i] # s[k] /\ \E j \in DOMAIN s : q[i] = s[j]
               /\ \A i, j \in DOMAIN q : q[i] = q[j] => i = j
               /\ \A j \in DOMAIN s : j # k => \E i \in DOMAIN q : q[i] = s[j]
<1> DEFINE q == RemoveAt(s, k)
<1>1. /\ Len(s) \in Nat /\ DOMAIN s = 1 .. Len(s)
      /\ DOMAIN q = 1 .. Len(s) - 1
      /\ \A i \in 1 .. Len(s) - 1 : q[i] = IF i < k THEN s[i] ELSE s[i + 1]
  <2>1. q \in Seq(S) /\ Len(q) = Len(s) - 1
    BY RemoveFacts
  <2> QED BY <2>1, RemoveFacts
<1> HIDE DEF q
<1> DEFINE place(i) == IF i < k THEN i ELSE i + 1
<1>a. \A i \in DOMAIN q : place(i) \in DOMAIN s /\ place(i) # k /\ q[i] = s[place(i)]
  BY <1>1
<1>b. \A i, j \in DOMAIN q : place(i) = place(j) => i = j
  BY <1>1
<1> HIDE DEF place
<1>2. \A i \in DOMAIN q : q[i] # s[k] /\ \E j \in DOMAIN s : q[i] = s[j]
  BY <1>a
<1>3. \A i, j \in DOMAIN q : q[i] = q[j] => i = j
  BY <1>a, <1>b
<1>4. ASSUME NEW j \in DOMAIN s, j # k PROVE \E i \in DOMAIN q : q[i] = s[j]
  <2>1. CASE j < k
    <3>1. j \in DOMAIN q /\ q[j] = s[j]
      BY <1>1, <2>1
    <3> QED BY <3>1
  <2>2. CASE j > k
    <3>1. j - 1 \in DOMAIN q /\ q[j - 1] = s[j]
      BY <1>1, <2>2
    <3> QED BY <3>1
  <2> QED BY <1>1, <1>4, <2>1, <2>2
<1> QED BY <1>2, <1>3, <1>4 DEF q

\* A task leaves the queue for another status (TryPop, ClearQueue).
LEMMA QueueDrop ==
    ASSUME TypeOK, QueueOK, NEW k \in DOMAIN task_q, NEW st,
           st \in {"running", "broken"},
           task_q' = RemoveAt(task_q, k),
           status' = [status EXCEPT ![task_q[k]] = st],
           push' = push
    PROVE  QueueOK'
<1>1. task_q \in Seq(Tasks) /\ \A j \in DOMAIN task_q : task_q[j] \in Tasks
  BY DEF TypeOK
<1>2. \A i, j \in DOMAIN task_q : task_q[i] = task_q[j] => i = j
  BY DEF QueueOK
<1>3. /\ \A i \in DOMAIN task_q' :
            task_q'[i] # task_q[k] /\ \E j \in DOMAIN task_q : task_q'[i] = task_q[j]
      /\ \A i, j \in DOMAIN task_q' : task_q'[i] = task_q'[j] => i = j
      /\ \A j \in DOMAIN task_q : j # k => \E i \in DOMAIN task_q' : task_q'[i] = task_q[j]
  BY <1>1, <1>2, DropFacts
<1>4. \A t \in Tasks : status'[t] = IF t = task_q[k] THEN st ELSE status[t]
  BY <1>1 DEF TypeOK
<1>5. \A i \in DOMAIN task_q' : status'[task_q'[i]] = "pending"
  BY <1>1, <1>3, <1>4 DEF QueueOK
<1>6. ASSUME NEW t \in Tasks, status'[t] = "pending"
      PROVE  \E i \in DOMAIN task_q' : task_q'[i] = t
  <2>1. t # task_q[k] /\ status[t] = "pending"
    BY <1>4, <1>6
  <2>2. PICK j \in DOMAIN task_q : task_q[j] = t
    BY <2>1 DEF QueueOK
  <2> QED BY <1>3, <2>1, <2>2
<1>7. \A t \in Tasks : push'[t] = "emplace" => status'[t] = "new"
  BY <1>1, <1>4 DEF QueueOK
<1> QED BY <1>3, <1>5, <1>6, <1>7 DEF QueueOK

\* A worker pops a task (TryPop in SetThread and in the predicate of the wait).
LEMMA TakeInv ==
    ASSUME TypeOK, HoldOK, QueueOK, NEW w \in Workers, NEW to,
           to \in {"run", "leave"}, wpc[w] \in {"pop", "pred"},
           wpc' = [wpc EXCEPT ![w] = to], Take(w), push' = push
    PROVE  /\ HoldOK' /\ QueueOK'
           /\ \A t \in Tasks : status'[t] = status[t] \/ status'[t] = "running"
<1>1. PICK k \in DOMAIN task_q :
         /\ hold' = [hold EXCEPT ![w] = task_q[k]]
         /\ status' = [status EXCEPT ![task_q[k]] = "running"]
         /\ task_q' = RemoveAt(task_q, k)
  BY FirstFacts DEF Take
<1> DEFINE t == task_q[k]
<1>2. t \in Tasks /\ status[t] = "pending"
  BY DEF TypeOK, QueueOK
<1>3. hold[w] = NoTask /\ \A v \in Workers : hold[v] # t
  BY <1>2, WorkerFacts DEF HoldOK
<1>4. \A u \in Tasks : status'[u] = IF u = t THEN "running" ELSE status[u]
  BY <1>1, <1>2 DEF TypeOK
<1>5. \A v \in Workers : /\ hold'[v] = IF v = w THEN t ELSE hold[v]
                         /\ wpc'[v] = IF v = w THEN to ELSE wpc[v]
  BY <1>1 DEF TypeOK
<1>6. \A v \in Workers : hold[v] \in Tasks \union {NoTask}
  BY DEF TypeOK
<1>7. HoldOK'
  <2> HIDE DEF t
  <2>1. \A v \in Workers : hold'[v] # NoTask =>
           wpc'[v] \in {"run", "leave"} /\ status'[hold'[v]] = "running"
    BY <1>2, <1>3, <1>4, <1>5, <1>6 DEF HoldOK
  <2>2. \A v \in Workers : wpc'[v] = "run" => hold'[v] # NoTask
    BY <1>2, <1>5, WorkerFacts DEF HoldOK
  <2>3. \A v, x \in Workers : hold'[v] = hold'[x] /\ hold'[v] # NoTask => v = x
    BY <1>3, <1>5 DEF HoldOK
  <2>4. ASSUME NEW u \in Tasks, status'[u] = "running"
        PROVE  \E v \in Workers : hold'[v] = u
    <3>1. CASE u = t
      BY <1>5, <3>1
    <3>2. CASE u # t
      <4>1. PICK v \in Workers : hold[v] = u
        BY <1>4, <2>4, <3>2 DEF HoldOK
      <4>2. v # w
        BY <1>3, <4>1, WorkerFacts
      <4> QED BY <1>5, <4>1, <4>2
    <3> QED BY <3>1, <3>2
  <2> QED BY <2>1, <2>2, <2>3, <2>4 DEF HoldOK
<1>8. QueueOK'
  BY <1>1, QueueDrop
<1> QED BY <1>4, <1>7, <1>8

-----------------------------------------------------------------------------
(* The steps preserve the invariant.                                       *)

LEMMA InvInit == Init => IInv
<1> SUFFICES ASSUME Init PROVE IInv
  OBVIOUS
<1> USE WorkerFacts DEF Init
<1>1. HoldOK
  BY DEF HoldOK
<1>2. QueueOK
  BY DEF QueueOK
<1>3. LiveOK
  BY DEF LiveOK
<1>4. StopOK
  BY DEF StopOK
<1> QED BY <1>1, <1>2, <1>3, <1>4, TypeInit DEF IInv

LEMMA InvPusher ==
    ASSUME NEW t \in Tasks PROVE IInv /\ Pusher(t) => IInv'
<1> SUFFICES ASSUME IInv, Pusher(t) PROVE IInv'
  OBVIOUS
<1>0. TypeOK'
  BY TypePusher DEF IInv
<1> USE DEF IInv, workerVars, stopVars
<1>1. CASE PushEmplace(t)
  <2>1. /\ task_q' = Append(task_q, t)
        /\ task_q \in Seq(Tasks)
        /\ status[t] = "new"
        /\ \A u \in Tasks : /\ status'[u] = IF u = t THEN "pending" ELSE status[u]
                            /\ push'[u] = IF u = t THEN "notify" ELSE push[u]
        /\ UNCHANGED <<wpc, hold, threads, detached, cpc, ci, server, early, is_done, is_stop>>
    BY <1>1 DEF PushEmplace, TypeOK, QueueOK
  <2>2. /\ DOMAIN task_q = 1 .. Len(task_q) /\ Len(task_q) \in Nat
        /\ DOMAIN task_q' = 1 .. Len(task_q) + 1
        /\ \A k \in 1 .. Len(task_q) : task_q'[k] = task_q[k]
        /\ task_q'[Len(task_q) + 1] = t
    BY <2>1
  <2>3. \A k \in DOMAIN task_q : task_q[k] \in Tasks /\ task_q[k] # t
    BY <2>1 DEF QueueOK
  <2>4. HoldOK'
    <3>1. \A w \in Workers : hold[w] # NoTask => hold[w] # t /\ hold[w] \in Tasks
      BY <2>1 DEF HoldOK, TypeOK
    <3> QED BY <2>1, <3>1 DEF HoldOK
  <2>5. QueueOK'
    <3>1. \A k \in DOMAIN task_q' : status'[task_q'[k]] = "pending"
      BY <2>1, <2>2, <2>3 DEF QueueOK
    <3>2. \A j, k \in DOMAIN task_q' : task_q'[j] = task_q'[k] => j = k
      BY <2>2, <2>3 DEF QueueOK
    <3>3. ASSUME NEW u \in Tasks, status'[u] = "pending"
          PROVE  \E k \in DOMAIN task_q' : task_q'[k] = u
      <4>1. CASE u = t
        BY <2>2, <4>1
      <4>2. CASE u # t
        <5>1. PICK k \in DOMAIN task_q : task_q[k] = u
          BY <2>1, <3>3, <4>2 DEF QueueOK
        <5> QED BY <2>2, <5>1
      <4> QED BY <4>1, <4>2
    <3>4. \A u \in Tasks : push'[u] = "emplace" => status'[u] = "new"
      BY <2>1 DEF QueueOK
    <3> QED BY <3>1, <3>2, <3>3, <3>4 DEF QueueOK
  <2>6. LiveOK'
    BY <2>1 DEF LiveOK
  <2>7. StopOK'
    <3>1. early \subseteq Tasks /\ t \notin early
      BY <2>1 DEF StopOK, TypeOK
    <3> QED BY <2>1, <3>1 DEF StopOK
  <2> QED BY <1>0, <2>4, <2>5, <2>6, <2>7
<1>2. CASE PushNotify(t)
  <2>1. /\ \A w \in Workers : \/ wpc'[w] = wpc[w]
                              \/ (wpc[w] = "asleep" /\ wpc'[w] = "woken")
        /\ \A u \in Tasks : push'[u] = "emplace" => push[u] = "emplace"
        /\ UNCHANGED <<task_q, status, hold, threads, detached, cpc, ci, server, early,
                      is_done, is_stop>>
    <3>1. CASE Asleep = {}
      BY <1>2, <3>1 DEF PushNotify, TypeOK
    <3>2. CASE Asleep # {}
      <4>1. PICK v \in Asleep : wpc' = [wpc EXCEPT ![v] = "woken"]
        BY <1>2, <3>2 DEF PushNotify
      <4>2. v \in Workers /\ wpc[v] = "asleep"
        BY DEF Asleep
      <4> QED BY <1>2, <4>1, <4>2 DEF PushNotify, TypeOK
    <3> QED BY <3>1, <3>2
  <2>2. HoldOK'
    BY <2>1 DEF HoldOK
  <2>3. QueueOK'
    BY <2>1 DEF QueueOK
  <2>4. LiveOK'
    BY <2>1 DEF LiveOK
  <2>5. StopOK'
    <3>1. \A w \in 1 .. threads : w \in Workers
      BY WorkerFacts DEF TypeOK
    <3> QED BY <2>1, <3>1 DEF StopOK
  <2> QED BY <1>0, <2>2, <2>3, <2>4, <2>5
<1> QED BY <1>1, <1>2 DEF Pusher

\* A step of a worker that has not ended disturbs neither LiveOK nor StopOK.
LEMMA LiveWorker ==
    ASSUME IInv, NEW w \in Workers, NEW to, wpc[w] \notin {"none", "exit"},
           wpc' = [wpc EXCEPT ![w] = to], UNCHANGED stopVars,
           \A t \in Tasks : status'[t] = status[t] \/ status'[t] \notin {"new", "pending"}
    PROVE  LiveOK' /\ StopOK'
<1> USE DEF IInv, stopVars
<1>1. \A v \in Workers : v # w => wpc'[v] = wpc[v]
  BY DEF TypeOK
<1>2. LiveOK'
  BY <1>1 DEF LiveOK
<1>3. StopOK'
  <2>1. \A v \in 1 .. threads : v \in Workers
    BY WorkerFacts DEF TypeOK
  <2>2. cpc = "lastClear" => w \notin 1 .. threads
    BY DEF StopOK
  <2>3. \A t \in early : t \in Tasks
    BY DEF TypeOK
  <2> QED BY <1>1, <2>1, <2>2, <2>3 DEF StopOK
<1> QED BY <1>2, <1>3

\* A worker goes on without a task.
LEMMA MoveWorker ==
    ASSUME IInv, NEW w \in Workers, NEW to, to # "run", hold[w] = NoTask,
           wpc[w] \notin {"none", "exit"}, wpc' = [wpc EXCEPT ![w] = to],
           UNCHANGED <<task_q, status, push, hold, stopVars>>
    PROVE  HoldOK' /\ QueueOK' /\ LiveOK' /\ StopOK'
<1> USE DEF IInv
<1>1. \A v \in Workers : wpc'[v] = IF v = w THEN to ELSE wpc[v]
  BY DEF TypeOK
<1>2. HoldOK'
  BY <1>1 DEF HoldOK
<1>3. QueueOK'
  BY DEF QueueOK
<1> QED BY <1>2, <1>3, LiveWorker

LEMMA InvWorker ==
    ASSUME NEW w \in Workers
    PROVE  IInv /\ (Worker(w) \/ SpuriousWake(w)) => IInv'
<1> SUFFICES ASSUME IInv, Worker(w) \/ SpuriousWake(w)
             PROVE  HoldOK' /\ QueueOK' /\ LiveOK' /\ StopOK'
  BY TypeWorker DEF IInv
<1>0. wpc[w] \notin {"run", "leave"} => hold[w] = NoTask
  BY DEF IInv, HoldOK
<1>t. ASSUME NEW to \in {"run", "leave"}, wpc[w] \in {"pop", "pred"},
             wpc' = [wpc EXCEPT ![w] = to], Take(w), push' = push, UNCHANGED stopVars
      PROVE  HoldOK' /\ QueueOK' /\ LiveOK' /\ StopOK'
  <2>1. /\ HoldOK' /\ QueueOK'
        /\ \A t \in Tasks : status'[t] = status[t] \/ status'[t] = "running"
    BY <1>t, TakeInv DEF IInv
  <2>2. LiveOK' /\ StopOK'
    BY <1>t, <2>1, LiveWorker
  <2> QED BY <2>1, <2>2
<1>1. CASE TryPop(w)
  <2>1. CASE Step(w, "pop", "run") /\ Take(w)
    BY <1>1, <1>t, <2>1 DEF TryPop, Step
  <2>2. CASE Step(w, "pop", "lock") /\ TakeNothing
    BY <1>0, <1>1, <2>2, MoveWorker DEF TryPop, Step, TakeNothing
  <2> QED BY <1>1, <2>1, <2>2 DEF TryPop
<1>2. CASE RunTask(w)
  <2>1. /\ wpc[w] = "run" /\ wpc' = [wpc EXCEPT ![w] = "test"]
        /\ UNCHANGED <<task_q, push, mutex, stopVars>>
    BY <1>2 DEF RunTask, Step
  <2>2. hold[w] \in Tasks /\ status[hold[w]] = "running"
    BY <2>1 DEF IInv, HoldOK, TypeOK
  <2>3. \A t \in Tasks : status'[t] = IF t = hold[w] THEN "done" ELSE status[t]
    BY <1>2 DEF RunTask, IInv, TypeOK
  <2>4. \A v \in Workers : /\ hold'[v] = IF v = w THEN NoTask ELSE hold[v]
                           /\ wpc'[v] = IF v = w THEN "test" ELSE wpc[v]
    BY <1>2, <2>1 DEF RunTask, IInv, TypeOK
  <2>5. \A v \in Workers : hold[v] \in Tasks \union {NoTask}
    BY DEF IInv, TypeOK
  <2>6. HoldOK'
    <3>1. \A v \in Workers : hold'[v] # NoTask =>
             wpc'[v] \in {"run", "leave"} /\ status'[hold'[v]] = "running"
      BY <2>2, <2>3, <2>4, <2>5 DEF IInv, HoldOK
    <3>2. \A v \in Workers : wpc'[v] = "run" => hold'[v] # NoTask
      BY <2>4 DEF IInv, HoldOK
    <3>3. \A v, x \in Workers : hold'[v] = hold'[x] /\ hold'[v] # NoTask => v = x
      BY <2>4 DEF IInv, HoldOK
    <3>4. ASSUME NEW t \in Tasks, status'[t] = "running"
          PROVE  \E v \in Workers : hold'[v] = t
      <4>1. t # hold[w] /\ status[t] = "running"
        BY <2>3, <3>4
      <4>2. PICK v \in Workers : hold[v] = t
        BY <4>1 DEF IInv, HoldOK
      <4> QED BY <2>4, <4>1, <4>2
    <3> QED BY <3>1, <3>2, <3>3, <3>4 DEF HoldOK
  <2>7. QueueOK'
    <3>1. \A k \in DOMAIN task_q : task_q[k] \in Tasks /\ task_q[k] # hold[w]
      BY <2>2 DEF IInv, QueueOK, TypeOK
    <3> QED BY <2>1, <2>2, <2>3, <3>1 DEF IInv, QueueOK
  <2>8. LiveOK' /\ StopOK'
    BY <2>1, <2>3, LiveWorker
  <2> QED BY <2>6, <2>7, <2>8
<1>3. CASE TestFlag(w)
  BY <1>0, <1>3, MoveWorker DEF TestFlag, Step
<1>4. CASE Lock(w)
  BY <1>0, <1>4, MoveWorker DEF Lock, Step
<1>5. CASE PredTryPop(w)
  <2>1. CASE Step(w, "pred", "leave") /\ Take(w)
    BY <1>5, <1>t, <2>1 DEF PredTryPop, Step
  <2>2. CASE Step(w, "pred", "predFlags") /\ TakeNothing
    BY <1>0, <1>5, <2>2, MoveWorker DEF PredTryPop, Step, TakeNothing
  <2> QED BY <1>5, <2>1, <2>2 DEF PredTryPop
<1>6. CASE PredFlags(w)
  BY <1>0, <1>6, MoveWorker DEF PredFlags, Step
<1>7. CASE Block(w)
  BY <1>0, <1>7, MoveWorker DEF Block, Step
<1>8. CASE Leave(w)
  <2>1. CASE hold[w] = NoTask
    BY <1>8, <2>1, MoveWorker DEF Leave, Step
  <2>2. CASE hold[w] # NoTask
    <3>1. \A v \in Workers : wpc'[v] = IF v = w THEN "run" ELSE wpc[v]
      BY <1>8, <2>2 DEF Leave, Step, IInv, TypeOK
    <3>2. HoldOK' /\ QueueOK'
      BY <1>8, <2>2, <3>1 DEF Leave, IInv, HoldOK, QueueOK
    <3>3. LiveOK' /\ StopOK'
      BY <1>8, <2>2, LiveWorker DEF Leave, Step
    <3> QED BY <3>2, <3>3
  <2> QED BY <2>1, <2>2
<1>9. CASE SpuriousWake(w)
  BY <1>0, <1>9, MoveWorker DEF SpuriousWake, Step
<1> QED BY <1>1, <1>2, <1>3, <1>4, <1>5, <1>6, <1>7, <1>8, <1>9 DEF Worker

\* notify_all wakes those that sleep, and none that holds a task.
LEMMA WakeFacts ==
    ASSUME IInv, wpc' = NotifyAll \/ wpc' = wpc,
           UNCHANGED <<task_q, status, push, hold>>
    PROVE  /\ HoldOK' /\ QueueOK'
           /\ \A w \in Workers : wpc[w] \in {"none", "exit"} => wpc'[w] = wpc[w]
<1> USE DEF IInv
<1>1. \A w \in Workers : wpc'[w] = wpc[w] \/ (wpc[w] = "asleep" /\ wpc'[w] = "woken")
  BY DEF NotifyAll, Asleep
<1>2. HoldOK'
  BY <1>1 DEF HoldOK
<1>3. QueueOK'
  BY DEF QueueOK
<1> QED BY <1>1, <1>2, <1>3

LEMMA InvResize ==
    ASSUME NEW n \in 0 .. MaxThreads PROVE IInv /\ Resize(n) => IInv'
<1> SUFFICES ASSUME IInv, Resize(n) PROVE HoldOK' /\ QueueOK' /\ LiveOK' /\ StopOK'
  BY TypeResize DEF IInv
<1> USE DEF IInv
<1>0. cpc = "idle" /\ cpc' = "idle" /\ UNCHANGED <<early, task_q, status, push, hold>>
  BY DEF Resize, Goto
<1>1. StopOK'
  BY <1>0 DEF StopOK
<1>2. CASE Grow(n)
  <2>1. \A w \in Workers :
           wpc'[w] = wpc[w] \/ (wpc[w] \in {"none", "exit"} /\ wpc'[w] = "pop")
    BY <1>2 DEF Grow
  <2>2. HoldOK'
    BY <1>0, <2>1 DEF HoldOK
  <2>3. QueueOK'
    BY <1>0 DEF QueueOK
  <2>4. LiveOK'
    <3>1. \A w \in Workers : ~(w <= n) =>
             ~(w <= threads) /\ wpc'[w] = wpc[w] /\ (w \in detached => w \in detached')
      BY <1>2, WorkerFacts DEF Grow, TypeOK
    <3> QED BY <1>2, <3>1 DEF Grow, LiveOK
  <2> QED BY <1>1, <2>2, <2>3, <2>4
<1>3. CASE Shrink(n)
  <2>1. HoldOK' /\ QueueOK'
        /\ \A w \in Workers : wpc[w] \in {"none", "exit"} => wpc'[w] = wpc[w]
    BY <1>0, <1>3, WakeFacts DEF Shrink
  <2>2. LiveOK'
    <3>1. \A w \in Workers : w <= n \/ w \in n + 1 .. threads \/ ~(w <= threads)
      BY WorkerFacts DEF TypeOK
    <3> QED BY <1>3, <2>1, <3>1 DEF Shrink, LiveOK
  <2> QED BY <1>1, <2>1, <2>2
<1>4. CASE ShrinkFatal(n)
  BY <1>0, <1>1, <1>4 DEF ShrinkFatal, HoldOK, QueueOK, LiveOK
<1> QED BY <1>2, <1>3, <1>4 DEF Resize

\* What Stop does besides ClearQueue and the notification leaves the workers and
\* the tasks alone.
LEMMA QuietStop ==
    ASSUME IInv, UNCHANGED <<task_q, status, push, wpc, hold>>
    PROVE  HoldOK' /\ QueueOK' /\ (UNCHANGED <<threads, detached>> => LiveOK')
<1>1. HoldOK'
  BY DEF IInv, HoldOK
<1>2. QueueOK'
  BY DEF IInv, QueueOK
<1>3. UNCHANGED <<threads, detached>> => LiveOK'
  BY DEF IInv, LiveOK
<1> QED BY <1>1, <1>2, <1>3

LEMMA InvController ==
    IInv /\ (Controller \/ \E wait \in BOOLEAN : StopCall(wait)) => IInv'
<1> SUFFICES ASSUME IInv, Controller \/ \E wait \in BOOLEAN : StopCall(wait)
             PROVE  HoldOK' /\ QueueOK' /\ LiveOK' /\ StopOK'
  BY TypeController DEF IInv
<1> USE DEF Goto, workerVars, stopVars
<1>1. ASSUME NEW wait \in BOOLEAN, StopCall(wait)
      PROVE  HoldOK' /\ QueueOK' /\ LiveOK' /\ StopOK'
  <2>1. UNCHANGED <<task_q, status, push, wpc, hold, threads, detached>>
    BY <1>1 DEF StopCall
  <2>2. StopOK'
    BY <1>1 DEF StopCall, StopOK
  <2> QED BY <2>1, <2>2, QuietStop
<1>2. CASE StopFlag
  <2>1. StopOK'
    BY <1>2 DEF StopFlag, StopOK, IInv
  <2> QED BY <1>2, <2>1, QuietStop DEF StopFlag
<1>3. CASE StopFlagsSet
  <2>1. StopOK'
    BY <1>3 DEF StopFlagsSet, StopOK, IInv
  <2> QED BY <1>3, <2>1, QuietStop DEF StopFlagsSet
<1>4. CASE ClearPop
  <2>1. PICK k \in DOMAIN task_q :
           /\ task_q' = RemoveAt(task_q, k)
           /\ status' = [status EXCEPT ![task_q[k]] = "broken"]
    BY <1>4, FirstFacts DEF ClearPop, IInv
  <2>2. UNCHANGED <<push, wpc, hold, server, threads, detached, cpc, ci, early,
                    is_done, is_stop>>
    BY <1>4 DEF ClearPop
  <2>3. QueueOK'
    BY <2>1, <2>2, QueueDrop DEF IInv
  <2>4. task_q[k] \in Tasks /\ status[task_q[k]] = "pending"
    BY DEF IInv, TypeOK, QueueOK
  <2>5. \A t \in Tasks : status'[t] = IF t = task_q[k] THEN "broken" ELSE status[t]
    BY <2>1 DEF IInv, TypeOK
  <2>6. HoldOK'
    <3>1. \A w \in Workers : hold[w] # NoTask => hold[w] \in Tasks /\ hold[w] # task_q[k]
      BY <2>4 DEF IInv, TypeOK, HoldOK
    <3> QED BY <2>2, <2>5, <3>1 DEF IInv, HoldOK
  <2>7. LiveOK'
    BY <2>2 DEF IInv, LiveOK
  <2>8. StopOK'
    <3>1. \A t \in early : t \in Tasks
      BY DEF IInv, TypeOK
    <3> QED BY <2>2, <2>5, <3>1 DEF IInv, StopOK
  <2> QED BY <2>3, <2>6, <2>7, <2>8
<1>5. CASE ClearDone
  <2>1. StopOK'
    BY <1>5 DEF ClearDone, StopOK, IInv
  <2> QED BY <1>5, <2>1, QuietStop DEF ClearDone
<1>6. CASE StopNotify
  <2>1. HoldOK' /\ QueueOK'
        /\ \A w \in Workers : wpc[w] \in {"none", "exit"} => wpc'[w] = wpc[w]
    BY <1>6, WakeFacts DEF StopNotify
  <2>2. LiveOK'
    BY <1>6, <2>1 DEF StopNotify, IInv, LiveOK
  <2>3. StopOK'
    BY <1>6 DEF StopNotify, IInv, StopOK
  <2> QED BY <2>1, <2>2, <2>3
<1>7. CASE Join
  <2>1. StopOK'
    BY <1>7 DEF Join, StopOK, IInv
  <2> QED BY <1>7, <2>1, QuietStop DEF Join
<1>8. CASE StopReturn
  <2>1. HoldOK' /\ QueueOK'
    BY <1>8, QuietStop DEF StopReturn
  <2>2. LiveOK'
    <3>1. \A w \in Workers : w <= threads => w \in 1 .. threads
      BY WorkerFacts DEF IInv, TypeOK
    <3>2. \A w \in Workers : w <= threads => wpc[w] = "exit"
      BY <1>8, <3>1 DEF StopReturn, IInv, StopOK
    <3> QED BY <1>8, <3>2 DEF StopReturn, IInv, LiveOK
  <2>3. StopOK'
    <3>1. \A t \in early : status[t] # "pending"
      BY <1>8 DEF StopReturn, IInv, QueueOK, TypeOK
    <3> QED BY <1>8, <3>1 DEF StopReturn, IInv, StopOK
  <2> QED BY <2>1, <2>2, <2>3
<1> QED BY <1>1, <1>2, <1>3, <1>4, <1>5, <1>6, <1>7, <1>8 DEF Controller

LEMMA InvStep == IInv /\ [Next]_vars => IInv'
<1> SUFFICES ASSUME IInv, [Next]_vars PROVE IInv'
  OBVIOUS
<1>1. CASE \E t \in Tasks : Pusher(t)
  BY <1>1, InvPusher
<1>2. CASE \E w \in Workers : Worker(w) \/ SpuriousWake(w)
  BY <1>2, InvWorker
<1>3. CASE \E n \in 0 .. MaxThreads : Resize(n)
  BY <1>3, InvResize
<1>4. CASE Controller \/ \E wait \in BOOLEAN : StopCall(wait)
  BY <1>4, InvController
<1>5. CASE UNCHANGED vars
  BY <1>5 DEF vars, IInv, TypeOK, Idle, HoldOK, QueueOK, LiveOK, StopOK
<1> QED BY <1>1, <1>2, <1>3, <1>4, <1>5 DEF Next

\* The inductive invariant: who holds which task, what the queue holds, which
\* workers are alive, and where Stop is.
THEOREM PoolInvariance == Spec => []IInv
<1> QED BY InvInit, InvStep, PTL DEF Spec

\* The inductive invariant, and Stop leaves no future unready that somebody may wait for and no
\* worker but detached ones (Stop, ClearQueue, Resize).
THEOREM PoolInvCorrect == Spec => []PoolInv
<1>1. IInv => PoolInv
  <2> SUFFICES ASSUME IInv PROVE StopResolves
    BY DEF PoolInv
  <2> USE DEF IInv
  <2>1. ASSUME cpc = "done", NEW w \in Workers
        PROVE  wpc[w] \in {"none", "exit"} \/ w \in detached
    <3>1. ~(w <= threads)
      BY <2>1, WorkerFacts DEF StopOK
    <3> QED BY <3>1 DEF LiveOK
  <2>2. ASSUME cpc = "done", NEW t \in early
        PROVE  status[t] \in Pool!Ended \/ Detached(t)
    <3>1. t \in Tasks /\ status[t] \notin {"new", "pending"}
      BY <2>2 DEF StopOK, TypeOK
    <3>2. CASE status[t] = "running"
      <4>1. PICK w \in Workers : hold[w] = t
        BY <3>1, <3>2 DEF HoldOK
      <4>2. wpc[w] \in {"run", "leave"}
        BY <3>1, <4>1, WorkerFacts DEF HoldOK
      <4>3. w \in detached
        BY <2>1, <2>2, <4>2
      <4> QED BY <4>1, <4>3 DEF Detached
    <3>3. CASE status[t] # "running"
      BY <3>1, <3>3 DEF TypeOK, Pool!Ended
    <3> QED BY <3>2, <3>3
  <2> QED BY <2>1, <2>2 DEF StopResolves
<1> QED BY <1>1, PoolInvariance, PTL

-----------------------------------------------------------------------------
(* The pool implements TaskPool.                                           *)

LEMMA TakeBegins ==
    ASSUME TypeOK, NEW w \in Workers, Take(w), UNCHANGED <<server, is_done, is_stop>>
    PROVE  Pool!PoolNext /\ server' = server
<1>1. PICK k \in First : /\ task_q' = RemoveAt(task_q, k)
                         /\ status' = [status EXCEPT ![task_q[k]] = "running"]
  BY DEF Take
<1>2. k \in Pool!First /\ task_q' = Pool!RemoveAt(task_q, k)
  BY <1>1 DEF First, Pool!First, RemoveAt, Pool!RemoveAt
<1>3. UNCHANGED (is_done \/ is_stop)
  OBVIOUS
<1>4. Pool!Begin
  BY <1>1, <1>2, <1>3 DEF Pool!Begin
<1> QED BY <1>4 DEF Pool!PoolNext

LEMMA StepImplements ==
    IInv /\ [Next]_vars => [Pool!PoolNext /\ server' = server]_(Pool!poolVars)
<1> SUFFICES ASSUME IInv, [Next]_vars
             PROVE  \/ Pool!PoolNext /\ server' = server
                    \/ UNCHANGED <<task_q, status, is_done, is_stop, server>>
  BY DEF Pool!poolVars
<1> USE DEF Goto, Step, workerVars, stopVars
<1>1. ASSUME NEW t \in Tasks, PushEmplace(t) PROVE Pool!PoolNext /\ server' = server
  <2>1. status[t] = "new"
    BY <1>1 DEF IInv, QueueOK, PushEmplace
  <2>2. Pool!Submit(t)
    BY <1>1, <2>1 DEF PushEmplace, Pool!Submit
  <2> QED BY <1>1, <2>2 DEF PushEmplace, Pool!PoolNext
<1>2. ASSUME NEW t \in Tasks, PushNotify(t)
      PROVE  UNCHANGED <<task_q, status, is_done, is_stop, server>>
  BY <1>2 DEF PushNotify
<1>3. ASSUME NEW w \in Workers, TryPop(w) \/ PredTryPop(w)
      PROVE  \/ Pool!PoolNext /\ server' = server
             \/ UNCHANGED <<task_q, status, is_done, is_stop, server>>
  <2>1. Take(w) \/ TakeNothing
    BY <1>3 DEF TryPop, PredTryPop
  <2>2. UNCHANGED <<server, is_done, is_stop>>
    BY <1>3 DEF TryPop, PredTryPop
  <2> QED BY <2>1, <2>2, TakeBegins DEF TakeNothing, IInv
<1>4. ASSUME NEW w \in Workers, RunTask(w) PROVE Pool!PoolNext /\ server' = server
  <2>1. hold[w] \in Tasks /\ status[hold[w]] = "running"
    BY <1>4 DEF IInv, HoldOK, TypeOK, RunTask
  <2>2. Pool!End(hold[w])
    BY <1>4, <2>1 DEF RunTask, Pool!End
  <2> QED BY <1>4, <2>1, <2>2 DEF RunTask, Pool!PoolNext
<1>5. ASSUME NEW w \in Workers,
             TestFlag(w) \/ Lock(w) \/ PredFlags(w) \/ Block(w) \/ Leave(w) \/ SpuriousWake(w)
      PROVE  UNCHANGED <<task_q, status, is_done, is_stop, server>>
  BY <1>5 DEF TestFlag, Lock, PredFlags, Block, Leave, SpuriousWake
<1>6. ASSUME NEW n \in 0 .. MaxThreads, Resize(n)
      PROVE  UNCHANGED <<task_q, status, is_done, is_stop, server>>
  BY <1>6 DEF Resize
<1>7. ASSUME NEW wait \in BOOLEAN, StopCall(wait)
      PROVE  Pool!PoolNext /\ server' = server
  <2>1. Pool!PoolStop
    BY <1>7 DEF StopCall, Pool!PoolStop
  <2> QED BY <1>7, <2>1 DEF StopCall, Pool!PoolNext
<1>8. CASE ClearPop
  <2>1. is_done \/ is_stop
    BY <1>8 DEF ClearPop, IInv, StopOK
  <2>2. PICK k \in First : /\ task_q' = RemoveAt(task_q, k)
                           /\ status' = [status EXCEPT ![task_q[k]] = "broken"]
    BY <1>8 DEF ClearPop
  <2>3. k \in Pool!First /\ task_q' = Pool!RemoveAt(task_q, k)
    BY <2>2 DEF First, Pool!First, RemoveAt, Pool!RemoveAt
  <2>4. UNCHANGED (is_done \/ is_stop)
    BY <1>8 DEF ClearPop
  <2>5. Pool!Drop
    BY <2>1, <2>2, <2>3, <2>4 DEF Pool!Drop
  <2> QED BY <1>8, <2>5 DEF ClearPop, Pool!PoolNext
<1>9. CASE StopFlag \/ StopFlagsSet \/ ClearDone \/ StopNotify \/ Join \/ StopReturn
  BY <1>9 DEF StopFlag, StopFlagsSet, ClearDone, StopNotify, Join, StopReturn
<1>10. CASE UNCHANGED vars
  BY <1>10 DEF vars
<1> QED
  BY <1>1, <1>2, <1>3, <1>4, <1>5, <1>6, <1>7, <1>8, <1>9, <1>10
     DEF Next, Pusher, Worker, Controller

\* Both pools implement TaskPool: tasks start once, in the order of the queue,
\* and only a pool that is being stopped drops one (Push, SetThread, ClearQueue).
THEOREM ImplementsPool == Spec => PoolSpec
<1>1. Init => Pool!PoolInit
  BY DEF Init, Pool!PoolInit
<1> QED BY <1>1, PoolInvariance, StepImplements, PTL DEF Spec, PoolSpec, Pool!PoolSpec
=============================================================================
