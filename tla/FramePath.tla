------------------------------ MODULE FramePath ------------------------------
(***************************************************************************)
(* The program from end to end: a configuration is built and started       *)
(* (PipelineGraph), main runs the OpenCV decoder, and every frame goes     *)
(* through the modules that the links give it, each with what its Process  *)
(* does to the frame (Retina for the face detector), until the observer is *)
(* told to stop.                                                           *)
(*                                                                         *)
(* A connector is a queue with a capacity, a batch of Inference is         *)
(* answered in order by a thread of its own, and Stop is one step: the     *)
(* modules Connector, Inference and Lifecycle have the details.            *)
(***************************************************************************)
EXTENDS PipelineGraph, Retina, FiniteSets

CONSTANTS ModuleNames,   \* all names that configurations use
          Batch          \* frames of a request: 4 in the code

ASSUME FramePathAssumption ==
    /\ IsFiniteSet(ModuleNames) /\ "source" \in ModuleNames
    /\ Batch \in Nat \ {0}
    /\ Null \notin Registered /\ "Inference" \in Registered

Moved == [moved |-> TRUE]    \* in stream: an image whose mat_ptr was moved away
NoImage == [empty |-> TRUE]  \* the empty Mat of a file that imread cannot read

\* All of a sequence's elements are in a set.
Lists(S, s) == s \in Seq(Range(s)) /\ Range(s) \subseteq S

\* Of a configuration also the path of the input (path), the outputs of the
\* network (outputs) and whether the device may fail requests (fails) are used.
\* A configuration of a module, and a file: the images that VideoCapture finds in
\* it, of which imread reads the first if it can (still), each with what the
\* network and the classifier find in it.  The classifier's rectangles lie in the
\* image.
IsModuleConfig(v) == /\ v.name \in ModuleNames /\ Lists(ModuleNames, v.next)
                     /\ v.queue_capicity \in Nat
IsRectOf(r, i) == /\ {r.x, r.y, r.width, r.height} \subseteq Nat
                  /\ r.x + r.width <= i.w /\ r.y + r.height <= i.h
IsImage(i) == /\ i \notin {Moved, NoImage}
              /\ i.w \in Nat \ {0} /\ i.h \in Nat \ {0}
              /\ IsFiniteSet(i.hits) /\ \A hit \in i.hits : IsHit(hit)
              /\ i.faces \in Seq(Range(i.faces))
              /\ \A r \in Range(i.faces) : IsRectOf(r, i)
IsFile(f) == /\ f.images \in Seq(Range(f.images))
             /\ f.still => f.images # << >>
             /\ \A i \in Range(f.images) : IsImage(i)

ASSUME ConfigurationsAssumption ==
    \A c \in Configurations :
        /\ c.modules \in Seq(Range(c.modules))
        /\ \A v \in Range(c.modules) : IsModuleConfig(v)
        /\ c.path.entries \in Seq(Range(c.path.entries))
        /\ \A f \in Range(c.path.entries) : IsFile(f)

VARIABLES main,           \* where main is after Start
          stream,         \* what the decoder has still to give
          frames,         \* all frames made, by number
          queue,          \* queue_ of each module's connector
          sending,        \* pushes that TransmitData of a thread has still to do
          batch_array,    \* frames collected by each Inference
          requests,       \* its requests that wait for a response
          late,           \* faces that a task has still to add to a frame
          through,        \* history: the modules that have processed the end
          stop_pipeline,  \* stop_pipeline_ of the observer
          src_points,     \* src_points of each OpencvWarp: the matrices
          warped          \* history: the matrices used for each frame

flowVars == <<queue, sending, batch_array, requests, late>>
endVars == <<through, stop_pipeline>>
warpVars == <<src_points, warped>>
pathVars == <<main, stream, frames, flowVars, endVars, warpVars>>
programVars == <<graphVars, pathVars>>

Threads == ModuleNames \X {"loop", "response"}
Loop(n) == <<n, "loop">>

PathInit ==
    /\ GraphInit
    /\ main = "start"
    /\ stream = << >>
    /\ frames = << >>
    /\ queue = [n \in ModuleNames |-> << >>]
    /\ sending = [t \in Threads |-> << >>]
    /\ batch_array = [n \in ModuleNames |-> << >>]
    /\ requests = [n \in ModuleNames |-> << >>]
    /\ late = {}
    /\ through = {}
    /\ stop_pipeline = FALSE
    /\ src_points = [n \in ModuleNames |-> << >>]
    /\ warped = {}

Crash == /\ phase' = "crashed"
         /\ UNCHANGED <<conf, configs, at, mapVars, linkVars, startVars, pathVars>>

-----------------------------------------------------------------------------
(* The decoder.                                                            *)

\* GetFiles: what is not a directory is taken as it is; a directory gives its
\* entries, without the hidden ones.
GetFiles(path) ==
    IF path.kind = "dir"
    THEN FlattenSeq([k \in DOMAIN path.entries |->
                        IF path.entries[k].hidden THEN << >>
                                                  ELSE <<path.entries[k]>>])
    ELSE path.entries

\* img_flag: one image makes all files of a directory images.
ImgFlag(path) ==
    path.kind = "dir" /\ \E f \in Range(GetFiles(path)) : f.jpg

\* What imread makes of a file is not looked at.
Imread(file) == IF file.still THEN Head(file.images) ELSE NoImage

\* DecoderImg of each file: CreateFrame moves mat_ptr away, and there is no
\* other for the second image.
DecoderImgs(files) ==
    [k \in 1 .. Smaller(Len(files), 2) |->
        IF k = 1 THEN Imread(files[1]) ELSE Moved]

\* A file that does not open is left out.
DecoderVideo(file) == IF file.opens THEN file.images ELSE << >>

\* DecoderOpencv::Loop
Decoded(path) ==
    LET files == GetFiles(path)
    IN  IF ImgFlag(path) THEN DecoderImgs(files)
        ELSE FlattenSeq([k \in DOMAIN files |-> DecoderVideo(files[k])])

-----------------------------------------------------------------------------
(* TransmitData, DoProcess and RightMove.                                  *)

\* The pushes for a frame that module n gives on.
Pushes(n, f) == [k \in DOMAIN output_connectors[n] |->
                    [frame |-> f, to |-> output_connectors[n][k]]]

Transmitted(t) == sending[t] = << >>

\* A push waits for room, or for the stop of the connector.
Transmit(t) ==
    /\ ~Transmitted(t)
    /\ LET push == Head(sending[t]) IN
       \/ /\ Len(queue[push.to]) < connector[push.to]
          /\ queue' = [queue EXCEPT ![push.to] = Append(@, push.frame)]
       \/ /\ Len(queue[push.to]) >= connector[push.to]
          /\ phase = "stopped"
          /\ UNCHANGED queue
    /\ sending' = [sending EXCEPT ![t] = Tail(@)]
    /\ UNCHANGED <<graphVars, main, stream, frames, batch_array, requests, late,
                   endVars, warpVars>>

\* Mutant of RightMove: one end of the stream too early.
RightMoveEarly(n) ==
    /\ run_id' = IF run_id = 0 THEN 0 ELSE run_id - 1
    /\ stop_pipeline' = (stop_pipeline \/ run_id' <= 2)
    /\ through' = through \cup {n}
    /\ UNCHANGED <<conf, configs, at, phase, mapVars, linkVars, opened>>

\* Mutant of RightMove: run_id_ is tested before it is shifted.
RightMoveLate(n) ==
    /\ run_id' = IF run_id = 0 THEN 0 ELSE run_id - 1
    /\ stop_pipeline' = (stop_pipeline \/ run_id = 1)
    /\ through' = through \cup {n}
    /\ UNCHANGED <<conf, configs, at, phase, mapVars, linkVars, opened>>

\* run_id_ is shifted to the right, and the observer told when it is 1.
RightMove(n) ==
    /\ run_id' = IF run_id = 0 THEN 0 ELSE run_id - 1
    /\ stop_pipeline' = (stop_pipeline \/ run_id' = 1)
    /\ through' = through \cup {n}
    /\ UNCHANGED <<conf, configs, at, phase, mapVars, linkVars, opened>>

-----------------------------------------------------------------------------
(* main: GetModule("source"), AddDecoder, Source::Run, and the wait.       *)

Running == phase \in {"run", "stopped"}

\* Without an opened Source of that name main dereferences a null pointer.
MainCrash ==
    /\ phase \in {"run", "failed"}
    /\ main = "start"
    /\ "source" \in opened => modules_map["source"] # "Source"
    /\ Crash

Codec == /\ modules_map["source"] = "Source"
         /\ ParamSet("source")["decoder_type"] = "codec"

\* Source::Run with a DecoderOpencv; module DecoderCodec has the other.
MainRun ==
    /\ phase \in {"run", "failed"}
    /\ main = "start"
    /\ "source" \in opened
    /\ modules_map["source"] = "Source"
    /\ ~Codec
    /\ main' = "run"
    /\ stream' = Decoded(conf.path)
    /\ UNCHANGED <<graphVars, frames, flowVars, endVars, warpVars>>

\* FAFrameInfo::Create, the FAFrame, and DoProcess of Source.
SourceFrame ==
    /\ main = "run" /\ phase # "crashed"
    /\ Transmitted(Loop("source"))
    /\ stream # << >>
    /\ Head(stream) # Moved
    /\ stream' = Tail(stream)
    /\ frames' = Append(frames, [eos |-> FALSE, image |-> Head(stream),
                                 objs |-> << >>])
    /\ sending' = [sending EXCEPT
                     ![Loop("source")] = Pushes("source", Len(frames) + 1)]
    /\ UNCHANGED <<graphVars, main, queue, batch_array, requests, late, endVars,
                   warpVars>>

\* *img = cv::imread(path) with a null img.
SourceCrash ==
    /\ main = "run" /\ phase # "crashed"
    /\ Transmitted(Loop("source"))
    /\ stream # << >>
    /\ Head(stream) = Moved
    /\ Crash

SourceEos ==
    /\ main = "run" /\ phase # "crashed"
    /\ Transmitted(Loop("source"))
    /\ stream = << >>
    /\ main' = "eos"
    /\ frames' = Append(frames, [eos |-> TRUE])
    /\ RightMove("source")
    /\ sending' = [sending EXCEPT
                     ![Loop("source")] = Pushes("source", Len(frames) + 1)]
    /\ UNCHANGED <<stream, queue, batch_array, requests, late, warpVars>>

\* while (pipeline.IsRunning()) {}
MainExit ==
    /\ main = "eos"
    /\ Transmitted(Loop("source"))
    /\ phase \in {"stopped", "failed"}
    /\ main' = "exit"
    /\ UNCHANGED <<graphVars, stream, frames, flowVars, endVars, warpVars>>

-----------------------------------------------------------------------------
(* TaskLoop with the Process of each class.                                *)

\* The frame that TaskLoop of n takes from its connector, if it has one and a
\* thread: there is none for the name "source".
Takes(n) ==
    /\ phase = "run"
    /\ n \in Names \ {"source"}
    /\ Transmitted(Loop(n))
    /\ queue[n] # << >>

Taken(n) == Head(queue[n])
Faces(n) == frames[Taken(n)].objs

\* Inference holds its frames, all others give theirs on at once; what
\* Process returns is ignored.
TakeAndPass(n) ==
    /\ queue' = [queue EXCEPT ![n] = Tail(@)]
    /\ sending' = [sending EXCEPT ![Loop(n)] = Pushes(n, Taken(n))]

ProcessEos(n) ==
    /\ Takes(n)
    /\ frames[Taken(n)].eos
    /\ TakeAndPass(n)
    /\ RightMove(n)
    /\ UNCHANGED <<main, stream, frames, batch_array, requests, late, warpVars>>

\* Preprocessing on the device is given the packet of the codec.
OnDevice(n) == HasParams(n, {"preproc"}) /\ ParamSet(n)["preproc"] = "cncv"

\* Inference::Process dereferences the packet that OpenCV's frames do not have.
CollectCrash(n) ==
    /\ Takes(n) /\ ~frames[Taken(n)].eos
    /\ modules_map[n] = "Inference"
    /\ OnDevice(n)
    /\ Crash

\* Inference::Process: a full batch becomes a request.
Collect(n) ==
    /\ Takes(n) /\ ~frames[Taken(n)].eos
    /\ modules_map[n] = "Inference"
    /\ ~OnDevice(n)
    /\ queue' = [queue EXCEPT ![n] = Tail(@)]
    /\ LET batch == Append(batch_array[n], Taken(n)) IN
       IF Len(batch) = Batch
       THEN /\ requests' = [requests EXCEPT ![n] = Append(@, batch)]
            /\ batch_array' = [batch_array EXCEPT ![n] = << >>]
       ELSE /\ batch_array' = [batch_array EXCEPT ![n] = batch]
            /\ UNCHANGED requests
    /\ UNCHANGED <<graphVars, main, stream, frames, sending, late, endVars, warpVars>>

\* What Postprocess may make of each image that the configurations have.
Images == UNION {UNION {Range(f.images) : f \in Range(c.path.entries)} :
                    c \in Configurations}
Found == {[image |-> i, outputs |-> o, results |-> Postprocess(i, o)] :
            i \in Images, o \in {c.outputs : c \in Configurations}}

Outcomes(f) ==
    UNION {x.results : x \in {y \in Found : /\ y.image = frames[f].image
                                            /\ y.outputs = conf.outputs}}

WithFaces(fs, f, objs) == [fs EXCEPT ![f].objs = @ \o objs]

\* Frames that have no data in the response of a failed request.  The device may
\* fail one of any frames, and preprocessing throws on an empty Mat, with which
\* other frames may be in a batch of the infer server.
Imageless(f) == ~frames[f].eos /\ frames[f].image = NoImage
MayFail == conf.fails \/ \E f \in DOMAIN frames : Imageless(f)
NullData(batch) ==
    {nulls \in SUBSET (1 .. Batch) :
        /\ nulls # {} => MayFail
        /\ \A k \in 1 .. Batch : Imageless(batch[k]) => k \in nulls}

Nothing == [objs |-> << >>, thrown |-> FALSE]

\* DoResponse of the tasks of a batch, but for those behind.
AllWithFaces(batch, result, behind) ==
    [f \in DOMAIN frames |->
        IF f \notin Range(batch) THEN frames[f]
        ELSE [frames[f] EXCEPT !.objs = @ \o
                FlattenSeq([k \in 1 .. Batch |->
                    IF batch[k] = f /\ k \notin behind THEN result[k].objs
                                                      ELSE << >>])]]

\* Response waits for the tasks of a batch in order.  After the first that
\* throws it no longer waits: the rest may go on when the frames, of which all
\* are transmitted, are on their way.
Respond(n) ==
    /\ phase = "run"
    /\ requests[n] # << >>
    /\ Transmitted(<<n, "response">>)
    /\ LET batch == Head(requests[n]) IN
       /\ \E nulls \in NullData(batch) :
          \E result \in [1 .. Batch -> {Nothing} \cup UNION {Outcomes(f) : f \in Range(batch)}] :
            /\ \A k \in 1 .. Batch :
                 result[k] \in IF k \in nulls THEN {Nothing} ELSE Outcomes(batch[k])
            /\ \E behind \in SUBSET {k \in 1 .. Batch :
                                       \E j \in 1 .. k - 1 : result[j].thrown} :
                 /\ nulls \subseteq behind
                 /\ late' = late \cup
                      {[frame |-> batch[k], at |-> k, objs |-> result[k].objs,
                        null |-> k \in nulls] : k \in behind}
                 /\ frames' = AllWithFaces(batch, result, behind)
       /\ sending' = [sending EXCEPT ![<<n, "response">>] =
                        FlattenSeq([k \in 1 .. Batch |-> Pushes(n, batch[k])])]
    /\ requests' = [requests EXCEPT ![n] = Tail(@)]
    /\ UNCHANGED <<graphVars, main, stream, queue, batch_array, endVars,
                   warpVars>>

\* It goes on after a failed status: the task of a frame without data, if it is
\* one that Response waits for, ends the process here.
RespondCrash(n) ==
    /\ phase = "run"
    /\ requests[n] # << >>
    /\ Transmitted(<<n, "response">>)
    /\ MayFail
    /\ Crash

\* A task that Response has not waited for adds its faces.
Finish ==
    /\ phase # "crashed"
    /\ \E x \in late :
         /\ ~x.null
         /\ frames' = WithFaces(frames, x.frame, x.objs)
         /\ late' = late \ {x}
    /\ UNCHANGED <<graphVars, main, stream, queue, sending, batch_array, requests,
                   endVars, warpVars>>

\* It has no data.
FinishCrash ==
    /\ phase # "crashed"
    /\ \E x \in late : x.null
    /\ Crash

\* OpencvDetect: what the classifier found; these faces have no landmarks.
DetectedFace(r, image) ==
    [score |-> 0, x |-> Larger(r.x, 0), y |-> Larger(r.y, 0),
     w |-> Smaller(r.width, image.w), h |-> Smaller(r.height, image.h),
     fp |-> << >>, rect |-> r]

Detect(n) ==
    /\ Takes(n) /\ ~frames[Taken(n)].eos
    /\ modules_map[n] = "OpencvDetect"
    /\ ~Imageless(Taken(n))
    /\ LET image == frames[Taken(n)].image IN
       frames' = [frames EXCEPT ![Taken(n)].objs = @ \o
                    [k \in DOMAIN image.faces |->
                        DetectedFace(image.faces[k], image)]]
    /\ TakeAndPass(n)
    /\ UNCHANGED <<graphVars, main, stream, batch_array, requests, late, endVars,
                   warpVars>>

\* cvtColor throws on an empty Mat.
DetectCrash(n) ==
    /\ Takes(n)
    /\ modules_map[n] = "OpencvDetect"
    /\ Imageless(Taken(n))
    /\ Crash

\* OpencvExtract draws into the image; Source and a frame without faces: nothing.
PassOn(n) ==
    /\ Takes(n) /\ ~frames[Taken(n)].eos
    /\ \/ modules_map[n] \in {"OpencvExtract", "Source"}
       \/ modules_map[n] \in {"OpencvWarp", "Show"} /\ Faces(n) = << >>
    /\ TakeAndPass(n)
    /\ UNCHANGED <<graphVars, main, stream, frames, batch_array, requests, late,
                   endVars, warpVars>>

Empty(o) == o.rect.width = 0 \/ o.rect.height = 0

\* imshow of the first face throws if it has no pixels.
Show(n) ==
    /\ Takes(n) /\ ~frames[Taken(n)].eos
    /\ modules_map[n] = "Show"
    /\ Faces(n) # << >>
    /\ IF Empty(Head(Faces(n)))
       THEN Crash
       ELSE /\ TakeAndPass(n)
            /\ UNCHANGED <<graphVars, main, stream, frames, batch_array,
                           requests, late, endVars, warpVars>>

\* GetTransFormMatrix adds one matrix per face to src_points and throws without
\* three landmarks.
Matrices(n) == src_points[n] \o [k \in DOMAIN Faces(n) |-> <<Taken(n), k>>]

\* Mutant of WarpCrashes: the transform takes all five landmarks.
WarpCrashesFive(n) == \/ \E o \in Range(Faces(n)) : Len(o.fp) # 5
                      \/ Empty(Head(Faces(n)))

WarpCrashes(n) == \/ \E o \in Range(Faces(n)) : Len(o.fp) # 3
                  \/ Empty(Head(Faces(n)))

\* Warp applies the first Len(Faces) matrices it has, all to the first face.
Warp(n) ==
    /\ Takes(n) /\ ~frames[Taken(n)].eos
    /\ modules_map[n] = "OpencvWarp"
    /\ Faces(n) # << >>
    /\ IF WarpCrashes(n)
       THEN Crash
       ELSE /\ src_points' = [src_points EXCEPT ![n] = Matrices(n)]
            /\ warped' = warped \cup
                 {[by |-> n, frame |-> Taken(n),
                   matrices |-> SubSeq(Matrices(n), 1, Len(Faces(n)))]}
            /\ TakeAndPass(n)
            /\ UNCHANGED <<graphVars, main, stream, frames, batch_array,
                           requests, late, endVars>>

\* The observer calls Stop: the queues are emptied, the threads joined, the
\* modules closed.
ObserverStop ==
    /\ phase = "run"
    /\ stop_pipeline
    /\ phase' = "stopped"
    /\ queue' = [n \in ModuleNames |-> << >>]
    /\ sending' = [t \in Threads |->
                     IF t = Loop("source") THEN sending[t] ELSE << >>]
    /\ UNCHANGED <<conf, configs, at, mapVars, linkVars, startVars, main, stream,
                   frames, batch_array, requests, late, endVars, warpVars>>

-----------------------------------------------------------------------------
Decode == MainCrash \/ MainRun \/ SourceFrame \/ SourceCrash \/ SourceEos
          \/ MainExit

Process(n) == ProcessEos(n) \/ Collect(n) \/ Detect(n) \/ PassOn(n) \/ Show(n)
              \/ Warp(n)

\* What is dereferenced or thrown for want of a packet, an image or data.
Missing(n) == CollectCrash(n) \/ DetectCrash(n) \/ RespondCrash(n)

Flow == \/ Decode
        \/ \E n \in ModuleNames : Process(n) \/ Respond(n) \/ Missing(n)
        \/ Finish \/ FinishCrash
        \/ \E t \in Threads : phase # "crashed" /\ Transmit(t)
        \/ ObserverStop

PathNext == ((Build \/ Start) /\ UNCHANGED pathVars) \/ Flow

PathSpec == PathInit /\ [][PathNext]_programVars

\* The threads are joined in an order that does not matter: it is enough that
\* some thread goes on as long as one can.
PathFairSpec == PathSpec /\ WF_programVars(PathNext)

-----------------------------------------------------------------------------
(* Properties.                                                             *)

Unique(ms) == IsInjective([i \in DOMAIN ms |-> ms[i].name])

\* The configuration names every module once and links to modules it has.
Consistent ==
    /\ Unique(conf.modules)
    /\ \A v \in Range(conf.modules) :
         v.next # << >> => \E u \in Range(conf.modules) : u.name = Head(v.next)

PathTypeOK ==
    /\ conf \in Configurations
    /\ phase \in Phases \cup {"stopped"}
    /\ main \in {"start", "run", "eos", "exit"}
    /\ at \in 0 .. Len(configs)
    /\ Names \subseteq ModuleNames
    /\ run_id \in 0 .. Cardinality(ModuleNames) + 1
    /\ opened \subseteq Names /\ through \subseteq Names
    /\ \A n \in ModuleNames : Range(queue[n]) \subseteq DOMAIN frames

\* Where a module stands in the links of another.
Ends(links, n) == {k \in DOMAIN links : links[k] = n}

\* What TransmitData asserts of every link, and each link in both directions.
LinksAgree ==
    \A m \in DOMAIN output_connectors :
        \A n \in Range(output_connectors[m]) :
            /\ n \in DOMAIN connector
            /\ Cardinality(Ends(output_connectors[m], n))
               = Cardinality(Ends(input_connectors[n], m))

\* A consistent configuration in the code becomes the graph it describes.  One
\* in a file never does: its modules are lost.
BuiltAsConfigured ==
    (phase \in {"open", "run"} /\ conf.from = "code" /\ Consistent) =>
        /\ Names = {v.name : v \in Range(conf.modules)}
        /\ \A v \in Range(conf.modules) :
             /\ modules_map[v.name] = v.class
             /\ ParamSet(v.name) = v.params
             /\ output_connectors[v.name]
                = SubSeq(v.next, 1, Smaller(Len(v.next), 1))

\* Each connector holds no more than its capacity, whatever replaced it.
Bounded == \A n \in Names : modules_map[n] # Null => Len(queue[n]) <= connector[n]

\* The built graph (BuildPipeline, LinkModules): the links agree, are those of
\* the configuration, and TransmitData's assertions on them hold.
GraphInv == PathTypeOK /\ LinksAgree /\ BuiltAsConfigured /\ Bounded

\* Some module is linked into twice, so that the end of the stream reaches it
\* twice.
FanIn == \E n \in DOMAIN input_connectors : Len(input_connectors[n]) > 1

\* RightMove counts ends of the stream, not modules: the observer is told only
\* when every module has processed the end, as long as no module is linked into
\* twice (a name used twice, two predecessors, a cycle).
ToldWhenThrough == stop_pipeline => through = Names \/ FanIn

\* The links lead from "source" to every module, without a branch.
Chain ==
    \E s \in SetToSeqs(Names) :
        /\ s # << >> /\ Head(s) = "source"
        /\ \A k \in DOMAIN s :
             output_connectors[s[k]] = SubSeq(s, k + 1, Smaller(k + 1, Len(s)))

\* What a chain that was opened and has OpenCV's decoder is given comes to an end: main returns, unless
\* the process ended before (Start, Run, RightMove, Observer).
EndsOnChain ==
    (phase = "run" /\ opened = Names /\ Chain /\ ~Codec)
        ~> (main = "exit" \/ phase = "crashed")

\* The first of several files that imread is to read is not an image.
Unreadable(path) == ImgFlag(path) /\ ~Head(GetFiles(path)).still

HasClass(c) == \E n \in Names : modules_map[n] = c

\* Why the process may end before its time, in terms of what it was given: a
\* configuration from a file, an unknown class, successor, processor or a source
\* that cannot be found or opened; a second image; preprocessing on the device of
\* frames that do not come from the codec; an image that cannot be read, before a
\* module that uses its pixels; a device that fails a request; a warp of faces
\* without landmarks; and a face without pixels that is warped or shown.
CrashExplained ==
    phase = "crashed" =>
        \/ conf.from # "code" \/ ~Consistent
        \/ \E v \in Range(conf.modules) : v.class \notin Registered
        \/ \E n \in Names : OpenCrashes(n)
        \/ "source" \in opened => modules_map["source"] # "Source"
        \/ ImgFlag(conf.path) /\ Len(GetFiles(conf.path)) > 1
        \/ \E n \in Names : modules_map[n] = "Inference" /\ OnDevice(n)
        \/ Unreadable(conf.path) /\ (HasClass("OpencvDetect") \/ HasClass("Inference"))
        \/ conf.fails /\ HasClass("Inference")
        \/ HasClass("OpencvWarp") /\ HasClass("OpencvDetect")
        \/ /\ HasClass("OpencvWarp") \/ HasClass("Show")
           /\ \E f \in DOMAIN frames :
                ~frames[f].eos /\ \E o \in Range(frames[f].objs) : Empty(o)

-----------------------------------------------------------------------------
(* The faces.                                                              *)

\* A frame is warped with the matrices of its own faces, unless an earlier
\* frame had faces: src_points is never cleared.
OwnMatrices ==
    \A x \in warped :
        \/ \A k \in DOMAIN x.matrices : x.matrices[k] = <<x.frame, k>>
        \/ \E y \in warped : y.by = x.by /\ y.frame < x.frame

\* Frames that Inference has given on and its successor has not yet taken.
Answered ==
    UNION {{push.frame : push \in Range(sending[<<n, "response">>])}
           \cup UNION {Range(queue[m]) : m \in Range(output_connectors[n])} :
           n \in {m \in Names : modules_map[m] = "Inference"}}

\* Every face of a frame, and every one still to be added to it, lies in its
\* image.
FacesInImage ==
    /\ \A f \in DOMAIN frames : ~frames[f].eos =>
         \A o \in Range(frames[f].objs) : RectOK(o, frames[f].image)
    /\ \A x \in late : \A o \in Range(x.objs) : RectOK(o, frames[x.frame].image)

\* No module is linked into twice, and no two modules look for faces.
OneDetector ==
    /\ ~FanIn
    /\ \A m, n \in Names :
         {modules_map[m], modules_map[n]} \subseteq {"Inference", "OpencvDetect"} => m = n

\* Every face lies in its image.  Where no other module looks for faces, those
\* that Inference gives on are what a detector of distinct, frontal faces
\* promises, once the task of the frame has ended; and a frame that comes to a
\* module once is warped by its own matrices (FilterAnchor, nms_cpu,
\* Postprocess, DetectObjs, Response, OpencvWarp).
FacesSound ==
    /\ FacesInImage
    /\ (OneDetector /\ conf.outputs = OutputNum) =>
         \A f \in Answered :
           (~frames[f].eos /\ \A x \in late : x.frame # f) =>
             Answers(frames[f].objs, frames[f].image)
    /\ ~FanIn => OwnMatrices
=============================================================================
