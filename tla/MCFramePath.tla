----------------------------- MODULE MCFramePath -----------------------------
(***************************************************************************)
(* Instance of FramePath: the pipelines that main.cpp builds or has in its *)
(* comments, and one configuration for each way in which another goes      *)
(* wrong.                                                                  *)
(***************************************************************************)
EXTENDS FramePath

MCModuleNames == {"source", "infer", "extract", "warp", "show"}
MCRegistered == {"Source", "Inference", "OpencvDetect", "OpencvExtract",
                 "OpencvWarp", "Show"}
MCProcessors == ("PreprocRetin" :> "pre") @@ ("PostprocRetin" :> "post")

Module(name, class, params, next) ==
    [name |-> name, class |-> class, params |-> params, next |-> next,
     queue_capicity |-> 1]

None == [p \in {} |-> ""]
Path == [path |-> "p"]
SourceParams == [decoder_type |-> "opencv", path |-> "p"]
InferParams == [model_path |-> "m", preproc |-> "PreprocRetin",
                posproc |-> "PostprocRetin"]

source == Module("source", "Source", SourceParams, <<"infer">>)
infer(next) == Module("infer", "Inference", InferParams, <<next>>)
detect(next) == Module("infer", "OpencvDetect", Path, <<next>>)
extract == Module("extract", "OpencvExtract", Path, << >>)
warp(next) == Module("warp", "OpencvWarp", None, next)
show == Module("show", "Show", None, << >>)

\* Offsets of landmarks: eyes, nose, mouth; and a face turned to the left.
Facing == <<<<-1, -1>>, <<1, -1>>, <<0, 0>>, <<-1, 1>>, <<1, 1>>>>
Turned == [Facing EXCEPT ![3] = <<-2, 0>>]

Hit(a, i, j, score, delta, pts) ==
    [level |-> 3, a |-> a, i |-> i, j |-> j, score |-> score, delta |-> delta,
     pts |-> pts]
Still == <<0, 0, 0, 0>>

Image(w, h, hits, faces) == [w |-> w, h |-> h, hits |-> hits, faces |-> faces]

\* A large and two small faces in it that overlap it differently, another that
\* is turned, one below the threshold, and one of equal score far away.
Crowd == Image(64, 64,
    {Hit(1, 3, 3, 95, Still, Facing), Hit(2, 3, 3, 90, <<0, 0, 1, 0>>, Facing),
     Hit(2, 3, 3, 85, <<1, 1, -1, -1>>, Facing), Hit(2, 6, 1, 90, Still, Turned),
     Hit(2, 1, 6, 95, Still, Facing), Hit(2, 6, 6, 80, Still, Facing)},
    <<[x |-> 8, y |-> 8, width |-> 16, height |-> 16]>>)

\* Faces across the left and the lower edge, and no face.
Left == Image(64, 64, {Hit(1, 0, 3, 90, Still, Facing)}, << >>)
Below == Image(64, 64, {Hit(2, 3, 3, 99, Still, Facing), Hit(1, 3, 7, 90, Still, Facing)}, << >>)
Nobody == Image(64, 64, {}, << >>)
\* Left of the image but for less than a pixel; and a frame above the limits.
Sliver == Image(64, 64, {Hit(2, 0, 3, 90, <<-4, 0, 0, 0>>, Facing)}, << >>)
Large == Image(160, 96, {Hit(2, 3, 3, 90, Still, Facing), Hit(2, 7, 2, 85, Still, Facing)},
               <<[x |-> 100, y |-> 70, width |-> 30, height |-> 26]>>)

File(jpg, opens, images) ==
    [hidden |-> FALSE, jpg |-> jpg, still |-> jpg, opens |-> opens,
     images |-> images]
Unread == [File(TRUE, FALSE, << >>) EXCEPT !.still = FALSE]
Dir(files) == [kind |-> "dir", entries |-> files]
Video(images) == [kind |-> "file", entries |-> <<File(FALSE, TRUE, images)>>]

Given(modules, path) ==
    [from |-> "code", parses |-> TRUE, modules |-> modules, path |-> path,
     outputs |-> OutputNum, fails |-> FALSE]

Main == <<source, infer("extract"), extract>>
Warping == <<source, infer("warp"), warp(<<"show">>), show>>

\* Every graph of three modules, each with one successor that there is or is
\* not, or none.
Next1 == {<< >>} \cup {<<n>> : n \in {"source", "infer", "show", "warp"}}
Graphs == {Given(<<[source EXCEPT !.next = a], [detect("show") EXCEPT !.next = b],
                   [show EXCEPT !.next = c]>>, Video(<<Left>>)) :
              a, b, c \in Next1}

MCConfigurations == Graphs \cup
    {Given(Main, Video(<<Crowd, Left, Below>>)),
     Given(Main, Dir(<<[File(FALSE, TRUE, <<Nobody>>) EXCEPT !.hidden = TRUE],
                       File(FALSE, FALSE, <<Nobody>>),
                       File(FALSE, TRUE, <<Large, Left>>)>>)),
     Given(Main, Dir(<<File(TRUE, TRUE, <<Left>>), File(FALSE, TRUE, <<Left>>)>>)),
     [Given(Main, Video(<<Crowd, Left>>)) EXCEPT !.outputs = 8],
     Given(Warping, Video(<<Nobody, Left, Crowd, Large>>)),
     Given(Warping, Video(<<Sliver, Left>>)),
     Given(<<source, infer("show"), show>>, Video(<<Sliver, Left>>)),
     Given(<<source, detect("extract"), extract>>, Video(<<Crowd, Nobody, Large>>)),
     Given(<<source, detect("warp"), warp(<< >>)>>, Video(<<Nobody, Crowd>>)),
     \* one module too many, too few, or twice
     Given(<<source, [infer("show") EXCEPT !.next = <<"show", "extract">>], show,
             extract>>, Video(<<Left>>)),
     Given(<<source, infer("show")>>, Video(<<Left>>)),
     Given(<<source, [source EXCEPT !.next = << >>], infer("show"), show, show>>,
           Video(<<Left>>)),
     Given(<<source, [infer("show") EXCEPT !.name = "source"], show>>, Video(<<Left>>)),
     Given(<<source, infer("show"), show, [warp(<<"show">>) EXCEPT !.name = "source"]>>,
           Video(<<Left, Left>>)),
     Given(<<source, detect("show"), [show EXCEPT !.next = <<"infer">>]>>, Video(<<Left>>)),
     \* wrong classes, parameters, processors, names
     Given(<<source, [infer("show") EXCEPT !.class = "Infer"], show>>, Video(<<Left>>)),
     Given(<<source, detect("show"), [show EXCEPT !.name = "extract"],
             [extract EXCEPT !.params = None, !.name = "show"]>>, Video(<<Left, Left, Left>>)),
     Given(<<source, [infer("show") EXCEPT !.params.posproc = "PreprocRetin"], show>>,
           Video(<<Left>>)),
     Given(<<[source EXCEPT !.params.decoder_type = "ffmpeg"], detect("show"), show>>,
           Video(<<Left>>)),
     Given(<<[source EXCEPT !.name = "extract"], detect("show"), show>>, Video(<<Left>>)),
     \* preprocessing on the device; images that cannot be read; a device that
     \* fails; and the other decoder
     Given(<<source, [infer("show") EXCEPT !.params.preproc = "cncv"], show>>,
           Video(<<Left>>)),
     Given(<<source, detect("show"), show>>, Dir(<<File(FALSE, TRUE, <<Left>>),
                                                   File(TRUE, TRUE, <<Left>>)>>)),
     Given(<<source, detect("extract"), extract>>, Dir(<<Unread>>)),
     Given(<<[source EXCEPT !.next = <<"extract">>], extract>>, Dir(<<Unread>>)),
     Given(<<source, source, infer("show"), show>>, Dir(<<Unread>>)),
     [Given(Warping, Video(<<Sliver, Left, Left, Crowd>>)) EXCEPT !.fails = TRUE],
     Given(<<[source EXCEPT !.params.decoder_type = "codec"], detect("show"), show>>,
           Video(<<Left>>)),
     \* files
     [Given(Main, Video(<<Left>>)) EXCEPT !.from = "file"],
     [Given(Main, Video(<<Left>>)) EXCEPT !.from = "file", !.parses = FALSE]}
=============================================================================
