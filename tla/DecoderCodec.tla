---------------------------- MODULE DecoderCodec -----------------------------
(***************************************************************************)
(* The hardware decoder of Source (modules/decoder/src/source.cpp, class   *)
(* DecoderCodec, with VideoParser::ParseLoop of ffmpeg.cpp).  DemuxLoop    *)
(* reads packets and feeds edk::EasyDecode; threads of EasyDecode call     *)
(* ReceiveFrame and ReceiveEos; RunLoop takes the frames off frames_ and   *)
(* sends them down the pipeline, and at last the end of the stream.        *)
(*                                                                         *)
(* A frame keeps an output buffer of the decoder until it is given back:   *)
(* by PreprocRetin::Execute if the preprocessing runs on the host, and by  *)
(* the destructor of the frame in any case.                                *)
(*                                                                         *)
(* EasyDecode is external; it may refuse or throw at any packet, but makes *)
(* one frame of every packet it took.  So is FFmpeg: a file is the streams *)
(* and the packets it finds in it.  What holds mut_ is one step.           *)
(***************************************************************************)
EXTENDS Integers, Sequences, SequencesExt, FiniteSetsExt

CONSTANTS Files,          \* the files a source may be given
          N,              \* packets of a file, at most
          InputBuffers,   \* attr.input_buffer_num: 8
          OutputBuffers,  \* attr.output_buffer_num: 8
          Batch           \* frames Inference collects: 4

ASSUME CodecAssumption == /\ N \in Nat
                          /\ InputBuffers \in Nat \ {0}
                          /\ Batch \in Nat \ {0}
                          /\ OutputBuffers \in Nat /\ OutputBuffers >= Batch
                          /\ \A f \in Files :
                                /\ f.packets \in Seq([stream : Nat, key : BOOLEAN])
                                /\ Len(f.packets) <= N
                                /\ f.extra \in BOOLEAN

Packets == 1 .. N
Eos == N + 1
Buffers == 1 .. OutputBuffers

\* Names of container formats that Open looks for.
Containers == {"mp4", "flv", "matroska", "h264", "rtsp"}

\* video_index_: the first video stream of a file, or -1.
VideoIndex(f) ==
    LET videos == {i \in DOMAIN f.streams : f.streams[i] = "video"}
    IN  IF videos = {} THEN -1 ELSE Min(videos) - 1

\* What VideoParser::Open accepts.  It goes on without a video stream, with
\* the last stream of the file; then only a container it knows makes it look
\* at the codec, and the codec of a stream that is no video is not one of two.
Opens(f) ==
    /\ f.streams # << >>
    /\ f.container \in Containers =>
           VideoIndex(f) # -1 /\ f.codec \in {"h264", "hevc"}

IsVideo(f, i) == f.packets[i].stream = VideoIndex(f)

VARIABLES file,          \* what the source reads
          host,          \* the preprocessing is not "cncv"
          running,       \* running_
          receive_eos,   \* receive_eos_
          send_eos,      \* send_eos_ of the demux_event_handle_
          dpc, read,     \* where DemuxLoop is, and the last packet it read
          first_frame_,  \* no key frame has been read
          codec,         \* the packets inside EasyDecode
          frames_,       \* the decoded frames that wait for RunLoop
          rpc, hand,     \* where RunLoop is, and the frame it holds
          out,           \* history: what RunLoop has sent down the pipeline
          free, buf,     \* the free buffers, and the buffer of each frame
          executed,      \* frames the preprocessing has given back
          destroyed,     \* frames whose destructor has run
          late,          \* history: DemuxLoop ended before the decoder did
          refused,       \* history: the packet that FeedData refused, or 0
          thrown         \* history: EasyDecode has thrown

demuxVars == <<dpc, read, first_frame_, late, refused, thrown>>
decoderVars == <<codec, receive_eos>>
runVars == <<rpc, hand, out>>
bufferVars == <<free, buf>>
ownerVars == <<file, host, executed, destroyed>>
vars == <<file, host, running, receive_eos, send_eos, dpc, read, first_frame_,
          codec, frames_, rpc, hand, out, free, buf, executed, destroyed, late,
          refused, thrown>>

Init == /\ file \in Files
        /\ host \in BOOLEAN
        /\ running = FALSE
        /\ receive_eos = FALSE
        /\ send_eos = FALSE
        /\ dpc = "open"
        /\ read = 0
        /\ first_frame_ = TRUE
        /\ codec = << >>
        /\ frames_ = << >>
        /\ rpc = "open"
        /\ hand = 0
        /\ out = << >>
        /\ free = Buffers
        /\ buf = [f \in Packets |-> 0]
        /\ executed = {}
        /\ destroyed = {}
        /\ late = FALSE
        /\ refused = 0
        /\ thrown = FALSE

Demux(from, to) == dpc = from /\ dpc' = to
Run(from, to) == rpc = from /\ rpc' = to

-----------------------------------------------------------------------------
(* The constructor, and Loop.                                              *)

\* The file is open and the decoder created; Loop starts the two threads.
Loop ==
    /\ Opens(file)
    /\ Demux("open", "test")
    /\ Run("open", "test")
    /\ running' = TRUE
    /\ UNCHANGED <<read, first_frame_, late, refused, thrown, send_eos,
                   decoderVars, frames_, hand, out, bufferVars, ownerVars>>

\* Open fails, or New does: in a container that Open does not know it leaves
\* codec_type as it was, which is anything.  Nobody catches the exception.
ConstructorThrows ==
    /\ ~Opens(file) \/ file.container \notin Containers
    /\ Demux("open", "crashed")
    /\ UNCHANGED <<read, first_frame_, late, refused, thrown, running, send_eos,
                   decoderVars, frames_, runVars, bufferVars, ownerVars>>

-----------------------------------------------------------------------------
(* DemuxLoop.                                                              *)

DemuxTest ==
    /\ Demux("test", CASE ~running   -> "after"
                        [] file.extra -> "extra"
                        [] OTHER      -> "parse")
    /\ UNCHANGED <<read, first_frame_, late, refused, thrown, running, send_eos,
                   decoderVars, frames_, runVars, bufferVars, ownerVars>>

\* FeedData blocks as long as the decoder has no input buffer.
Feed(packet) ==
    /\ Len(codec) < InputBuffers
    /\ codec' = Append(codec, packet)

\* The extra data of the stream, 0, goes before all packets.
FeedExtra ==
    /\ Demux("extra", "parse")
    /\ Feed(0)
    /\ UNCHANGED <<read, first_frame_, late, refused, thrown, running, send_eos,
                   receive_eos, frames_, runVars, bufferVars, ownerVars>>

\* A turn of ParseLoop begins and av_read_frame finds a packet.
Reads(packet) ==
    /\ running
    /\ packet = read + 1 /\ packet \in DOMAIN file.packets
    /\ read' = packet

\* Mutant of Skips: any packet of the video may be the first one.
SkipsNoKeyTest(packet) == ~IsVideo(file, packet)

\* continue: the packet is of another stream or comes before the key frame.
Skips(packet) ==
    \/ ~IsVideo(file, packet)
    \/ first_frame_ /\ ~file.packets[packet].key

SkipPacket(packet) ==
    /\ Demux("parse", "parse")
    /\ Reads(packet)
    /\ Skips(packet)
    /\ UNCHANGED <<first_frame_, late, refused, thrown, running, send_eos,
                   decoderVars, frames_, runVars, bufferVars, ownerVars>>

ParsePacket(packet) ==
    /\ Demux("parse", "parse")
    /\ Reads(packet)
    /\ ~Skips(packet)
    /\ first_frame_' = FALSE
    /\ Feed(packet)
    /\ UNCHANGED <<late, refused, thrown, running, send_eos, receive_eos,
                   frames_, runVars, bufferVars, ownerVars>>

\* FeedData refuses a packet of the stream, which ends it like the last one.
FeedRefused(packet) ==
    /\ Demux("parse", "sendEos")
    /\ Reads(packet)
    /\ ~Skips(packet)
    /\ first_frame_' = FALSE
    /\ refused' = packet
    /\ UNCHANGED <<late, thrown, running, send_eos, decoderVars, frames_,
                   runVars, bufferVars, ownerVars>>

\* Where av_read_frame fails OnEos only logs and the loop goes on with a packet
\* that is blank: of stream 0, no key frame and empty.  So it repeats for ever
\* unless the video is stream 0 and has begun; then FeedData refuses it.
EndRefused ==
    /\ read = Len(file.packets)
    /\ VideoIndex(file) = 0
    /\ ~first_frame_

\* ParseLoop returns 1: the decoder runs no more, or OnPacket was FALSE.
ParseReturns ==
    /\ ~running \/ EndRefused
    /\ Demux("parse", "sendEos")
    /\ UNCHANGED <<read, first_frame_, late, refused, thrown, running, send_eos,
                   decoderVars, frames_, runVars, bufferVars, ownerVars>>

SendEos ==
    /\ Demux("sendEos", "after")
    /\ send_eos' = TRUE
    /\ UNCHANGED <<read, first_frame_, late, refused, thrown, running,
                   decoderVars, frames_, runVars, bufferVars, ownerVars>>

\* FeedData or FeedEos throws, or the extra data is refused; the catch calls
\* Stop.
FeedThrows ==
    /\ \E at \in {"extra", "parse", "sendEos"} : Demux(at, "after")
    /\ thrown' = TRUE
    /\ running' = FALSE
    /\ UNCHANGED <<read, first_frame_, late, refused, send_eos, decoderVars,
                   frames_, runVars, bufferVars, ownerVars>>

\* if (Running()) SendEos(), which an EOS that was sent makes a no-op; then
\* DemuxLoop sleeps for a second.
AfterLoop ==
    /\ Demux("after", "sleep")
    /\ send_eos' = (send_eos \/ running)
    /\ UNCHANGED <<read, first_frame_, late, refused, thrown, running,
                   decoderVars, frames_, runVars, bufferVars, ownerVars>>

\* Mutant of DemuxEnd: Stop is called whether frames wait or not.
DemuxEndStops ==
    /\ Demux("sleep", "end")
    /\ running' = FALSE
    /\ late' = ~receive_eos
    /\ UNCHANGED <<read, first_frame_, refused, thrown, send_eos, decoderVars,
                   frames_, runVars, bufferVars, ownerVars>>

\* if (frames_.empty()) Stop();
DemuxEnd ==
    /\ Demux("sleep", "end")
    /\ running' = (running /\ frames_ # << >>)
    /\ late' = ~receive_eos
    /\ UNCHANGED <<read, first_frame_, refused, thrown, send_eos, decoderVars,
                   frames_, runVars, bufferVars, ownerVars>>

-----------------------------------------------------------------------------
(* EasyDecode and its callbacks.                                           *)

\* There is no frame in the extra data.
DecodeExtra ==
    /\ codec # << >> /\ Head(codec) = 0
    /\ codec' = Tail(codec)
    /\ UNCHANGED <<running, receive_eos, send_eos, demuxVars, frames_, runVars,
                   bufferVars, ownerVars>>

ReceiveFrame(b) ==
    /\ codec # << >> /\ Head(codec) # 0
    /\ b \in free
    /\ codec' = Tail(codec)
    /\ frames_' = Append(frames_, Head(codec))
    /\ free' = free \ {b}
    /\ buf' = [buf EXCEPT ![Head(codec)] = b]
    /\ UNCHANGED <<running, receive_eos, send_eos, demuxVars, runVars,
                   ownerVars>>

\* receive_eos_ is set, without a lock and without a notification.
ReceiveEos ==
    /\ send_eos /\ codec = << >> /\ ~receive_eos
    /\ receive_eos' = TRUE
    /\ UNCHANGED <<running, send_eos, demuxVars, codec, frames_, runVars,
                   bufferVars, ownerVars>>

-----------------------------------------------------------------------------
(* RunLoop.                                                                *)

RunTest ==
    /\ Run("test", IF running THEN "wait" ELSE "finish")
    /\ UNCHANGED <<hand, out, running, send_eos, demuxVars, decoderVars,
                   frames_, bufferVars, ownerVars>>

RunPop ==
    /\ Run("wait", "process")
    /\ frames_ # << >>
    /\ hand' = Head(frames_)
    /\ frames_' = Tail(frames_)
    /\ UNCHANGED <<out, running, send_eos, demuxVars, decoderVars, bufferVars,
                   ownerVars>>

\* wait_for is over and there is still no frame: continue.
RunTimeout ==
    /\ Run("wait", "test")
    /\ frames_ = << >>
    /\ UNCHANGED <<hand, out, running, send_eos, demuxVars, decoderVars,
                   frames_, bufferVars, ownerVars>>

\* Mutant of Process: the buffer is given back as soon as Pkt2Mat has copied.
ProcessReleases ==
    /\ Run("process", "testEos")
    /\ out' = Append(out, hand)
    /\ free' = free \union {buf[hand]}
    /\ UNCHANGED <<buf, hand, running, send_eos, demuxVars, decoderVars,
                   frames_, ownerVars>>

\* Process copies the frame and sends it down the pipeline.
Process ==
    /\ Run("process", "testEos")
    /\ out' = Append(out, hand)
    /\ UNCHANGED <<hand, running, send_eos, demuxVars, decoderVars, frames_,
                   bufferVars, ownerVars>>

\* Mutant of TestEos: nothing ends the loop but Stop.
TestEosNot ==
    /\ Run("testEos", "test")
    /\ UNCHANGED <<hand, out, running, send_eos, demuxVars, decoderVars,
                   frames_, bufferVars, ownerVars>>

\* if (frames_.size() == 0 && receive_eos_.load()) break;
TestEos ==
    /\ Run("testEos", IF frames_ = << >> /\ receive_eos THEN "finish" ELSE "test")
    /\ UNCHANGED <<hand, out, running, send_eos, demuxVars, decoderVars,
                   frames_, bufferVars, ownerVars>>

\* running_.store(false), then the frame that marks the end of the stream.
Finish ==
    /\ Run("finish", "eos")
    /\ running' = FALSE
    /\ UNCHANGED <<hand, out, send_eos, demuxVars, decoderVars, frames_,
                   bufferVars, ownerVars>>

ProcessEos ==
    /\ Run("eos", "end")
    /\ out' = Append(out, Eos)
    /\ UNCHANGED <<hand, running, send_eos, demuxVars, decoderVars, frames_,
                   bufferVars, ownerVars>>

-----------------------------------------------------------------------------
(* The pipeline behind Source.  Inference keeps a frame until the batch it *)
(* is in is complete.                                                      *)

\* The frames among what has arrived.
Sent == IF out # << >> /\ Last(out) = Eos THEN Front(out) ELSE out
Requested ==
    {Sent[i] : i \in 1 .. Batch * (Len(Sent) \div Batch)} \ destroyed

ReleaseBuffer(f) == free' = free \union {buf[f]} /\ UNCHANGED buf

\* PreprocRetin::Execute.
Execute(f) ==
    /\ host
    /\ f \in Requested \ executed
    /\ ReleaseBuffer(f)
    /\ executed' = executed \union {f}
    /\ UNCHANGED <<file, host, destroyed, running, send_eos, demuxVars,
                   decoderVars, frames_, runVars>>

\* ~FAFrame
DestroyFrame(f) ==
    /\ f \in Requested
    /\ host => f \in executed
    /\ ReleaseBuffer(f)
    /\ destroyed' = destroyed \union {f}
    /\ UNCHANGED <<file, host, executed, running, send_eos, demuxVars,
                   decoderVars, frames_, runVars>>

-----------------------------------------------------------------------------
DemuxLoop == \/ DemuxTest \/ FeedExtra \/ ParseReturns \/ SendEos
             \/ AfterLoop \/ DemuxEnd
             \/ \E p \in Packets : SkipPacket(p) \/ ParsePacket(p)
DecoderFails == FeedThrows \/ \E p \in Packets : FeedRefused(p)
EasyDecode == DecodeExtra \/ ReceiveEos \/ \E b \in Buffers : ReceiveFrame(b)
RunLoop == \/ RunTest \/ RunPop \/ RunTimeout \/ Process \/ TestEos
           \/ Finish \/ ProcessEos
Downstream == \E f \in Packets : Execute(f) \/ DestroyFrame(f)

Next == \/ Loop \/ ConstructorThrows
        \/ DemuxLoop \/ DecoderFails
        \/ EasyDecode
        \/ RunLoop
        \/ Downstream

\* All threads are scheduled, the decoder decodes what it took and the modules
\* behind finish with what they were sent; nothing has to fail.
Fairness == /\ WF_vars(Loop \/ ConstructorThrows)
            /\ WF_vars(DemuxLoop)
            /\ WF_vars(EasyDecode)
            /\ WF_vars(RunLoop)
            /\ WF_vars(Downstream)

Spec == Init /\ [][Next]_vars
FairSpec == Spec /\ Fairness

-----------------------------------------------------------------------------
TypeOK ==
    /\ file \in Files
    /\ host \in BOOLEAN /\ running \in BOOLEAN
    /\ receive_eos \in BOOLEAN /\ send_eos \in BOOLEAN
    /\ dpc \in {"open", "crashed", "test", "extra", "parse", "sendEos", "after",
               "sleep", "end"}
    /\ read \in 0 .. Len(file.packets) /\ first_frame_ \in BOOLEAN
    /\ codec \in Seq(0 .. N) /\ Len(codec) <= InputBuffers
    /\ frames_ \in Seq(Packets)
    /\ rpc \in {"open", "test", "wait", "process", "testEos", "finish", "eos",
               "end"}
    /\ hand \in 0 .. N
    /\ out \in Seq(1 .. Eos)
    /\ free \in SUBSET Buffers
    /\ buf \in [Packets -> 0 .. OutputBuffers]
    /\ executed \in SUBSET Packets /\ destroyed \in SUBSET Packets
    /\ late \in BOOLEAN /\ thrown \in BOOLEAN /\ refused \in 0 .. N

\* The packets of the video from its first key frame on, and those of them
\* that come before the one the decoder refused.
Wanted(f) ==
    {i \in DOMAIN f.packets :
        IsVideo(f, i) /\ \E k \in 1 .. i : IsVideo(f, k) /\ f.packets[k].key}
Accepted == {p \in Wanted(file) : refused = 0 \/ p < refused}

\* s has elements of S in increasing order, from the least one on and without
\* a gap.
Begins(s, S) ==
    /\ \A i, j \in DOMAIN s : i < j => s[i] < s[j]
    /\ Range(s) \subseteq S
    /\ \A q \in Range(s), p \in S : p < q => p \in Range(s)

\* Whatever the three threads do, and wherever the decoder fails, what goes
\* down the pipeline is a beginning of the video of the file, from its first
\* key frame on and without the other streams, then at most one end of the
\* stream and nothing behind it.  A stream that ends is the whole video, but
\* for what follows the first packet that FeedData refused, if the decoder did
\* not throw and had finished when DemuxLoop woke from its sleep: the Stop of
\* DemuxLoop and the test of RunLoop then leave no frame behind.
CompleteUnlessLate ==
    /\ Begins(Sent, Accepted)
    /\ (rpc = "end" /\ dpc = "end" /\ ~late /\ ~thrown) => Range(Sent) = Accepted

\* With preprocessing on the device, where buffers are given back only once,
\* no two frames that live have the same buffer, and none has a free one.
Living == {f \in Packets \ destroyed : buf[f] # 0}
BuffersOwned ==
    ~host => \A f \in Living : /\ buf[f] \notin free
                               /\ \A g \in Living : buf[f] = buf[g] => f = g

DecoderInv == TypeOK /\ BuffersOwned

\* A file whose video is its first stream, in which FFmpeg finds a key frame.
Ends == VideoIndex(file) = 0 /\ Wanted(file) # {}

\* The end of the stream is sent if the file is one of those whose end
\* ParseLoop can see and DemuxLoop was not too early: the decoder never starves,
\* although whole batches keep their buffers, and RunLoop notices the end
\* although nobody wakes it.
EosSentUnlessLate == (Ends /\ []~late) => <>(rpc = "end" \/ dpc = "crashed")
=============================================================================
