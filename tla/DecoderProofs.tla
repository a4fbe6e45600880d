---------------------------- MODULE DecoderProofs -----------------------------
(***************************************************************************)
(* Proofs about DecoderCodec for every set of files, every length of a     *)
(* file and every number of buffers: the frames that go down the pipeline  *)
(* are those of the video in their order, the whole of it when nothing was *)
(* late, and no two live frames have the same buffer.                      *)
(***************************************************************************)
EXTENDS DecoderCodec, TLAPS

-----------------------------------------------------------------------------
(* Increasing sequences of numbers.                                        *)

Increasing(s) == \A i, j \in DOMAIN s : i < j => s[i] < s[j]
Before(S, T) == \A a \in S, b \in T : a < b

LEMMA RangeType ==
    ASSUME NEW S, NEW s \in Seq(S)
    PROVE  Range(s) \subseteq S
BY DEF Range

LEMMA RangeEmpty ==
    ASSUME NEW S, NEW s \in Seq(S)
    PROVE  (s = << >>) <=> (Range(s) = {})
<1>1. ASSUME s # << >>
      PROVE  s[1] \in Range(s)
  BY <1>1 DEF Range
<1>2. ASSUME s = << >>
      PROVE  Range(s) = {}
  BY <1>2 DEF Range
<1> QED BY <1>1, <1>2

LEMMA AppendRange ==
    ASSUME NEW S, NEW s \in Seq(S), NEW x \in S
    PROVE  /\ Append(s, x) \in Seq(S)
           /\ Range(Append(s, x)) = Range(s) \union {x}
<1> DEFINE t == Append(s, x)
<1>1. /\ t \in Seq(S) /\ Len(t) = Len(s) + 1
      /\ DOMAIN t = 1 .. Len(t) /\ DOMAIN s = 1 .. Len(s)
      /\ t[Len(s) + 1] = x
      /\ \A i \in 1 .. Len(s) : t[i] = s[i]
  OBVIOUS
<1> HIDE DEF t
<1>2. Range(t) \subseteq Range(s) \union {x}
  BY <1>1 DEF Range
<1>3. x \in Range(t)
  BY <1>1 DEF Range
<1>4. Range(s) \subseteq Range(t)
  BY <1>1 DEF Range
<1> QED BY <1>1, <1>2, <1>3, <1>4 DEF t

LEMMA AppendIncreasing ==
    ASSUME NEW S \in SUBSET Int, NEW s \in Seq(S), NEW x \in S,
           Increasing(s), Before(Range(s), {x})
    PROVE  Increasing(Append(s, x))
<1> DEFINE t == Append(s, x)
<1>1. /\ DOMAIN t = 1 .. Len(s) + 1 /\ DOMAIN s = 1 .. Len(s) /\ Len(s) \in Nat
      /\ t[Len(s) + 1] = x
      /\ \A i \in 1 .. Len(s) : t[i] = s[i]
  OBVIOUS
<1>2. \A i \in 1 .. Len(s) : s[i] < x
  BY <1>1 DEF Range, Before
<1> HIDE DEF t
<1>3. ASSUME NEW i \in DOMAIN t, NEW j \in DOMAIN t, i < j
      PROVE  t[i] < t[j]
  <2>1. CASE j = Len(s) + 1
    BY <1>1, <1>2, <1>3, <2>1
  <2>2. CASE j # Len(s) + 1
    BY <1>1, <1>3, <2>2 DEF Increasing
  <2> QED BY <2>1, <2>2
<1> QED BY <1>3 DEF Increasing, t

LEMMA TailIncreasing ==
    ASSUME NEW S \in SUBSET Int, NEW s \in Seq(S), s # << >>, Increasing(s)
    PROVE  /\ Head(s) \in S /\ Tail(s) \in Seq(S)
           /\ Len(Tail(s)) <= Len(s)
           /\ Range(s) = {Head(s)} \union Range(Tail(s))
           /\ Before({Head(s)}, Range(Tail(s)))
           /\ Increasing(Tail(s))
<1> DEFINE t == Tail(s)
<1>1. /\ t \in Seq(S) /\ Len(s) \in Nat \ {0} /\ Len(t) = Len(s) - 1
      /\ DOMAIN t = 1 .. Len(s) - 1 /\ DOMAIN s = 1 .. Len(s)
      /\ Head(s) = s[1] /\ Head(s) \in S
      /\ \A i \in 1 .. Len(s) - 1 : t[i] = s[i + 1]
  OBVIOUS
<1> HIDE DEF t
<1>2. Range(t) \subseteq Range(s)
  BY <1>1 DEF Range
<1>3. Head(s) \in Range(s)
  BY <1>1 DEF Range
<1>4. Range(s) \subseteq {Head(s)} \union Range(t)
  <2> SUFFICES ASSUME NEW i \in 1 .. Len(s), i # 1
               PROVE  s[i] \in Range(t)
    BY <1>1 DEF Range
  <2>1. i - 1 \in DOMAIN t /\ t[i - 1] = s[i]
    BY <1>1
  <2> QED BY <2>1 DEF Range
<1>5. Before({Head(s)}, Range(t))
  <2> SUFFICES ASSUME NEW i \in DOMAIN t
               PROVE  Head(s) < t[i]
    BY DEF Before, Range
  <2>1. /\ 1 \in DOMAIN s /\ i + 1 \in DOMAIN s /\ 1 < i + 1
        /\ t[i] = s[i + 1]
    BY <1>1
  <2>2. s[1] < s[i + 1]
    BY <2>1 DEF Increasing
  <2> QED BY <1>1, <2>1, <2>2
<1>6. Increasing(t)
  BY SMTT(30), <1>1 DEF Increasing
<1> QED BY <1>1, <1>2, <1>3, <1>4, <1>5, <1>6 DEF t

-----------------------------------------------------------------------------
(* The invariant.                                                          *)

\* Where the packets of the video are that DemuxLoop has fed to the decoder:
\* sent, in the hand of RunLoop, in frames_, or inside EasyDecode.
Held == IF rpc = "process" THEN {hand} ELSE {}
Decoded == Range(Sent) \union Held \union Range(frames_)
Fed == {p \in Accepted : p <= read}

StreamOK ==
    /\ Increasing(Sent) /\ Increasing(frames_) /\ Increasing(codec)
    /\ Before(Range(Sent), Held)
    /\ Before(Range(Sent) \union Held, Range(frames_))
    /\ Before(Decoded, Range(codec))
    /\ Decoded \union (Range(codec) \ {0}) = Fed

\* The end of the stream is in out when RunLoop has ended, and 0 in EasyDecode
\* only after DemuxLoop has fed the extra data.
EndOK ==
    /\ Sent \in Seq(Packets)
    /\ out = IF rpc = "end" THEN Append(Sent, Eos) ELSE Sent
    /\ rpc = "process" => hand # 0

DemuxOK ==
    /\ dpc \in {"open", "crashed", "test", "extra"} =>
           read = 0 /\ codec = << >> /\ refused = 0
    /\ first_frame_ =
           ~\E k \in 1 .. read : IsVideo(file, k) /\ file.packets[k].key
    /\ refused # 0 =>
           refused = read /\ dpc \in {"sendEos", "after", "sleep", "end"}
    /\ (dpc \in {"sendEos", "after", "sleep", "end"} /\ ~thrown) =>
           refused # 0 \/ read = Len(file.packets)
    /\ (rpc = "open") = (dpc \in {"open", "crashed"})

\* What RunLoop and DemuxLoop know when they end without an exception: the
\* decoder has delivered all frames, and RunLoop has taken them.
Drained == receive_eos /\ frames_ = << >>
LastOK ==
    /\ send_eos => dpc \in {"after", "sleep", "end"}
    /\ receive_eos => send_eos /\ codec = << >>
    /\ late => dpc = "end"
    /\ (dpc = "end" /\ ~late) => receive_eos
    /\ (rpc # "open" /\ ~running /\ ~late /\ ~thrown) => Drained
    /\ (rpc \in {"finish", "eos", "end"} /\ ~late /\ ~thrown) => Drained

\* A frame has a buffer from the moment it was decoded.
BufferOK ==
    /\ \A f \in Packets : buf[f] # 0 <=> f \in Decoded
    /\ destroyed \subseteq Range(Sent)

IInv == TypeOK /\ StreamOK /\ EndOK /\ DemuxOK /\ LastOK /\ BufferOK /\ BuffersOwned

-----------------------------------------------------------------------------
(* The values of the invariant's parts.                                    *)

LEMMA CodecFacts ==
    /\ N \in Nat /\ Packets = 1 .. N /\ Eos = N + 1 /\ Eos \notin Packets
    /\ OutputBuffers \in Nat /\ Buffers = 1 .. OutputBuffers /\ 0 \notin Buffers
    /\ 0 .. N \in SUBSET Int /\ Packets \in SUBSET Int
    /\ Packets \subseteq 0 .. N /\ 0 \notin Packets
BY CodecAssumption DEF CodecAssumption, Packets, Eos, Buffers

\* Nothing but the end of the stream is not a frame.
LEMMA FramesOnly ==
    ASSUME NEW s \in Seq(Packets)
    PROVE  /\ ~(s # << >> /\ Last(s) = Eos)
           /\ Append(s, Eos) # << >> /\ Last(Append(s, Eos)) = Eos
           /\ Front(Append(s, Eos)) = s
<1>1. ASSUME s # << >>
      PROVE  Last(s) # Eos
  <2>1. Len(s) \in 1 .. Len(s)
    BY <1>1
  <2>2. s[Len(s)] \in Packets
    BY <2>1
  <2> QED BY <2>2, CodecFacts DEF Last
<1> DEFINE t == Append(s, Eos)
<1>2. /\ t \in Seq(Packets \union {Eos}) /\ Len(t) = Len(s) + 1
      /\ t[Len(s) + 1] = Eos /\ Len(s) \in Nat
      /\ \A i \in 1 .. Len(s) : t[i] = s[i]
  OBVIOUS
<1> HIDE DEF t
<1>3. t # << >> /\ Last(t) = Eos
  BY <1>2 DEF Last
<1>4. SubSeq(t, 1, Len(s)) = s
  <2>1. /\ Len(SubSeq(t, 1, Len(s))) = Len(s)
        /\ SubSeq(t, 1, Len(s)) \in Seq(Packets \union {Eos})
        /\ \A i \in 1 .. Len(s) : SubSeq(t, 1, Len(s))[i] = t[i]
    BY <1>2
  <2> QED BY <1>2, <2>1
<1>5. Front(t) = s
  BY <1>2, <1>4 DEF Front
<1> QED BY <1>1, <1>3, <1>5 DEF t

\* A frame that has been fed is a packet of the file.
LEMMA AcceptedFacts ==
    ASSUME TypeOK
    PROVE  /\ Len(file.packets) \in Nat /\ Len(file.packets) <= N
           /\ DOMAIN file.packets = 1 .. Len(file.packets)
           /\ read \in Nat /\ read <= Len(file.packets)
           /\ \A i \in DOMAIN file.packets : file.packets[i].key \in BOOLEAN
           /\ Accepted \subseteq DOMAIN file.packets /\ Fed \subseteq Packets
           /\ Fed \subseteq 1 .. read
<1>1. /\ file.packets \in Seq([stream : Nat, key : BOOLEAN])
      /\ Len(file.packets) <= N
  BY CodecAssumption DEF CodecAssumption, TypeOK
<1>2. Accepted \subseteq DOMAIN file.packets
  BY DEF Accepted, Wanted
<1>3. /\ Len(file.packets) \in Nat
      /\ DOMAIN file.packets = 1 .. Len(file.packets)
      /\ read \in Nat /\ read <= Len(file.packets)
  BY <1>1 DEF TypeOK
<1>4. \A i \in DOMAIN file.packets : file.packets[i].key \in BOOLEAN
  <2>1. ASSUME NEW T, NEW s \in Seq(T)
        PROVE  \A i \in DOMAIN s : s[i] \in T
    OBVIOUS
  <2>2. \A i \in DOMAIN file.packets :
            file.packets[i] \in [stream : Nat, key : BOOLEAN]
    BY <1>1, <2>1
  <2> QED BY <2>2
<1>5. Fed \subseteq Packets /\ Fed \subseteq 1 .. read
  BY <1>1, <1>2, <1>3, CodecFacts DEF Fed
<1> QED BY <1>1, <1>2, <1>3, <1>4, <1>5

\* The frame RunLoop sends is appended to Sent; no other step changes Sent.
LEMMA SentStep ==
    ASSUME TypeOK, EndOK, Next, ~Process
    PROVE  Sent' = Sent /\ EndOK'
<1>0. CASE ProcessEos
  <2>1. out = Sent /\ out' = Append(Sent, Eos) /\ rpc' = "end"
    BY <1>0 DEF ProcessEos, Run, EndOK
  <2>2. Sent' = Sent
    BY <2>1, FramesOnly DEF EndOK, Sent
  <2> QED BY <2>1, <2>2 DEF EndOK
<1>1. CASE out' = out /\ rpc' = rpc /\ hand' = hand
  BY <1>1 DEF EndOK, Sent
<1>2. CASE Loop \/ RunTest \/ RunTimeout \/ TestEos \/ Finish
  <2>1. out' = out /\ rpc # "end" /\ rpc' \notin {"end", "process"}
    BY <1>2 DEF Loop, RunTest, RunTimeout, TestEos, Finish, Run, runVars
  <2> QED BY <2>1 DEF EndOK, Sent
<1>3. CASE RunPop
  <2>1. out' = out /\ rpc # "end" /\ rpc' = "process" /\ hand' \in Packets
    <3>1. Head(frames_) \in Packets
      BY <1>3 DEF RunPop, TypeOK
    <3> QED BY <1>3, <3>1 DEF RunPop, Run
  <2> QED BY <2>1, CodecFacts DEF EndOK, Sent
<1> QED
  BY <1>0, <1>1, <1>2, <1>3
     DEF Next, ConstructorThrows, DemuxLoop, DecoderFails, EasyDecode, RunLoop,
         Downstream, DemuxTest, FeedExtra, ParseReturns, SendEos, AfterLoop,
         DemuxEnd, SkipPacket, ParsePacket, FeedThrows, FeedRefused, DecodeExtra,
         ReceiveEos, ReceiveFrame, Execute, DestroyFrame, runVars

LEMMA SentProcess ==
    ASSUME TypeOK, EndOK, Process
    PROVE  /\ hand \in Packets
           /\ Sent' = Append(Sent, hand) /\ EndOK'
<1>1. hand \in Packets
  BY CodecFacts DEF Process, Run, EndOK, TypeOK
<1>2. out = Sent /\ out' = Append(Sent, hand) /\ rpc' = "testEos"
  BY DEF Process, Run, EndOK
<1>3. Append(Sent, hand) \in Seq(Packets)
  BY <1>1 DEF EndOK
<1>4. Sent' = Append(Sent, hand)
  BY <1>2, <1>3, FramesOnly DEF Sent
<1> QED BY <1>1, <1>2, <1>3, <1>4 DEF EndOK

-----------------------------------------------------------------------------
(* Types.                                                                  *)

LEMMA InitTypeOK == Init => TypeOK
<1> SUFFICES ASSUME Init PROVE TypeOK
  OBVIOUS
<1>1. 0 \in 0 .. Len(file.packets)
  BY CodecAssumption DEF CodecAssumption, Init
<1>2. buf \in [Packets -> 0 .. OutputBuffers]
  BY CodecFacts DEF Init
<1>3. << >> \in Seq(0 .. N) /\ << >> \in Seq(Packets) /\ << >> \in Seq(1 .. Eos)
      /\ Len(<< >>) = 0
  OBVIOUS
<1>4. /\ codec \in Seq(0 .. N) /\ Len(codec) <= InputBuffers
      /\ frames_ \in Seq(Packets) /\ out \in Seq(1 .. Eos)
  BY <1>3, CodecAssumption DEF CodecAssumption, Init
<1>5. hand \in 0 .. N /\ refused \in 0 .. N
  BY CodecFacts DEF Init
<1> QED BY <1>1, <1>2, <1>4, <1>5 DEF Init, TypeOK

\* What DemuxLoop reads and feeds.
LEMMA DemuxTypeOK ==
    ASSUME TypeOK, DemuxLoop \/ DecoderFails \/ Loop \/ ConstructorThrows
    PROVE  TypeOK'
<1>1. CASE FeedExtra
  <2>1. codec' \in Seq(0 .. N) /\ Len(codec') <= InputBuffers
    BY <1>1, CodecFacts, CodecAssumption
       DEF CodecAssumption, FeedExtra, Feed, TypeOK
  <2> QED BY <1>1, <2>1
          DEF FeedExtra, Demux, TypeOK, runVars, bufferVars, ownerVars
<1>2. ASSUME NEW p \in Packets, SkipPacket(p) \/ ParsePacket(p) \/ FeedRefused(p)
      PROVE  TypeOK'
  <2>1. read' \in 0 .. Len(file.packets)
    BY <1>2, AcceptedFacts DEF SkipPacket, ParsePacket, FeedRefused, Reads
  <2>2. codec' \in Seq(0 .. N) /\ Len(codec') <= InputBuffers
    <3>1. codec' = codec \/ (Len(codec) < InputBuffers /\ codec' = Append(codec, p))
      BY <1>2 DEF SkipPacket, ParsePacket, FeedRefused, Feed, decoderVars
    <3>2. p \in 0 .. N /\ Len(codec) \in Nat /\ InputBuffers \in Nat
      BY CodecFacts, CodecAssumption DEF CodecAssumption, TypeOK
    <3>3. ASSUME Len(codec) < InputBuffers
          PROVE  /\ Append(codec, p) \in Seq(0 .. N)
                 /\ Len(Append(codec, p)) <= InputBuffers
      BY <3>2, <3>3 DEF TypeOK
    <3> QED BY <3>1, <3>3 DEF TypeOK
  <2>3. refused' \in 0 .. N
    BY <1>2, CodecFacts DEF SkipPacket, ParsePacket, FeedRefused, TypeOK
  <2>4. /\ first_frame_' \in BOOLEAN
        /\ dpc' \in {"parse", "sendEos"}
        /\ UNCHANGED <<file, host, running, receive_eos, send_eos, frames_, rpc,
                       hand, out, free, buf, executed, destroyed, late, thrown>>
    BY <1>2 DEF SkipPacket, ParsePacket, FeedRefused, Demux, TypeOK,
                decoderVars, runVars, bufferVars, ownerVars
  <2> QED BY <2>1, <2>2, <2>3, <2>4 DEF TypeOK
<1>3. CASE Loop \/ ConstructorThrows \/ DemuxTest \/ ParseReturns \/ SendEos
           \/ AfterLoop \/ DemuxEnd \/ FeedThrows
  <2>1. /\ dpc' \in {"crashed", "test", "extra", "parse", "sendEos", "after",
                     "sleep", "end"}
        /\ rpc' \in {rpc, "test"}
        /\ running' \in BOOLEAN /\ send_eos' \in BOOLEAN
        /\ late' \in BOOLEAN /\ thrown' \in BOOLEAN
        /\ UNCHANGED <<file, host, receive_eos, read, first_frame_, codec,
                       frames_, hand, out, free, buf, executed, destroyed,
                       refused>>
    BY <1>3 DEF Loop, ConstructorThrows, DemuxTest, ParseReturns, SendEos,
                AfterLoop, DemuxEnd, FeedThrows, Demux, Run, TypeOK,
                decoderVars, runVars, bufferVars, ownerVars
  <2> QED BY <2>1 DEF TypeOK
<1> QED BY <1>1, <1>2, <1>3 DEF DemuxLoop, DecoderFails

LEMMA DecodeTypeOK ==
    ASSUME TypeOK, EasyDecode
    PROVE  TypeOK'
<1>1. CASE ReceiveEos
  BY <1>1 DEF ReceiveEos, TypeOK, demuxVars, runVars, bufferVars, ownerVars
<1>2. CASE DecodeExtra \/ \E b \in Buffers : ReceiveFrame(b)
  <2>1. codec # << >> /\ codec' = Tail(codec)
    BY <1>2 DEF DecodeExtra, ReceiveFrame
  <2>2. /\ codec' \in Seq(0 .. N) /\ Len(codec') <= InputBuffers
        /\ Head(codec) \in 0 .. N
    BY <2>1, CodecFacts, CodecAssumption DEF CodecAssumption, TypeOK
  <2>3. CASE DecodeExtra
    BY <2>2, <2>3 DEF DecodeExtra, TypeOK, demuxVars, runVars, bufferVars, ownerVars
  <2>4. ASSUME NEW b \in Buffers, ReceiveFrame(b)
        PROVE  TypeOK'
    <3>1. Head(codec) \in Packets
      BY <2>2, <2>4, CodecFacts DEF ReceiveFrame
    <3>2. frames_' \in Seq(Packets)
      BY <2>4, <3>1 DEF ReceiveFrame, TypeOK
    <3>3. buf' \in [Packets -> 0 .. OutputBuffers]
      BY <2>4, <3>1, CodecFacts DEF ReceiveFrame, TypeOK
    <3>4. free' \in SUBSET Buffers
      BY <2>4 DEF ReceiveFrame, TypeOK
    <3> QED BY <2>2, <2>4, <3>2, <3>3, <3>4
            DEF ReceiveFrame, TypeOK, demuxVars, runVars, ownerVars
  <2> QED BY <1>2, <2>3, <2>4
<1> QED BY <1>1, <1>2 DEF EasyDecode

LEMMA RunTypeOK ==
    ASSUME TypeOK, EndOK, RunLoop
    PROVE  TypeOK'
<1>1. out' \in Seq(1 .. Eos)
  <2>1. CASE Process
    BY <2>1, SentProcess, CodecFacts DEF Process, TypeOK
  <2>2. CASE ProcessEos
    BY <2>2, CodecFacts DEF ProcessEos, TypeOK
  <2>3. CASE out' = out
    BY <2>3 DEF TypeOK
  <2> QED BY <2>1, <2>2, <2>3
          DEF RunLoop, RunTest, RunPop, RunTimeout, TestEos, Finish
<1>2. /\ hand' \in 0 .. N /\ frames_' \in Seq(Packets)
      /\ UNCHANGED codec
  <2>1. CASE RunPop
    <3>1. Head(frames_) \in Packets /\ Tail(frames_) \in Seq(Packets)
      BY <2>1 DEF RunPop, TypeOK
    <3> QED BY <2>1, <3>1, CodecFacts DEF RunPop, decoderVars
  <2>2. CASE hand' = hand /\ frames_' = frames_ /\ codec' = codec
    BY <2>2 DEF TypeOK
  <2> QED BY <2>1, <2>2
          DEF RunLoop, RunTest, Process, RunTimeout, TestEos, Finish,
              ProcessEos, decoderVars
<1>3. /\ rpc' \in {"test", "wait", "process", "testEos", "finish", "eos", "end"}
      /\ running' \in BOOLEAN
      /\ UNCHANGED <<file, host, receive_eos, send_eos, dpc, read, first_frame_,
                     free, buf, executed, destroyed, late, refused, thrown>>
  BY DEF RunLoop, RunTest, RunPop, RunTimeout, Process, TestEos, Finish,
         ProcessEos, Run, TypeOK, demuxVars, decoderVars, bufferVars, ownerVars
<1> QED BY <1>1, <1>2, <1>3 DEF TypeOK

\* What is requested of Inference has been sent, and so has a buffer.
LEMMA RequestedSent ==
    ASSUME TypeOK, EndOK, BufferOK, NEW f \in Packets, f \in Requested
    PROVE  f \in Range(Sent) /\ f \notin destroyed /\ buf[f] \in Buffers
<1>1. f \in Range(Sent) /\ f \notin destroyed
  <2> DEFINE n == Batch * (Len(Sent) \div Batch)
  <2>1. n <= Len(Sent) /\ n \in Int
    BY CodecAssumption DEF CodecAssumption, EndOK
  <2> HIDE DEF n
  <2>2. DOMAIN Sent = 1 .. Len(Sent) /\ Len(Sent) \in Nat
    BY DEF EndOK
  <2>3. PICK i \in 1 .. n : f = Sent[i]
    BY DEF Requested, n
  <2>4. i \in DOMAIN Sent
    BY <2>1, <2>2
  <2> QED BY <2>3, <2>4 DEF Range, Requested
<1>2. buf[f] # 0
  BY <1>1 DEF BufferOK, Decoded
<1> QED BY <1>1, <1>2, CodecFacts DEF TypeOK

LEMMA DownstreamTypeOK ==
    ASSUME TypeOK, EndOK, BufferOK, Downstream
    PROVE  TypeOK'
<1>1. PICK f \in Packets : Execute(f) \/ DestroyFrame(f)
  BY DEF Downstream
<1>2. f \in Requested
  BY <1>1 DEF Execute, DestroyFrame
<1>3. free' \in SUBSET Buffers
  BY <1>1, <1>2, RequestedSent DEF Execute, DestroyFrame, ReleaseBuffer, TypeOK
<1> QED BY <1>1, <1>3
        DEF Execute, DestroyFrame, ReleaseBuffer, TypeOK, demuxVars,
            decoderVars, runVars

LEMMA TypeStep ==
    ASSUME TypeOK, EndOK, BufferOK, Next
    PROVE  TypeOK'
BY DemuxTypeOK, DecodeTypeOK, RunTypeOK, DownstreamTypeOK DEF Next

-----------------------------------------------------------------------------
(* Where DemuxLoop is, and what ends it and RunLoop.                       *)

\* Packets are accepted as DemuxLoop reads them.
LEMMA SkippedPacket ==
    ASSUME TypeOK, DemuxOK, NEW p \in Packets, SkipPacket(p)
    PROVE  /\ p \notin Wanted(file)
           /\ ~(IsVideo(file, p) /\ file.packets[p].key) \/ ~first_frame_
           /\ read' = p /\ p = read + 1
<1>1. p = read + 1 /\ read' = p /\ Skips(p)
  BY DEF SkipPacket, Reads
<1>2. CASE ~IsVideo(file, p)
  BY <1>1, <1>2 DEF Wanted
<1>3. CASE first_frame_ /\ ~file.packets[p].key
  <2>1. \A k \in 1 .. p : ~(IsVideo(file, k) /\ file.packets[k].key)
    <3>1. \A k \in 1 .. read : ~(IsVideo(file, k) /\ file.packets[k].key)
      BY <1>3 DEF DemuxOK
    <3>2. 1 .. p = 1 .. read \union {p}
      BY <1>1, AcceptedFacts
    <3> QED BY <1>3, <3>1, <3>2
  <2> QED BY <1>1, <1>3, <2>1 DEF Wanted
<1> QED BY <1>1, <1>2, <1>3 DEF Skips

LEMMA ParsedPacket ==
    ASSUME TypeOK, DemuxOK, NEW p \in Packets, Reads(p), ~Skips(p)
    PROVE  /\ p \in Wanted(file)
           /\ \E k \in 1 .. p : IsVideo(file, k) /\ file.packets[k].key
<1>1. p = read + 1 /\ p \in DOMAIN file.packets /\ IsVideo(file, p)
  BY DEF Reads, Skips
<1>2. p \in 1 .. p
  BY CodecFacts
<1>3. CASE file.packets[p].key
  BY <1>1, <1>2, <1>3 DEF Wanted
<1>4. CASE ~first_frame_
  <2>1. PICK k \in 1 .. read : IsVideo(file, k) /\ file.packets[k].key
    BY <1>4 DEF DemuxOK
  <2>2. k \in 1 .. p
    BY <1>1, <2>1, AcceptedFacts
  <2> QED BY <1>1, <2>1, <2>2 DEF Wanted
<1> QED BY <1>3, <1>4 DEF Skips

LEMMA DemuxOKStep ==
    ASSUME TypeOK, StreamOK, DemuxOK, LastOK, Next
    PROVE  DemuxOK'
<1> USE DEF IsVideo
<1>1. CASE Loop
  BY <1>1 DEF Loop, Demux, Run, DemuxOK, decoderVars, ownerVars
<1>2. CASE ConstructorThrows
  BY <1>2 DEF ConstructorThrows, Demux, DemuxOK, decoderVars, ownerVars, runVars
<1>3. CASE DemuxTest
  <2>1. dpc = "test" /\ read = 0 /\ codec = << >> /\ refused = 0
    BY <1>3 DEF DemuxTest, Demux, DemuxOK
  <2>2. ~running => thrown
    <3>1. ~late /\ ~receive_eos /\ rpc # "open"
      BY <2>1 DEF LastOK, DemuxOK
    <3> QED BY <3>1 DEF LastOK, Drained
  <2> QED BY <1>3, <2>1, <2>2
          DEF DemuxTest, Demux, DemuxOK, decoderVars, ownerVars, runVars
<1>4. CASE FeedExtra
  BY <1>4 DEF FeedExtra, Demux, DemuxOK, ownerVars, runVars
<1>5. ASSUME NEW p \in Packets, SkipPacket(p)
      PROVE  DemuxOK'
  <2>1. read' = p /\ p = read + 1
    BY <1>5, SkippedPacket
  <2>2. /\ dpc = "parse" /\ dpc' = "parse"
        /\ UNCHANGED <<file, first_frame_, rpc, refused, thrown>>
    BY <1>5 DEF SkipPacket, Demux, ownerVars, runVars
  <2>3. first_frame_' =
            ~\E k \in 1 .. p : IsVideo(file, k) /\ file.packets[k].key
    <3>1. ~(IsVideo(file, p) /\ file.packets[p].key) \/ ~first_frame_
      BY <1>5, SkippedPacket
    <3>2. 1 .. p = 1 .. read \union {p}
      BY <2>1, AcceptedFacts
    <3> QED BY <2>2, <3>1, <3>2 DEF DemuxOK
  <2> QED BY <2>1, <2>2, <2>3 DEF DemuxOK
<1>6. ASSUME NEW p \in Packets, ParsePacket(p) \/ FeedRefused(p)
      PROVE  DemuxOK'
  <2>1. /\ Reads(p) /\ read' = p /\ ~Skips(p)
        /\ dpc = "parse" /\ dpc' \in {"parse", "sendEos"}
        /\ first_frame_' = FALSE
        /\ UNCHANGED <<file, rpc, thrown>>
        /\ dpc' = "parse" => refused' = refused
        /\ dpc' = "sendEos" => refused' = p
    BY <1>6 DEF ParsePacket, FeedRefused, Reads, Demux, ownerVars, runVars
  <2>2. \E k \in 1 .. p : IsVideo(file, k) /\ file.packets[k].key
    BY <2>1, ParsedPacket
  <2>3. first_frame_' =
            ~\E k \in 1 .. read' : IsVideo(file', k) /\ file'.packets[k].key
    BY <2>1, <2>2
  <2>4. refused = 0 /\ p # 0
    BY <2>1, CodecFacts DEF DemuxOK
  <2> QED BY <2>1, <2>3, <2>4 DEF DemuxOK
<1>7. CASE ParseReturns
  <2>1. dpc = "parse"
    BY <1>7 DEF ParseReturns, Demux
  <2>2. running \/ thrown
    <3>1. ~late /\ ~receive_eos /\ rpc # "open"
      BY <2>1 DEF LastOK, DemuxOK
    <3> QED BY <3>1 DEF LastOK, Drained
  <2>3. thrown \/ read = Len(file.packets)
    BY <1>7, <2>2 DEF ParseReturns, EndRefused
  <2> QED BY <1>7, <2>1, <2>3
          DEF ParseReturns, Demux, DemuxOK, ownerVars, runVars
<1>8. CASE FeedThrows
  BY <1>8 DEF FeedThrows, Demux, DemuxOK, ownerVars, runVars
<1>9. CASE SendEos \/ AfterLoop \/ DemuxEnd
  <2>1. /\ dpc \in {"sendEos", "after", "sleep"}
        /\ dpc' \in {"after", "sleep", "end"}
        /\ UNCHANGED <<file, read, first_frame_, rpc, refused, thrown>>
    BY <1>9 DEF SendEos, AfterLoop, DemuxEnd, Demux, ownerVars, runVars
  <2> QED BY <2>1 DEF DemuxOK
<1>10. CASE EasyDecode \/ Downstream
  <2>1. /\ UNCHANGED <<file, dpc, read, first_frame_, rpc, refused, thrown>>
        /\ codec = << >> => codec' = << >>
    BY <1>10 DEF EasyDecode, DecodeExtra, ReceiveEos, ReceiveFrame, Downstream,
                 Execute, DestroyFrame, demuxVars, ownerVars, runVars, decoderVars
  <2> QED BY <2>1 DEF DemuxOK
<1>11. CASE RunLoop
  <2>1. /\ UNCHANGED <<file, dpc, read, first_frame_, refused, thrown, codec>>
        /\ rpc # "open" /\ rpc' # "open"
    BY <1>11 DEF RunLoop, RunTest, RunPop, RunTimeout, Process, TestEos, Finish,
                 ProcessEos, Run, demuxVars, ownerVars, decoderVars
  <2> QED BY <2>1 DEF DemuxOK
<1> QED BY <1>1, <1>2, <1>3, <1>4, <1>5, <1>6, <1>7, <1>8, <1>9, <1>10, <1>11
        DEF Next, DemuxLoop, DecoderFails

LEMMA LastOKStep ==
    ASSUME TypeOK, DemuxOK, LastOK, Next
    PROVE  LastOK'
<1>1. CASE Loop \/ ConstructorThrows
  <2>1. /\ dpc = "open" /\ dpc' \in {"test", "crashed"}
        /\ UNCHANGED <<send_eos, receive_eos, codec, late, thrown>>
        /\ rpc' = "open" \/ (running' /\ rpc' = "test")
    BY <1>1 DEF Loop, ConstructorThrows, Demux, Run, decoderVars, runVars, DemuxOK
  <2> QED BY <2>1 DEF LastOK
<1>2. CASE DemuxTest \/ FeedExtra \/ ParseReturns
           \/ \E p \in Packets : SkipPacket(p) \/ ParsePacket(p) \/ FeedRefused(p)
  <2>1. /\ dpc \in {"test", "extra", "parse"}
        /\ dpc' \in {"extra", "parse", "sendEos", "after"}
        /\ UNCHANGED <<send_eos, receive_eos, late, thrown, running, rpc, frames_>>
    BY <1>2 DEF DemuxTest, FeedExtra, ParseReturns, SkipPacket, ParsePacket,
                FeedRefused, Demux, decoderVars, runVars
  <2> QED BY <2>1 DEF LastOK, Drained
<1>3. CASE SendEos \/ AfterLoop
  <2>1. /\ dpc' \in {"after", "sleep"} /\ dpc # "end"
        /\ send_eos => send_eos'
        /\ UNCHANGED <<receive_eos, codec, late, thrown, running, rpc, frames_>>
    BY <1>3 DEF SendEos, AfterLoop, Demux, decoderVars, runVars
  <2> QED BY <2>1 DEF LastOK, Drained
<1>4. CASE FeedThrows
  <2>1. /\ dpc' = "after" /\ dpc # "end" /\ thrown'
        /\ UNCHANGED <<send_eos, receive_eos, codec, late>>
    BY <1>4 DEF FeedThrows, Demux, decoderVars
  <2> QED BY <2>1 DEF LastOK
<1>5. CASE DemuxEnd
  <2>1. /\ dpc = "sleep" /\ dpc' = "end"
        /\ running' = (running /\ frames_ # << >>)
        /\ late' = ~receive_eos
        /\ UNCHANGED <<send_eos, receive_eos, codec, thrown, rpc, frames_>>
    BY <1>5 DEF DemuxEnd, Demux, decoderVars, runVars
  <2>2. ~late /\ running \in BOOLEAN
    BY <2>1 DEF LastOK, TypeOK
  <2> QED BY <2>1, <2>2 DEF LastOK, Drained
<1>6. CASE EasyDecode
  <2>1. CASE ReceiveEos
    BY <2>1 DEF ReceiveEos, LastOK, Drained, demuxVars, runVars
  <2>2. CASE DecodeExtra \/ \E b \in Buffers : ReceiveFrame(b)
    <3>1. /\ codec # << >>
          /\ UNCHANGED <<dpc, send_eos, receive_eos, late, thrown, running, rpc>>
      BY <2>2 DEF DecodeExtra, ReceiveFrame, demuxVars, runVars
    <3> QED BY <3>1 DEF LastOK, Drained
  <2> QED BY <1>6, <2>1, <2>2 DEF EasyDecode
<1>7. CASE Downstream
  BY <1>7 DEF Downstream, Execute, DestroyFrame, LastOK, Drained, demuxVars,
              decoderVars, runVars
<1>8. CASE RunLoop
  <2>1. /\ UNCHANGED <<dpc, send_eos, receive_eos, codec, late, thrown>>
        /\ frames_ = << >> => frames_' = << >>
        /\ rpc # "open"
        /\ \/ running' = running
           \/ rpc = "finish" /\ rpc' = "eos"
        /\ rpc' \in {"finish", "eos", "end"} =>
               \/ rpc \in {"finish", "eos"}
               \/ frames_ = << >> /\ receive_eos
               \/ ~running
    BY <1>8 DEF RunLoop, RunTest, RunPop, RunTimeout, Process, TestEos, Finish,
                ProcessEos, Run, demuxVars, decoderVars
  <2> QED BY <2>1 DEF LastOK, Drained
<1> QED BY <1>1, <1>2, <1>3, <1>4, <1>5, <1>6, <1>7, <1>8
        DEF Next, DemuxLoop, DecoderFails

-----------------------------------------------------------------------------
(* The stream.                                                             *)

\* A step that moves nothing.
LEMMA StreamStutter ==
    ASSUME StreamOK,
           Sent' = Sent, Held' = Held, frames_' = frames_, codec' = codec,
           Fed' = Fed
    PROVE  StreamOK'
BY DEF StreamOK, Decoded

LEMMA FedSame ==
    ASSUME UNCHANGED <<file, read, refused>>
    PROVE  Fed' = Fed /\ Accepted' = Accepted
BY DEF Fed, Accepted

\* Nothing has been fed before the extra data.
LEMMA StreamFeedExtra ==
    ASSUME TypeOK, StreamOK, EndOK, DemuxOK, FeedExtra, Sent' = Sent
    PROVE  StreamOK'
<1>1. /\ codec = << >> /\ codec' = Append(codec, 0) /\ read = 0
      /\ frames_' = frames_ /\ Held' = Held /\ Fed' = Fed
  BY FedSame DEF FeedExtra, Feed, Demux, DemuxOK, runVars, ownerVars, Held
<1>2. Decoded = {} /\ Fed = {}
  BY <1>1, AcceptedFacts DEF StreamOK
<1>3. Range(codec') = {0}
  <2>1. Append(<< >>, 0) = <<0>>
    OBVIOUS
  <2> QED BY <1>1, <2>1 DEF Range
<1>4. Increasing(codec')
  <2>1. Append(<< >>, 0) = <<0>>
    OBVIOUS
  <2> QED BY <1>1, <2>1 DEF Increasing
<1>5. Decoded' = Decoded
  BY <1>1 DEF Decoded
<1> QED BY <1>1, <1>2, <1>3, <1>4, <1>5 DEF StreamOK, Before

LEMMA StreamSkip ==
    ASSUME TypeOK, StreamOK, DemuxOK, NEW p \in Packets, SkipPacket(p), Sent' = Sent
    PROVE  StreamOK'
<1>1. /\ p \notin Wanted(file) /\ read' = p /\ p = read + 1
      /\ UNCHANGED <<file, frames_, codec, refused, rpc, hand>>
  BY SkippedPacket DEF SkipPacket, runVars, decoderVars, ownerVars
<1>2. Accepted' = Accepted /\ p \notin Accepted
  BY <1>1 DEF Accepted
<1>3. Fed' = Fed
  BY <1>1, <1>2, AcceptedFacts DEF Fed
<1>4. Held' = Held
  BY <1>1 DEF Held
<1> QED BY <1>1, <1>3, <1>4, StreamStutter

LEMMA StreamRefused ==
    ASSUME TypeOK, StreamOK, DemuxOK, NEW p \in Packets, FeedRefused(p), Sent' = Sent
    PROVE  StreamOK'
<1>1. /\ refused = 0 /\ refused' = p /\ p # 0 /\ read' = p /\ p = read + 1
      /\ UNCHANGED <<file, frames_, codec, rpc, hand>>
  BY CodecFacts
     DEF FeedRefused, Reads, Demux, DemuxOK, runVars, decoderVars, ownerVars
<1>2. Accepted = Wanted(file) /\ Accepted' = {q \in Wanted(file) : q < p}
  BY <1>1 DEF Accepted
<1>3. Fed' = Fed
  BY <1>1, <1>2, AcceptedFacts DEF Fed
<1>4. Held' = Held
  BY <1>1 DEF Held
<1> QED BY <1>1, <1>3, <1>4, StreamStutter

\* All that has been fed is before the packet DemuxLoop reads next.
LEMMA StreamParse ==
    ASSUME TypeOK, StreamOK, DemuxOK, NEW p \in Packets, ParsePacket(p), Sent' = Sent
    PROVE  StreamOK'
<1>1. /\ refused = 0 /\ read' = p /\ p = read + 1 /\ Reads(p) /\ ~Skips(p)
      /\ codec' = Append(codec, p)
      /\ UNCHANGED <<file, frames_, refused, rpc, hand>>
  BY DEF ParsePacket, Reads, Feed, Demux, DemuxOK, runVars, ownerVars
<1>2. Accepted' = Accepted /\ p \in Accepted
  BY <1>1, ParsedPacket DEF Accepted
<1>3. Fed' = Fed \union {p}
  <2>1. \A q \in Accepted : q <= p <=> q <= read \/ q = p
    BY <1>1, AcceptedFacts
  <2>2. Fed' = {q \in Accepted : q <= p}
    BY <1>1, <1>2 DEF Fed
  <2> QED BY <1>2, <2>1, <2>2 DEF Fed
<1>4. Before(Fed, {p}) /\ Before({0}, {p})
  BY <1>1, AcceptedFacts, CodecFacts DEF Before
<1>5. /\ Range(codec') = Range(codec) \union {p} /\ p # 0
      /\ Increasing(codec')
  <2>1. p \in 0 .. N /\ 0 .. N \in SUBSET Int /\ codec \in Seq(0 .. N) /\ p # 0
    BY CodecFacts DEF TypeOK
  <2>2. Before(Range(codec), {p})
    BY <1>4 DEF StreamOK, Before
  <2>3. Range(codec') = Range(codec) \union {p}
    <3> DEFINE T == 0 .. N
    <3>1. codec \in Seq(T) /\ p \in T
      BY <2>1
    <3> HIDE DEF T
    <3>2. Range(Append(codec, p)) = Range(codec) \union {p}
      BY <3>1, AppendRange
    <3> QED BY <1>1, <3>2
  <2>4. Increasing(codec')
    BY <1>1, <2>1, <2>2, AppendIncreasing DEF StreamOK
  <2> QED BY <2>1, <2>3, <2>4
<1>6. Decoded' = Decoded /\ Held' = Held
  BY <1>1 DEF Held, Decoded
<1>7. Before(Decoded, Range(codec'))
  BY <1>4, <1>5 DEF StreamOK, Before
<1>8. Decoded \union (Range(codec') \ {0}) = Fed'
  BY <1>3, <1>5 DEF StreamOK
<1> QED BY <1>1, <1>5, <1>6, <1>7, <1>8 DEF StreamOK

\* The packet at the head of the decoder goes to the end of the frames.
LEMMA StreamDecode ==
    ASSUME TypeOK, StreamOK, codec # << >>, codec' = Tail(codec),
           \/ Head(codec) = 0 /\ frames_' = frames_
           \/ Head(codec) # 0 /\ frames_' = Append(frames_, Head(codec)),
           Sent' = Sent, Held' = Held, Fed' = Fed
    PROVE  /\ StreamOK'
           /\ Decoded' = Decoded \union ({Head(codec)} \ {0})
           /\ Head(codec) \notin Decoded
<1> DEFINE h == Head(codec)
<1>1. /\ h \in 0 .. N /\ Range(codec) = {h} \union Range(codec')
      /\ Before({h}, Range(codec')) /\ Increasing(codec')
      /\ Range(codec') \subseteq 0 .. N
  BY CodecFacts, TailIncreasing, RangeType DEF TypeOK, StreamOK
<1> HIDE DEF h
<1>2. Before(Decoded, {h}) /\ Before(Decoded, Range(codec'))
  BY <1>1 DEF StreamOK, Before
<1>3. Decoded \subseteq Packets
  BY AcceptedFacts DEF StreamOK
<1>4. h \notin Decoded /\ h \notin Range(codec')
  BY <1>1, <1>2, <1>3, CodecFacts DEF Before
<1>5. CASE h = 0
  <2>1. frames_' = frames_ /\ Decoded' = Decoded
    BY <1>5 DEF h, Decoded
  <2>2. 0 \notin Range(codec')
    BY <1>4, <1>5
  <2> QED BY <1>1, <1>2, <1>4, <1>5, <2>1 DEF StreamOK, h
<1>6. CASE h # 0
  <2>1. h \in Packets /\ frames_' = Append(frames_, h)
    BY <1>1, <1>6, CodecFacts DEF h
  <2>2. Range(frames_') = Range(frames_) \union {h}
    BY <2>1, AppendRange DEF TypeOK
  <2>3. Decoded' = Decoded \union {h}
    BY <2>2 DEF Decoded
  <2>4. Increasing(frames_')
    <3>1. Before(Range(frames_), {h})
      BY <1>2 DEF Before, Decoded
    <3> QED BY <2>1, <3>1, CodecFacts, AppendIncreasing DEF TypeOK, StreamOK
  <2>5. Before(Range(Sent) \union Held, Range(frames_'))
    BY <1>2, <2>2 DEF Before, Decoded, StreamOK
  <2>6. Before(Decoded', Range(codec'))
    BY <1>1, <1>2, <2>3 DEF Before
  <2>7. Decoded' \union (Range(codec') \ {0}) = Fed
    BY <1>1, <1>6, <2>3 DEF StreamOK
  <2> QED BY <1>1, <1>4, <1>6, <2>3, <2>4, <2>5, <2>6, <2>7 DEF StreamOK, h
<1> QED BY <1>5, <1>6

LEMMA StreamPop ==
    ASSUME TypeOK, StreamOK, RunPop, Sent' = Sent
    PROVE  StreamOK' /\ Decoded' = Decoded
<1>1. /\ frames_ # << >> /\ frames_' = Tail(frames_)
      /\ Held = {} /\ Held' = {Head(frames_)}
      /\ codec' = codec
  BY DEF RunPop, Run, Held, decoderVars
<1>2. Fed' = Fed
  BY FedSame DEF RunPop, demuxVars, ownerVars
<1>3. /\ Range(frames_) = {Head(frames_)} \union Range(frames_')
      /\ Before({Head(frames_)}, Range(frames_')) /\ Increasing(frames_')
  BY <1>1, CodecFacts, TailIncreasing DEF TypeOK, StreamOK
<1>4. Decoded' = Decoded
  BY <1>1, <1>3 DEF Decoded
<1>5. /\ Before(Range(Sent), Held')
      /\ Before(Range(Sent) \union Held', Range(frames_'))
  BY <1>1, <1>3 DEF StreamOK, Before
<1> QED BY <1>1, <1>2, <1>3, <1>4, <1>5 DEF StreamOK

LEMMA StreamProcess ==
    ASSUME TypeOK, StreamOK, EndOK, Process
    PROVE  StreamOK' /\ Decoded' = Decoded
<1>1. /\ hand \in Packets /\ Sent' = Append(Sent, hand) /\ Sent \in Seq(Packets)
      /\ Held = {hand} /\ Held' = {}
      /\ frames_' = frames_ /\ codec' = codec
  BY SentProcess DEF Process, Run, EndOK, Held, decoderVars
<1>2. Fed' = Fed
  BY FedSame DEF Process, demuxVars, ownerVars
<1>3. Range(Sent') = Range(Sent) \union {hand}
  BY <1>1, AppendRange
<1>4. Increasing(Sent')
  BY <1>1, CodecFacts, AppendIncreasing DEF StreamOK
<1>5. Decoded' = Decoded
  BY <1>1, <1>3 DEF Decoded
<1> QED BY <1>1, <1>2, <1>3, <1>4, <1>5 DEF StreamOK, Before

\* Sent grows, and only ReceiveFrame decodes.
LEMMA StreamStep ==
    ASSUME TypeOK, StreamOK, EndOK, DemuxOK, Next
    PROVE  /\ StreamOK' /\ EndOK'
           /\ Range(Sent) \subseteq Range(Sent')
           /\ Decoded' = Decoded \/ \E b \in Buffers : ReceiveFrame(b)
<1>1. CASE Process
  <2>1. /\ Sent' = Append(Sent, hand) /\ hand \in Packets
        /\ Sent \in Seq(Packets) /\ EndOK'
    BY <1>1, SentProcess DEF EndOK
  <2>2. Range(Append(Sent, hand)) = Range(Sent) \union {hand}
    BY <2>1, AppendRange
  <2> QED BY <1>1, <2>1, <2>2, StreamProcess
<1> SUFFICES ASSUME ~Process
             PROVE  /\ StreamOK'
                    /\ Decoded' = Decoded \/ \E b \in Buffers : ReceiveFrame(b)
  BY <1>1, SentStep
<1>2. Sent' = Sent
  BY SentStep
<1>3. ASSUME StreamOK', Held' = Held, frames_' = frames_
      PROVE  Decoded' = Decoded
  BY <1>2, <1>3 DEF Decoded
<1>4. CASE /\ UNCHANGED <<file, read, refused, frames_, codec, hand>>
           /\ rpc' = rpc \/ (rpc # "process" /\ rpc' # "process")
  <2>1. Fed' = Fed /\ Held' = Held
    BY <1>4, FedSame DEF Held
  <2>2. StreamOK'
    BY <1>2, <1>4, <2>1, StreamStutter
  <2> QED BY <1>3, <1>4, <2>1, <2>2
<1>5. CASE FeedExtra
  <2>1. frames_' = frames_ /\ Held' = Held
    BY <1>5 DEF FeedExtra, Held, runVars
  <2> QED BY <1>2, <1>3, <1>5, <2>1, StreamFeedExtra
<1>6. ASSUME NEW p \in Packets, SkipPacket(p) \/ ParsePacket(p) \/ FeedRefused(p)
      PROVE  StreamOK' /\ Decoded' = Decoded
  <2>1. frames_' = frames_ /\ Held' = Held
    BY <1>6 DEF SkipPacket, ParsePacket, FeedRefused, Held, runVars
  <2>2. StreamOK'
    BY <1>2, <1>6, StreamSkip, StreamParse, StreamRefused
  <2> QED BY <1>3, <2>1, <2>2
<1>7. CASE DecodeExtra \/ \E b \in Buffers : ReceiveFrame(b)
  <2>1. /\ codec # << >> /\ codec' = Tail(codec)
        /\ \/ Head(codec) = 0 /\ frames_' = frames_ /\ DecodeExtra
           \/ /\ Head(codec) # 0 /\ frames_' = Append(frames_, Head(codec))
              /\ \E b \in Buffers : ReceiveFrame(b)
        /\ UNCHANGED <<file, read, refused, rpc, hand>>
    BY <1>7 DEF DecodeExtra, ReceiveFrame, demuxVars, runVars, ownerVars
  <2>2. Fed' = Fed /\ Held' = Held
    BY <2>1, FedSame DEF Held
  <2>3. StreamOK'
    BY <1>2, <2>1, <2>2, StreamDecode
  <2> QED BY <1>3, <2>1, <2>2, <2>3
<1>8. CASE RunPop
  BY <1>2, <1>8, StreamPop
<1> QED
  <2>1. CASE Loop \/ ConstructorThrows
    BY <1>4, <2>1 DEF Loop, ConstructorThrows, Run, decoderVars, runVars, ownerVars
  <2>2. CASE DemuxTest \/ ParseReturns \/ SendEos \/ AfterLoop \/ DemuxEnd
             \/ FeedThrows
    BY <1>4, <2>2 DEF DemuxTest, ParseReturns, SendEos, AfterLoop, DemuxEnd,
                      FeedThrows, decoderVars, runVars, ownerVars
  <2>3. CASE ReceiveEos \/ Downstream
    BY <1>4, <2>3 DEF ReceiveEos, Downstream, Execute, DestroyFrame, demuxVars,
                      decoderVars, runVars, ownerVars
  <2>4. CASE RunTest \/ RunTimeout \/ TestEos \/ Finish \/ ProcessEos
    BY <1>4, <2>4 DEF RunTest, RunTimeout, TestEos, Finish, ProcessEos, Run,
                      demuxVars, decoderVars, ownerVars
  <2> QED BY <1>5, <1>6, <1>7, <1>8, <2>1, <2>2, <2>3, <2>4
          DEF Next, DemuxLoop, DecoderFails, EasyDecode, RunLoop

-----------------------------------------------------------------------------
(* The buffers.                                                            *)

\* A packet gets its buffer when it is decoded, which happens once.
LEMMA BufferReceive ==
    ASSUME TypeOK, StreamOK, EndOK, DemuxOK, BufferOK, BuffersOwned,
           NEW b \in Buffers, ReceiveFrame(b)
    PROVE  BufferOK' /\ BuffersOwned'
<1> DEFINE h == Head(codec)
<1>1. Sent' = Sent /\ Held' = Held /\ Fed' = Fed
  <2>1. UNCHANGED <<file, read, refused, rpc, hand, out>>
    BY DEF ReceiveFrame, demuxVars, runVars, ownerVars
  <2> QED BY <2>1, FedSame DEF Sent, Held
<1>2. /\ codec # << >> /\ codec' = Tail(codec) /\ h # 0
      /\ frames_' = Append(frames_, h)
      /\ b \in free /\ free' = free \ {b}
      /\ buf' = [buf EXCEPT ![h] = b]
      /\ host' = host /\ destroyed' = destroyed
  BY DEF ReceiveFrame, ownerVars
<1>3. /\ Decoded' = Decoded \union ({h} \ {0})
      /\ h \notin Decoded
  BY <1>1, <1>2, StreamDecode
<1>4. h \in Packets
  <2>1. h \in 0 .. N
    BY <1>2, CodecFacts, TailIncreasing DEF TypeOK, StreamOK
  <2> QED BY <1>2, <2>1, CodecFacts
<1> HIDE DEF h
<1>5. /\ buf \in [Packets -> 0 .. OutputBuffers] /\ b # 0
      /\ buf'[h] = b
      /\ \A f \in Packets \ {h} : buf'[f] = buf[f]
  BY <1>2, <1>4, CodecFacts DEF TypeOK
<1>6. Range(Sent) \subseteq Decoded
  BY DEF Decoded
<1>7. BufferOK'
  <2>1. \A f \in Packets : buf'[f] # 0 <=> f \in Decoded'
    BY <1>2, <1>3, <1>5 DEF BufferOK
  <2> QED BY <1>1, <1>2, <2>1 DEF BufferOK
<1>8. BuffersOwned'
  <2> SUFFICES ASSUME ~host
               PROVE  \A f \in Living' :
                         /\ buf'[f] \notin free'
                         /\ \A g \in Living' : buf'[f] = buf'[g] => f = g
    BY <1>2 DEF BuffersOwned
  <2>1. h \notin Living /\ Living' \subseteq Living \union {h}
    BY <1>2, <1>3, <1>5, <1>6 DEF Living, BufferOK
  <2>2. \A f \in Living : f \in Packets /\ buf'[f] = buf[f] /\ buf[f] \notin free
    BY <1>5, <2>1 DEF Living, BuffersOwned
  <2>3. \A f, g \in Living : buf[f] = buf[g] => f = g
    BY DEF BuffersOwned
  <2> QED BY <1>2, <1>5, <2>1, <2>2, <2>3
<1> QED BY <1>7, <1>8

LEMMA BufferStep ==
    ASSUME TypeOK, StreamOK, EndOK, DemuxOK, BufferOK, BuffersOwned, Next
    PROVE  BufferOK' /\ BuffersOwned'
<1>1. CASE \E b \in Buffers : ReceiveFrame(b)
  BY <1>1, BufferReceive
<1> SUFFICES ASSUME ~\E b \in Buffers : ReceiveFrame(b)
             PROVE  BufferOK' /\ BuffersOwned'
  BY <1>1
<1>2. Decoded' = Decoded /\ Range(Sent) \subseteq Range(Sent')
  BY StreamStep
<1>3. CASE UNCHANGED <<host, free, buf, destroyed>>
  BY <1>2, <1>3 DEF BufferOK, BuffersOwned, Living
<1>4. ASSUME NEW f \in Packets, Execute(f)
      PROVE  BufferOK' /\ BuffersOwned'
  BY <1>2, <1>4 DEF Execute, ReleaseBuffer, BufferOK, BuffersOwned, Living
<1>5. ASSUME NEW f \in Packets, DestroyFrame(f)
      PROVE  BufferOK' /\ BuffersOwned'
  <2>1. /\ f \in Range(Sent) /\ f \notin destroyed /\ buf[f] \in Buffers
        /\ buf[f] # 0
    BY <1>5, RequestedSent, CodecFacts DEF DestroyFrame
  <2>2. /\ free' = free \union {buf[f]} /\ buf' = buf /\ host' = host
        /\ destroyed' = destroyed \union {f}
    BY <1>5 DEF DestroyFrame, ReleaseBuffer
  <2>3. Living' = Living \ {f} /\ f \in Living
    BY <2>1, <2>2 DEF Living
  <2>4. BuffersOwned'
    BY <2>2, <2>3 DEF BuffersOwned
  <2> QED BY <1>2, <2>1, <2>2, <2>4 DEF BufferOK
<1> QED
  BY <1>3, <1>4, <1>5
     DEF Next, Loop, ConstructorThrows, DemuxLoop, DecoderFails, EasyDecode,
         RunLoop, Downstream, DemuxTest, FeedExtra, ParseReturns, SendEos,
         AfterLoop, DemuxEnd, SkipPacket, ParsePacket, FeedThrows, FeedRefused,
         DecodeExtra, ReceiveEos, RunTest, RunPop, RunTimeout, Process, TestEos,
         Finish, ProcessEos, ownerVars, bufferVars

-----------------------------------------------------------------------------
(* The invariant holds, and what follows from it.                          *)

LEMMA InitIInv == Init => IInv
<1> SUFFICES ASSUME Init PROVE IInv
  OBVIOUS
<1>1. TypeOK
  BY InitTypeOK
<1>2. /\ Sent = << >> /\ Range(Sent) = {} /\ Range(frames_) = {} /\ Range(codec) = {}
      /\ Held = {} /\ Decoded = {}
  <2>1. \A s : s = << >> => Range(s) = {}
    BY DEF Range
  <2> QED BY <2>1 DEF Init, Sent, Held, Decoded
<1>3. StreamOK
  <2>1. Fed = {}
    BY <1>1, AcceptedFacts DEF Init
  <2>2. Increasing(<< >>)
    BY DEF Increasing
  <2> QED BY <1>2, <2>1, <2>2 DEF Init, StreamOK, Before
<1>4. EndOK
  BY <1>2 DEF Init, EndOK
<1>5. DemuxOK
  <2>1. 1 .. read = {}
    BY DEF Init
  <2> QED BY <2>1 DEF Init, DemuxOK
<1>6. LastOK
  BY DEF Init, LastOK
<1>7. BufferOK /\ BuffersOwned
  BY <1>2 DEF Init, BufferOK, BuffersOwned, Living
<1> QED BY <1>1, <1>3, <1>4, <1>5, <1>6, <1>7 DEF IInv

LEMMA NextIInv == IInv /\ [Next]_vars => IInv'
<1> SUFFICES ASSUME IInv, [Next]_vars PROVE IInv'
  OBVIOUS
<1> USE DEF IInv
<1>1. CASE Next
  BY <1>1, TypeStep, StreamStep, DemuxOKStep, LastOKStep, BufferStep
<1>2. CASE UNCHANGED vars
  <2>1. /\ Sent' = Sent /\ Held' = Held /\ Fed' = Fed /\ Decoded' = Decoded
        /\ Living' = Living
    BY <1>2, FedSame DEF vars, Sent, Held, Decoded, Living
  <2>2. TypeOK' /\ StreamOK' /\ EndOK'
    BY <1>2, <2>1, StreamStutter DEF vars, TypeOK, EndOK
  <2>3. DemuxOK' /\ LastOK' /\ BufferOK' /\ BuffersOwned'
    BY <1>2, <2>1 DEF vars, DemuxOK, LastOK, Drained, BufferOK, BuffersOwned
  <2> QED BY <2>2, <2>3
<1> QED BY <1>1, <1>2

\* What has been sent is all that was fed, up to the last of it.
LEMMA SentBegins ==
    ASSUME IInv
    PROVE  Begins(Sent, Accepted)
<1> USE DEF IInv
<1>1. Range(Sent) \subseteq Accepted
  BY DEF StreamOK, Decoded, Fed
<1>2. ASSUME NEW q \in Range(Sent), NEW p \in Accepted, p < q
      PROVE  p \in Range(Sent)
  <2>1. p \in Fed
    <3>1. q \in Fed
      BY DEF StreamOK, Decoded
    <3> QED BY <1>1, <1>2, <3>1, AcceptedFacts DEF Fed
  <2>2. \A x \in Held \union Range(frames_) \union Range(codec) : q < x
    BY DEF StreamOK, Before, Decoded
  <2>3. ~(q < p)
    BY <1>1, <1>2, AcceptedFacts
  <2> QED BY <2>1, <2>2, <2>3 DEF StreamOK, Decoded
<1> QED BY <1>1, <1>2 DEF Begins, StreamOK, Increasing

LEMMA WholeVideo ==
    ASSUME IInv, rpc = "end", dpc = "end", ~late, ~thrown
    PROVE  Range(Sent) = Accepted
<1> USE DEF IInv
<1>1. frames_ = << >> /\ codec = << >> /\ Held = {}
  BY DEF LastOK, Drained, Held
<1>2. Range(frames_) = {} /\ Range(codec) = {}
  BY <1>1, RangeEmpty DEF TypeOK
<1>3. Range(Sent) = Fed
  BY <1>1, <1>2 DEF StreamOK, Decoded
<1>4. Fed = Accepted
  <2>1. \A p \in Accepted : p <= read
    <3>1. CASE refused # 0
      <4>1. refused = read /\ \A p \in Accepted : p < refused
        BY <3>1 DEF DemuxOK, Accepted
      <4> QED BY <4>1, AcceptedFacts
    <3>2. CASE read = Len(file.packets)
      BY <3>2, AcceptedFacts
    <3> QED BY <3>1, <3>2 DEF DemuxOK
  <2> QED BY <2>1 DEF Fed
<1> QED BY <1>3, <1>4

\* The inductive invariant: which packets the decoder was fed and where they
\* are, how far DemuxLoop has read, what each thread knows when it ends, and
\* which frames have a buffer.
THEOREM DecoderInvariance == Spec => []IInv
BY InitIInv, NextIInv, PTL DEF Spec

\* The types are right, and with preprocessing on the device no two frames
\* that live have the same buffer and none has a free one, for every file and
\* every number of buffers.
THEOREM DecoderInvCorrect == Spec => []DecoderInv
<1>1. IInv => DecoderInv
  BY DEF IInv, DecoderInv
<1> QED BY <1>1, DecoderInvariance, PTL

\* What Source sends is a beginning of the video in the order of the file; it
\* is the whole video when both loops have ended, the decoder had finished
\* before DemuxLoop woke and did not throw.
THEOREM CompleteUnlessLateCorrect == Spec => []CompleteUnlessLate
<1>1. IInv => CompleteUnlessLate
  BY SentBegins, WholeVideo DEF CompleteUnlessLate
<1> QED BY <1>1, DecoderInvariance, PTL
=============================================================================
