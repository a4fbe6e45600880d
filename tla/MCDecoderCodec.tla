--------------------------- MODULE MCDecoderCodec ----------------------------
(***************************************************************************)
(* Instance of DecoderCodec: a file whose end the source sees, and one for *)
(* every way in which a file differs from it.                              *)
(***************************************************************************)
EXTENDS DecoderCodec

File(container, codecOf, streams, extra, packets) ==
    [container |-> container, codec |-> codecOf, streams |-> streams,
     extra |-> extra, packets |-> packets]

Key(stream) == [stream |-> stream, key |-> TRUE]
Packet(stream) == [stream |-> stream, key |-> FALSE]

Video4 == <<Key(0), Packet(0), Packet(0), Packet(0)>>

MCFiles == {
    File("mp4", "h264", <<"video">>, TRUE, Video4),
    \* It begins between two key frames, and other streams are mixed in.
    File("flv", "hevc", <<"video", "audio", "video">>, FALSE,
         <<Packet(0), Key(1), Key(0), Key(2), Packet(0)>>),
    \* The video is not the first stream.
    File("mp4", "h264", <<"audio", "video">>, FALSE, <<Key(0), Key(1), Packet(1)>>),
    \* No key frame, no packet, no video, no stream.
    File("mp4", "h264", <<"video">>, TRUE, <<Packet(0), Packet(0)>>),
    File("h264", "h264", <<"video">>, TRUE, << >>),
    File("mp4", "other", <<"audio">>, FALSE, <<Key(0)>>),
    File("avi", "other", <<"audio">>, FALSE, <<Key(0)>>),
    File("mp4", "h264", << >>, FALSE, << >>),
    \* A codec that the decoder does not have, and a container Open passes by.
    File("mp4", "other", <<"video">>, FALSE, <<Key(0)>>),
    File("avi", "h264", <<"video">>, FALSE, <<Key(0)>>)
}
=============================================================================
