----------------------------- MODULE MCChunkLink -----------------------------
(***************************************************************************)
(* ChunkLink with an audio and a video stream and announcements of a       *)
(* smaller and a larger chunk size.  Times lie below and above the         *)
(* extended timestamp's threshold, and on and beyond the 31 bits the       *)
(* reader keeps (here 4).                                                  *)
(***************************************************************************)
EXTENDS ChunkLink

Audio(time, length) ==
    [cid |-> 7, timestamp |-> time, payload_length |-> length,
     message_type |-> "Audio", stream_id |-> 1, value |-> 1]
Video(time, length) ==
    [cid |-> 6, timestamp |-> time, payload_length |-> length,
     message_type |-> "Video", stream_id |-> 1, value |-> 1]
SetChunkSize(size) ==
    [cid |-> 2, timestamp |-> 0, payload_length |-> 4,
     message_type |-> RTMP_MSG_SetChunkSize, stream_id |-> 0, value |-> size]

MCMessages ==
    {Audio(t, 1) : t \in {0, 3}} \cup {Video(t, 5) : t \in {1, 2, 4, 5}}
        \cup {SetChunkSize(n) : n \in {1, 2, 3}}
==============================================================================
