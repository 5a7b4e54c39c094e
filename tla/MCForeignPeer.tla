---------------------------- MODULE MCForeignPeer ----------------------------
(***************************************************************************)
(* ForeignPeer with pings and chunk size announcements between the parts   *)
(* of the audio and video messages, an empty message, and times that call  *)
(* for every header format.                                                *)
(***************************************************************************)
EXTENDS ForeignPeer

CONSTANT Times      \* the times of the video messages

Message(id, type, sid, time, length, value) ==
    [cid |-> id, timestamp |-> time, payload_length |-> length, message_type |-> type,
     stream_id |-> sid, value |-> value]

MCMessages ==
    {Message(6, "Video", 1, t, 3, 1) : t \in Times}
        \cup {Message(7, "Audio", 1, 1, n, 1) : n \in {0, 2}}
        \cup {Message(2, "UserControl", 0, 1, 2, 1)}
        \cup {Message(2, RTMP_MSG_SetChunkSize, 0, 0, 2, n) : n \in {1, 3}}

AllTimes == 0..5
==============================================================================
