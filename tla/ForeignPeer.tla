----------------------------- MODULE ForeignPeer -----------------------------
(***************************************************************************)
(* ChunkReader against a peer that is not SRS.  The peer is external: it   *)
(* is RTMP as the comments of read_message_header() describe FMLE, flash,  *)
(* ffmpeg and librtmp.  It interleaves its chunk streams, compresses the   *)
(* headers of new messages with formats 1, 2 and 3, and may leave the      *)
(* extended timestamp out of continued chunks.                             *)
(***************************************************************************)
EXTENDS ChunkReader

CONSTANTS
    Messages,       \* what the peer may send
    MaxSent,        \* bound: messages sent in a behaviour
    TransportSize,  \* bound: chunks in the transport
    PayloadWords,   \* what four bytes of payload may be, read as a number
    ExtendedDeltas  \* whether a delta may need the extended timestamp

ASSUME PeerAssumption ==
    /\ \A m \in Messages :
          /\ m.cid \in ChunkStreamIds
          /\ m.timestamp \in Nat /\ m.payload_length \in Nat /\ m.value \in Nat \ {0}
          /\ m.message_type = RTMP_MSG_SetChunkSize => m.payload_length > 0
    /\ PayloadWords \subseteq Nat /\ PayloadWords # {}
    /\ MaxSent \in Nat /\ TransportSize \in Nat /\ ExtendedDeltas \in BOOLEAN

VARIABLES
    under_way,      \* per chunk stream, the message in parts and how far it is, or Idle
    last,           \* per chunk stream, the header of the last message started
    peer_chunk_size,
    repeats,        \* whether continued chunks repeat the extended timestamp
    started,        \* how many messages were started
    finished        \* the messages completely written, in that order, but the empty ones

\* How far the peer is.  Each chunk keeps where it began, and how many messages were
\* finished then; no reader sees it.
Now == [under_way |-> under_way, last |-> last, size |-> peer_chunk_size]

peerVars == <<under_way, last, peer_chunk_size, repeats, started, finished>>
vars == <<readerVars, peerVars>>

Idle == [msg |-> Nobody, offset |-> 0, extended |-> FALSE, word |-> 0]
Unused == [timestamp |-> 0, time |-> 0, extended |-> FALSE, payload_length |-> 0,
           message_type |-> "none", stream_id |-> 0, used |-> FALSE]
Unread == 0     \* four bytes of payload where no reader looks for a timestamp

Init ==
    /\ ReaderInit
    /\ under_way = [c \in ChunkStreamIds |-> Idle]
    /\ last = [c \in ChunkStreamIds |-> Unused]
    /\ peer_chunk_size = SRS_CONSTS_RTMP_PROTOCOL_CHUNK_SIZE
    /\ repeats \in BOOLEAN
    /\ started = 0
    /\ finished = << >>

\* The formats RTMP lets a new message m have after the one before it on its
\* stream; a librtmp ping starts a fresh control stream with format 1.
MayUse(fmt, m) ==
    LET l == last[m.cid]
        delta == m.timestamp - l.timestamp
        compressible == /\ l.used \/ (m.cid = RTMP_CID_ProtocolControl /\ fmt = 1)
                        /\ m.stream_id = l.stream_id
                        /\ delta >= 0
                        /\ delta < RTMP_EXTENDED_TIMESTAMP \/ ExtendedDeltas
        sameShape == m.payload_length = l.payload_length /\ m.message_type = l.message_type
    IN  CASE fmt = 0 -> TRUE
          [] fmt = 1 -> compressible
          [] fmt = 2 -> compressible /\ sameShape
          [] fmt = 3 -> compressible /\ sameShape /\ delta = l.time /\ ~l.extended

\* Writing the next piece of message m puts a chunk into the transport, and a
\* complete SetChunkSize changes the size of the chunks after it.  The extended
\* timestamp is word; without it, the header is followed by these bytes of payload.
Put(fmt, m, time, extended, word, payload, from) ==
    LET size == Min2(m.payload_length - from, peer_chunk_size)
        end == from + size
    IN  /\ Len(wire) < TransportSize
        /\ wire' = Append(wire, [fmt |-> fmt, time |-> time, extended |-> extended,
                                 word |-> IF extended THEN word ELSE payload,
                                 msg |-> m, from |-> from, size |-> size,
                                 before |-> Now, place |-> Len(finished)])
        /\ under_way' = [under_way EXCEPT ![m.cid] =
                           IF end = m.payload_length THEN Idle
                           ELSE [msg |-> m, offset |-> end, extended |-> extended,
                                 word |-> word]]
        /\ finished' = IF end = m.payload_length /\ m.payload_length > 0
                       THEN Append(finished, m) ELSE finished
        /\ peer_chunk_size' = IF /\ end = m.payload_length
                                 /\ m.message_type = RTMP_MSG_SetChunkSize
                              THEN m.value ELSE peer_chunk_size
        /\ UNCHANGED <<streams, in_chunk_size, pc, is_first_chunk_of_msg, fault, delivered,
                       repeats>>

Numbered(m, n) ==
    [id |-> n, cid |-> m.cid, timestamp |-> m.timestamp, payload_length |-> m.payload_length,
     message_type |-> m.message_type, stream_id |-> m.stream_id, value |-> m.value]

Start(m, fmt) ==
    LET value == IF fmt = 0 THEN m.timestamp ELSE m.timestamp - last[m.cid].timestamp
        extended == value >= RTMP_EXTENDED_TIMESTAMP
        time == IF extended THEN RTMP_EXTENDED_TIMESTAMP ELSE value
    IN  /\ started < MaxSent
        /\ under_way[m.cid] = Idle
        /\ MayUse(fmt, m)
        /\ Put(fmt, Numbered(m, started + 1), time, extended, value, Unread, 0)
        /\ last' = [last EXCEPT ![m.cid] =
                      [timestamp |-> m.timestamp, time |-> time, extended |-> extended,
                       payload_length |-> m.payload_length, message_type |-> m.message_type,
                       stream_id |-> m.stream_id, used |-> TRUE]]
        /\ started' = started + 1

Continue(c) ==
    /\ under_way[c] # Idle
    /\ LET u == under_way[c]
       IN  \E payload \in IF last[c].extended /\ ~repeats THEN PayloadWords ELSE {Unread} :
               Put(3, u.msg, 0, u.extended /\ repeats, u.word, payload, u.offset)
    /\ UNCHANGED <<last, started>>

Receive == recv_message /\ UNCHANGED peerVars

Next ==
    \/ \E m \in Messages, fmt \in 0..3 : Start(m, fmt)
    \/ \E c \in ChunkStreamIds : Continue(c)
    \/ Receive

\* The peer completes what it starts, and the user keeps calling recv_message().
Spec ==
    /\ Init /\ [][Next]_vars
    /\ \A c \in ChunkStreamIds : SF_vars(Continue(c))
    /\ WF_vars(Receive)

------------------------------------------------------------------------------
\* Every variable keeps its type.
TypeOK ==
    /\ \A c \in ChunkStreamIds : under_way[c].offset \in Nat
    /\ peer_chunk_size \in Nat \ {0}
    /\ in_chunk_size \in Nat \ {0}
    /\ started \in 0..MaxSent
    /\ Len(wire) <= TransportSize

\* A chunk that continues a message without the message's extended timestamp, and looks
\* as if it had one: the payload goes on with four bytes that are the time of the message,
\* as far as it is kept, or the time is kept as 0, which every four bytes pass for.
LooksExtended(c) ==
    /\ c.from > 0 /\ ~c.extended
    /\ c.msg.timestamp >= RTMP_EXTENDED_TIMESTAMP
    /\ c.msg.timestamp % TimestampModulus \in {0, c.word % TimestampModulus}

\* The reader took such payload for the extended timestamp.
Misled == fault = "desync" /\ wire # << >> /\ LooksExtended(chunk)

\* The reader never errs on what a conforming peer wrote, and takes bytes for something
\* they are not only where it cannot tell: payload that looks like the extended timestamp
\* which the peer left out.
OnlyLookalikesMisread == fault # NoFault => Misled

\* However the chunk streams interleave and the headers are compressed, messages
\* come out in the order they were completed, each one whole and once, and only the
\* empty ones are left out.
DeliveredInOrder ==
    /\ Len(delivered) <= Len(finished)
    /\ \A k \in 1..Len(delivered) : delivered[k].body = finished[k]

\* The compressed headers are expanded to the header the peer meant: a message's
\* length, type, stream and time are its own, never those of the message before it.
HeadersAreTheirOwn == \A k \in 1..Len(delivered) : Faithful(delivered[k])

\* Every message that has something in it arrives, once its first chunk is on its way,
\* unless payload that looks like a timestamp is misread before.
AllArrives ==
    \A n \in 1..MaxSent :
        (\E k \in 1..Len(wire) : wire[k].msg.id = n /\ wire[k].msg.payload_length > 0)
            ~> \/ \E k \in 1..Len(delivered) : delivered[k].body.id = n
               \/ Misled
==============================================================================
