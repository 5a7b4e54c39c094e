----------------------------- MODULE ChunkReader -----------------------------
(***************************************************************************)
(* The receiving half of SrsProtocol (srs_rtmp_stack.cpp): chunks of       *)
(* several chunk streams come in on one transport and are put together to  *)
(* messages.  recv_message() runs as the four blocking reads it is made    *)
(* of, one action each; who fills the transport is left to the modules     *)
(* that extend this one.                                                   *)
(*                                                                         *)
(* A chunk on the transport is a record: its format, the 3-byte time field *)
(* of its message header, the four bytes that follow that header (an       *)
(* extended timestamp, or the start of the payload), and the piece         *)
(* from..from+size-1 of a message's payload.  The payload is abstracted to *)
(* whose it is and where it starts, which is all that can go wrong.        *)
(***************************************************************************)
EXTENDS Integers, Sequences

CONSTANTS
    ChunkStreamIds,                     \* the chunk streams in use
    RTMP_CID_ProtocolControl,           \* the one of the protocol's own messages
    RTMP_EXTENDED_TIMESTAMP,            \* 0xffffff in the code
    TimestampModulus,                   \* 2^31, the reach of the mask 0x7fffffff
    SRS_CONSTS_RTMP_PROTOCOL_CHUNK_SIZE \* the chunk size both sides start with

ASSUME ReaderAssumption ==
    /\ RTMP_CID_ProtocolControl \in ChunkStreamIds
    /\ ChunkStreamIds \subseteq 2..63   \* the one-byte basic header
    /\ RTMP_EXTENDED_TIMESTAMP \in Nat \ {0}
    /\ TimestampModulus \in Nat \ {0}
    /\ RTMP_EXTENDED_TIMESTAMP < TimestampModulus
    /\ SRS_CONSTS_RTMP_PROTOCOL_CHUNK_SIZE \in Nat \ {0}

VARIABLES
    wire,           \* the chunks in the transport and in in_buffer, oldest first
    streams,        \* cs_cache and chunk_streams: one SrsChunkStream per id
    in_chunk_size,
    pc,             \* the read recv_message() is at
    is_first_chunk_of_msg,  \* the local of read_message_header()
    fault,          \* the error recv_message() returned, or "desync": it took
                    \* bytes for something they are not
    delivered       \* the messages recv_message() returned so far

readerVars == <<wire, streams, in_chunk_size, pc, is_first_chunk_of_msg, fault, delivered>>

RTMP_MSG_SetChunkSize == "SetChunkSize"
NoFault == "none"
Nobody == [id |-> 0]    \* the body of a message no payload arrived for
Garbled == [id |-> -1]  \* pieces that do not follow each other

Min2(a, b) == IF a < b THEN a ELSE b

\* SrsChunkStream: the header remembered from chunk to chunk, and chunk->msg.
FreshStream ==
    [timestamp |-> 0, timestamp_delta |-> 0, payload_length |-> 0,
     message_type |-> "none", stream_id |-> 0, extended_timestamp |-> FALSE,
     msg_count |-> 0, open |-> FALSE, size |-> 0, body |-> Nobody]

ReaderInit ==
    /\ wire = << >>
    /\ streams = [cid \in ChunkStreamIds |-> FreshStream]
    /\ in_chunk_size = SRS_CONSTS_RTMP_PROTOCOL_CHUNK_SIZE
    /\ pc = "basic_header"
    /\ is_first_chunk_of_msg = TRUE
    /\ fault = NoFault
    /\ delivered = << >>

chunk == Head(wire)
cid == chunk.msg.cid
stream == streams[cid]

Fail(error) ==
    /\ fault' = error
    /\ UNCHANGED <<wire, streams, in_chunk_size, pc, is_first_chunk_of_msg, delivered>>

------------------------------------------------------------------------------
\* read_basic_header() and the lookup of the chunk stream.
ReadBasicHeader ==
    /\ fault = NoFault /\ pc = "basic_header" /\ wire # << >>
    /\ is_first_chunk_of_msg' = ~stream.open
    /\ pc' = "message_header"
    /\ UNCHANGED <<wire, streams, in_chunk_size, fault, delivered>>

\* A fresh chunk stream starts with format 0, or with format 1 when it is the
\* protocol's own, and format 0 never continues a message.
StartsWrong ==
    \/ /\ stream.msg_count = 0 /\ chunk.fmt # 0
       /\ ~(cid = RTMP_CID_ProtocolControl /\ chunk.fmt = 1)
    \/ stream.open /\ chunk.fmt = 0

LengthChanges ==
    /\ chunk.fmt <= 1 /\ ~is_first_chunk_of_msg
    /\ stream.payload_length # chunk.msg.payload_length

\* Mutant: a format 3 chunk never moves the time.
TimeOnlyFromHeader(s, c, first, extended) ==
    IF extended \/ c.fmt = 3 THEN s.timestamp
    ELSE IF c.fmt = 0 THEN c.time ELSE s.timestamp + c.time

\* Mutant: the absolute time of format 0 is added like a difference.
TimeAlwaysAdded(s, c, first, extended) ==
    IF extended \/ (c.fmt = 3 /\ ~first) THEN s.timestamp
    ELSE s.timestamp + IF c.fmt = 3 THEN s.timestamp_delta ELSE c.time

\* The timestamp the message header alone gives.  A format 3 chunk that starts a
\* message repeats the last time field.
HeaderTimestamp(s, c, first, extended) ==
    CASE extended -> s.timestamp
      [] ~extended /\ c.fmt = 0 -> c.time
      [] ~extended /\ c.fmt \in {1, 2} -> s.timestamp + c.time
      [] ~extended /\ c.fmt = 3 /\ first -> s.timestamp + s.timestamp_delta
      [] OTHER -> s.timestamp

\* What a chunk's message header makes of the chunk stream; msg_count is only
\* ever compared with 0.
WithHeader(s, c, first) ==
    LET extended == IF c.fmt <= 2 THEN c.time >= RTMP_EXTENDED_TIMESTAMP
                    ELSE s.extended_timestamp
    IN  [s EXCEPT !.extended_timestamp = extended,
                  !.timestamp = HeaderTimestamp(s, c, first, extended) % TimestampModulus,
                  !.timestamp_delta = IF c.fmt <= 2 THEN c.time ELSE @,
                  !.payload_length = IF c.fmt <= 1 THEN c.msg.payload_length ELSE @,
                  !.message_type = IF c.fmt <= 1 THEN c.msg.message_type ELSE @,
                  !.stream_id = IF c.fmt = 0 THEN c.msg.stream_id ELSE @,
                  !.msg_count = 1, !.open = TRUE]

\* read_message_header() up to the extended timestamp.
ReadMessageHeader ==
    /\ fault = NoFault /\ pc = "message_header"
    /\ CASE StartsWrong -> Fail("ERROR_RTMP_CHUNK_START")
         [] ~StartsWrong /\ LengthChanges -> Fail("ERROR_RTMP_PACKET_SIZE")
         [] OTHER ->
              /\ streams' = [streams EXCEPT
                                ![cid] = WithHeader(@, chunk, is_first_chunk_of_msg)]
              /\ pc' = IF streams'[cid].extended_timestamp THEN "extended_timestamp"
                       ELSE "payload"
              /\ UNCHANGED <<wire, in_chunk_size, is_first_chunk_of_msg, fault, delivered>>

\* Mutant: the extended timestamp is expected in every chunk.
NeverLeftOut == FALSE

\* The four bytes are no extended timestamp: the peer left it out of a chunk that
\* continues a message, which shows when they differ from the message's time.
LeftOut ==
    /\ ~is_first_chunk_of_msg
    /\ stream.timestamp > 0
    /\ stream.timestamp # chunk.word % TimestampModulus

\* The rest of read_message_header(): the extended timestamp, or skip(-4).
ReadExtendedTimestamp ==
    /\ fault = NoFault /\ pc = "extended_timestamp"
    /\ IF chunk.extended = LeftOut
       THEN Fail("desync")
       ELSE /\ streams' = [streams EXCEPT ![cid].timestamp =
                              IF LeftOut THEN @ ELSE chunk.word % TimestampModulus]
            /\ pc' = "payload"
            /\ UNCHANGED <<wire, in_chunk_size, is_first_chunk_of_msg, fault, delivered>>

\* How much of the payload the next chunk brings.
PayloadSize == Min2(stream.payload_length - stream.size, in_chunk_size)

Body(s, c) ==
    CASE s.size = 0 /\ c.from = 0 -> c.msg
      [] s.size > 0 /\ c.msg.id = s.body.id /\ c.from = s.size -> s.body
      [] OTHER -> Garbled

\* Mutant: SetChunkSize is not acted upon.
NewChunkSizeIgnored(message) == in_chunk_size

\* on_recv_message(), as far as it concerns the reader.  (The acknowledgement and
\* the ping response are in ProtocolControl.)
ChunkSizeAfter(message) ==
    IF message.message_type = RTMP_MSG_SetChunkSize /\ message.body.id > 0
    THEN message.body.value ELSE in_chunk_size

\* Mutant: the protocol's own messages are not returned to the user.
ReturnMediaOnly(message) ==
    /\ in_chunk_size' = ChunkSizeAfter(message)
    /\ delivered' = IF message.cid = RTMP_CID_ProtocolControl \/ message.payload_length = 0
                    THEN delivered ELSE Append(delivered, message)

\* recv_message() drops an empty message and returns every other one.
Return(message) ==
    IF message.payload_length = 0
    THEN UNCHANGED <<in_chunk_size, delivered>>
    ELSE /\ in_chunk_size' = ChunkSizeAfter(message)
         /\ delivered' = Append(delivered, message)

\* Mutant: the finished message is still chunk->msg.
StillOpen(s) == [s EXCEPT !.size = 0, !.body = Nobody]

\* chunk->msg = NULL, once the message is complete.
Closed(s) == [s EXCEPT !.open = FALSE, !.size = 0, !.body = Nobody]

\* read_message_payload(): take this chunk's part, hand out a complete message.
ReadMessagePayload ==
    /\ fault = NoFault /\ pc = "payload"
    /\ IF chunk.size # PayloadSize \/ (chunk.extended /\ ~stream.extended_timestamp)
       THEN Fail("desync")
       ELSE LET s == [stream EXCEPT !.size = @ + PayloadSize, !.body = Body(stream, chunk)]
                complete == s.size = s.payload_length
                message == [cid |-> cid, timestamp |-> s.timestamp,
                            payload_length |-> s.payload_length,
                            message_type |-> s.message_type,
                            stream_id |-> s.stream_id, body |-> s.body]
            IN  /\ streams' = [streams EXCEPT ![cid] = IF complete THEN Closed(s) ELSE s]
                /\ IF complete THEN Return(message) ELSE UNCHANGED <<in_chunk_size, delivered>>
                /\ wire' = Tail(wire)
                /\ pc' = "basic_header"
                /\ UNCHANGED <<is_first_chunk_of_msg, fault>>

recv_message ==
    \/ ReadBasicHeader
    \/ ReadMessageHeader
    \/ ReadExtendedTimestamp
    \/ ReadMessagePayload

------------------------------------------------------------------------------
\* A message came out as it went in: its header says of the payload what the
\* sender said, the time up to the 31 bits the reader keeps, and the payload is
\* one message's, complete and in order.
Faithful(message) ==
    /\ message.body.id > 0
    /\ message.cid = message.body.cid
    /\ message.timestamp = message.body.timestamp % TimestampModulus
    /\ message.payload_length = message.body.payload_length
    /\ message.message_type = message.body.message_type
    /\ message.stream_id = message.body.stream_id

\* The reader never errs on what a conforming peer wrote, and never takes bytes
\* for something they are not.
NeverDesynchronized == fault = NoFault
==============================================================================
