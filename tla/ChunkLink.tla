------------------------------ MODULE ChunkLink ------------------------------
(***************************************************************************)
(* One direction of a connection between two SrsProtocol: the sending half *)
(* (do_send_and_free_packet, do_simple_send, do_send_messages and the      *)
(* chunk headers of srs_kernel_utility.cpp) cuts messages into chunks, and *)
(* ChunkReader puts them together, while SetChunkSize messages change the  *)
(* size of the pieces under way.                                           *)
(***************************************************************************)
EXTENDS ChunkReader

CONSTANTS
    Messages,       \* what a user may send: headers, and the value of a SetChunkSize
    TransportSize,  \* bound: chunks the transport holds before the sender blocks
    MaxSent         \* bound: messages sent in a behaviour

\* The times are those of a 32-bit field: the extended timestamp carries all of it.
ASSUME SenderAssumption ==
    /\ Messages \subseteq [cid : ChunkStreamIds, timestamp : Nat,
                           payload_length : Nat \ {0}, message_type : STRING,
                           stream_id : Nat, value : Nat \ {0}]
    /\ TransportSize \in Nat
    /\ MaxSent \in Nat

VARIABLES
    sent,           \* the messages given to the sender, the last one maybe under way
    offset,         \* how much of the last message is in chunks
    out_chunk_size,
    cut             \* history: the out_chunk_size each chunk in the transport was cut to

senderVars == <<sent, offset, out_chunk_size, cut>>
vars == <<readerVars, senderVars>>

Init ==
    /\ ReaderInit
    /\ sent = << >>
    /\ offset = 0
    /\ out_chunk_size = SRS_CONSTS_RTMP_PROTOCOL_CHUNK_SIZE
    /\ cut = << >>

current == sent[Len(sent)]
Sending == sent # << >> /\ offset < current.payload_length

\* c0 and c3 both carry the extended timestamp, as the Adobe products expect it.
HasExtended(timestamp) == timestamp >= RTMP_EXTENDED_TIMESTAMP

\* Four payload bytes, where there is no extended timestamp, are never looked at.
PayloadWord == 0

\* srs_chunk_header_c0() and srs_chunk_header_c3() with the piece of payload the
\* send loops put behind them.
Chunk(message, from, size) ==
    [fmt |-> IF from = 0 THEN 0 ELSE 3,
     time |-> Min2(message.timestamp, RTMP_EXTENDED_TIMESTAMP),
     extended |-> HasExtended(message.timestamp),
     word |-> IF HasExtended(message.timestamp) THEN message.timestamp
              ELSE PayloadWord,
     msg |-> message, from |-> from, size |-> size]

\* send_and_free_message() or send_and_free_packet() is called; the calls of one
\* thread follow each other.
Send(m) ==
    /\ ~Sending
    /\ Len(sent) < MaxSent
    /\ sent' = Append(sent, [id |-> Len(sent) + 1, cid |-> m.cid,
                             timestamp |-> m.timestamp,
                             payload_length |-> m.payload_length,
                             message_type |-> m.message_type,
                             stream_id |-> m.stream_id, value |-> m.value])
    /\ offset' = 0
    /\ UNCHANGED <<readerVars, out_chunk_size, cut>>

\* Mutant: the new size is used as soon as SetChunkSize is being sent.
EarlyChunkSize(message, end) ==
    IF message.message_type = RTMP_MSG_SetChunkSize THEN message.value ELSE out_chunk_size

\* on_send_packet(): a SetChunkSize takes effect once all of it is written.
OutChunkSizeAfter(message, end) ==
    IF message.message_type = RTMP_MSG_SetChunkSize /\ end = message.payload_length
    THEN message.value ELSE out_chunk_size

\* One round of the send loop: header and piece in one writev().
WriteChunk ==
    /\ Sending
    /\ Len(wire) < TransportSize
    /\ LET size == Min2(current.payload_length - offset, out_chunk_size)
       IN  /\ wire' = Append(wire, Chunk(current, offset, size))
           /\ offset' = offset + size
           /\ out_chunk_size' = OutChunkSizeAfter(current, offset + size)
    /\ cut' = Append(cut, out_chunk_size)
    /\ UNCHANGED <<streams, in_chunk_size, pc, is_first_chunk_of_msg, fault, delivered, sent>>

Receive ==
    /\ recv_message
    /\ cut' = IF wire' = wire THEN cut ELSE Tail(cut)
    /\ UNCHANGED <<sent, offset, out_chunk_size>>

Next ==
    \/ \E m \in Messages : Send(m)
    \/ WriteChunk
    \/ Receive

Spec == Init /\ [][Next]_vars

\* A writer whose transport has room writes, and the peer calls recv_message() again.
FairSpec == Spec /\ WF_vars(WriteChunk) /\ WF_vars(Receive)

------------------------------------------------------------------------------
\* Every variable keeps its type.
TypeOK ==
    /\ sent \in Seq([id : Nat, cid : ChunkStreamIds, timestamp : Nat,
                     payload_length : Nat \ {0}, message_type : STRING,
                     stream_id : Nat, value : Nat \ {0}])
    /\ offset \in Nat
    /\ out_chunk_size \in Nat \ {0}
    /\ in_chunk_size \in Nat \ {0}
    /\ pc \in {"basic_header", "message_header", "extended_timestamp", "payload"}
    /\ is_first_chunk_of_msg \in BOOLEAN
    /\ fault \in {NoFault, "ERROR_RTMP_CHUNK_START", "ERROR_RTMP_PACKET_SIZE", "desync"}
    /\ Len(cut) = Len(wire)

\* Messages come out unchanged, in the order they were sent.
DeliveredAsSent ==
    /\ Len(delivered) <= Len(sent)
    /\ \A k \in 1..Len(delivered) : /\ Faithful(delivered[k])
                                    /\ delivered[k].body = sent[k]

\* The two sides use a chunk size for the same chunks: the head of the transport
\* was cut to the reader's size, and a reader that caught up agrees with the sender.
ChunkSizesAgree ==
    IF wire = << >> THEN in_chunk_size = out_chunk_size ELSE in_chunk_size = Head(cut)

\* Everything sent arrives.
AllArrives ==
    \A n \in 1..MaxSent : Len(sent) >= n ~> Len(delivered) >= n

\* A connection is a FIFO of messages (see MessageChannel).
Channel == INSTANCE MessageChannel WITH
    accepted <- Len(sent), received <- [k \in 1..Len(delivered) |-> delivered[k].body.id]
RefinesMessageChannel == Channel!ChannelSpec
==============================================================================
