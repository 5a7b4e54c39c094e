--------------------------- MODULE ChunkLink_proofs --------------------------
(***************************************************************************)
(* What one SrsProtocol sends the other receives, for any messages, chunk  *)
(* sizes and times.  The inductive invariant follows one position through  *)
(* the link: the reader's place (how many messages it delivered, how much  *)
(* of the next one it has) is where the head of the transport begins, each *)
(* chunk begins where the one before it ends, and where the last one ends  *)
(* is the sender's place.  The chunk size goes along the same way.         *)
(***************************************************************************)
EXTENDS ChunkLink, TLAPS

MessageType ==
    [id : Nat, cid : ChunkStreamIds, timestamp : Nat, payload_length : Nat \ {0},
     message_type : STRING, stream_id : Nat, value : Nat \ {0}]
ChunkType ==
    [fmt : {0, 3}, time : Nat, extended : BOOLEAN, word : Nat, msg : MessageType,
     from : Nat, size : Nat]
BodyType == MessageType \cup {Nobody, Garbled}
StreamType ==
    [timestamp : Nat, timestamp_delta : Nat, payload_length : Nat,
     message_type : STRING \cup {"none"}, stream_id : Nat,
     extended_timestamp : BOOLEAN, msg_count : Nat, open : BOOLEAN, size : Nat,
     body : BodyType]
DeliveredType ==
    [cid : ChunkStreamIds, timestamp : Nat, payload_length : Nat,
     message_type : STRING \cup {"none"}, stream_id : Nat, body : BodyType]

TypeInv ==
    /\ sent \in Seq(MessageType)
    /\ offset \in Nat
    /\ out_chunk_size \in Nat \ {0}
    /\ cut \in Seq(Nat \ {0})
    /\ wire \in Seq(ChunkType)
    /\ Len(cut) = Len(wire)
    /\ streams \in [ChunkStreamIds -> StreamType]
    /\ in_chunk_size \in Nat \ {0}
    /\ pc \in {"basic_header", "message_header", "extended_timestamp", "payload"}
    /\ is_first_chunk_of_msg \in BOOLEAN
    /\ delivered \in Seq(DeliveredType)

\* Messages are numbered in the order of sending, and the sender is in the last one.
Numbered ==
    /\ \A k \in 1..Len(sent) : sent[k].id = k
    /\ sent # << >> => offset <= current.payload_length

\* A chunk of the transport is a piece of a message sent, cut to the size in cut.
PieceOf(c, m, limit) ==
    /\ c.from < m.payload_length
    /\ c = Chunk(m, c.from, Min2(m.payload_length - c.from, limit))
Pieces ==
    \A k \in 1..Len(wire) :
        /\ wire[k].msg.id \in 1..Len(sent)
        /\ PieceOf(wire[k], sent[wire[k].msg.id], cut[k])

\* Where the k-th chunk begins and its size; behind the last one, where the sender is.
IdAt(k) ==
    IF k <= Len(wire) THEN wire[k].msg.id
    ELSE IF Sending THEN Len(sent) ELSE Len(sent) + 1
FromAt(k) ==
    IF k <= Len(wire) THEN wire[k].from ELSE IF Sending THEN offset ELSE 0
CutAt(k) == IF k <= Len(wire) THEN cut[k] ELSE out_chunk_size

Ended(c) == c.from + c.size = c.msg.payload_length

\* Each chunk begins where the one before it ends.
Chained ==
    \A k \in 1..Len(wire) :
        /\ IdAt(k + 1) = IF Ended(wire[k]) THEN wire[k].msg.id + 1 ELSE wire[k].msg.id
        /\ FromAt(k + 1) = IF Ended(wire[k]) THEN 0 ELSE wire[k].from + wire[k].size
        /\ CutAt(k + 1) = IF /\ Ended(wire[k])
                             /\ wire[k].msg.message_type = RTMP_MSG_SetChunkSize
                          THEN wire[k].msg.value ELSE cut[k]

\* The message the reader is at, and its chunk stream.
reading == sent[Len(delivered) + 1]
part == streams[reading.cid]

\* The first chunk begins where the reader is.
Meets ==
    /\ IdAt(1) = Len(delivered) + 1
    /\ FromAt(1) = IF Len(delivered) < Len(sent) THEN part.size ELSE 0
    /\ CutAt(1) = in_chunk_size

\* Only the chunk stream of the message being read is open, with that message's header.
StreamsFollow ==
    \A c \in ChunkStreamIds :
        LET s == streams[c]
        IN  /\ ~s.open => s.size = 0
            /\ s.open => /\ Len(delivered) < Len(sent)
                         /\ c = reading.cid
                         /\ s.size < reading.payload_length
                         /\ s.payload_length = reading.payload_length
                         /\ s.message_type = reading.message_type
                         /\ s.stream_id = reading.stream_id
                         /\ s.extended_timestamp = HasExtended(reading.timestamp)
                         /\ s.msg_count = 1
            /\ s.size > 0 => /\ s.body = reading
                             /\ s.timestamp = reading.timestamp % TimestampModulus

\* What holds between two reads of one chunk.
BetweenReads ==
    /\ pc # "basic_header" => wire # << >>
    /\ pc \in {"basic_header", "message_header"} =>
          \A c \in ChunkStreamIds : streams[c].open => streams[c].size > 0
    /\ pc = "message_header" => is_first_chunk_of_msg = ~part.open
    /\ pc \in {"extended_timestamp", "payload"} =>
          part.open /\ is_first_chunk_of_msg = (part.size = 0)
    /\ pc = "extended_timestamp" => part.extended_timestamp
    /\ pc = "payload" => part.timestamp = reading.timestamp % TimestampModulus

IInv ==
    /\ TypeInv
    /\ Numbered
    /\ Pieces
    /\ Chained
    /\ Meets
    /\ StreamsFollow
    /\ BetweenReads
    /\ DeliveredAsSent
    /\ fault = NoFault

------------------------------------------------------------------------------
\* The mask of 31 bits, applied twice, is the mask.
LEMMA MaskTwice ==
    ASSUME NEW t \in Nat
    PROVE  /\ t % TimestampModulus \in Nat
           /\ (t % TimestampModulus) % TimestampModulus = t % TimestampModulus
    BY ReaderAssumption

\* What the invariant says of the chunk the reader is at.
LEMMA HeadFacts ==
    ASSUME IInv, wire # << >>
    PROVE  /\ Len(delivered) + 1 \in 1..Len(sent)
           /\ reading \in MessageType
           /\ part \in StreamType
           /\ Len(wire) \in Nat \ {0} /\ chunk = wire[1]
           /\ chunk \in ChunkType
           /\ chunk.msg = reading /\ cid = reading.cid /\ stream = part
           /\ chunk.from = part.size
           /\ part.size < reading.payload_length
           /\ chunk = Chunk(reading, part.size,
                            Min2(reading.payload_length - part.size, in_chunk_size))
           /\ in_chunk_size = cut[1]
<1> DEFINE m == sent[wire[1].msg.id]
<1>1. /\ Len(wire) \in Nat \ {0} /\ chunk = wire[1] /\ wire[1] \in ChunkType
      /\ Len(delivered) \in Nat
    BY DEF IInv, TypeInv, chunk
<1>2. /\ wire[1].msg.id \in 1..Len(sent)
      /\ PieceOf(wire[1], m, cut[1])
    BY <1>1 DEF IInv, Pieces
<1>3. /\ wire[1].msg.id = Len(delivered) + 1
      /\ wire[1].from = IF Len(delivered) < Len(sent) THEN part.size ELSE 0
      /\ cut[1] = in_chunk_size
    BY <1>1 DEF IInv, Meets, IdAt, FromAt, CutAt
<1>4. m = reading /\ reading \in MessageType /\ Len(delivered) < Len(sent)
      /\ Len(delivered) + 1 \in 1..Len(sent)
    BY <1>1, <1>2, <1>3 DEF IInv, TypeInv, reading
<1>5. wire[1].from = part.size
    BY <1>3, <1>4
<1>6. wire[1].msg = reading
    BY <1>2, <1>4 DEF PieceOf, Chunk
<1>7. part \in StreamType
    BY <1>4 DEF IInv, TypeInv, part, MessageType
<1>8. /\ part.size < reading.payload_length
      /\ wire[1] = Chunk(reading, part.size,
                         Min2(reading.payload_length - part.size, in_chunk_size))
    BY <1>2, <1>3, <1>4, <1>5 DEF PieceOf
<1>9. cid = reading.cid /\ stream = part
    BY <1>1, <1>6 DEF cid, stream, part
<1> QED
    BY <1>1, <1>3, <1>4, <1>5, <1>6, <1>7, <1>8, <1>9

\* The initial states.
LEMMA Initial == Init => IInv
<1> SUFFICES ASSUME Init PROVE IInv
    OBVIOUS
<1>1. FreshStream \in StreamType
    <2>1. Nobody \in BodyType
        BY DEF BodyType
    <2> QED
        BY <2>1 DEF FreshStream, StreamType
<1> USE DEF Init, ReaderInit
<1>2. TypeInv
    BY <1>1, ReaderAssumption DEF TypeInv
<1>3. Numbered /\ Pieces /\ Chained /\ DeliveredAsSent
    BY DEF Numbered, Pieces, Chained, DeliveredAsSent
<1>4. Meets
    BY DEF Meets, IdAt, FromAt, CutAt, Sending
<1>5. StreamsFollow
    BY DEF StreamsFollow, FreshStream
<1>6. BetweenReads
    BY DEF BetweenReads, FreshStream
<1> QED
    BY <1>2, <1>3, <1>4, <1>5, <1>6 DEF IInv

\* A step of neither side's position.
LEMMA PlacesKept ==
    ASSUME IInv, UNCHANGED <<wire, cut, sent, offset, out_chunk_size>>
    PROVE  Numbered' /\ Pieces' /\ Chained'
<1>1. Numbered'
    BY DEF IInv, Numbered, current
<1>2. Pieces'
    BY DEF IInv, Pieces
<1>3. ASSUME NEW k \in Int
      PROVE  IdAt(k)' = IdAt(k) /\ FromAt(k)' = FromAt(k) /\ CutAt(k)' = CutAt(k)
    BY DEF IdAt, FromAt, CutAt, Sending, current
<1>4. Chained'
    <2> SUFFICES ASSUME NEW k \in 1..Len(wire)
                 PROVE  /\ IdAt(k + 1)' = IF Ended(wire[k]) THEN wire[k].msg.id + 1
                                          ELSE wire[k].msg.id
                        /\ FromAt(k + 1)' = IF Ended(wire[k]) THEN 0
                                            ELSE wire[k].from + wire[k].size
                        /\ CutAt(k + 1)' =
                              IF /\ Ended(wire[k])
                                 /\ wire[k].msg.message_type = RTMP_MSG_SetChunkSize
                              THEN wire[k].msg.value ELSE cut[k]
        BY DEF Chained, Ended
    <2>1. k + 1 \in Int
        OBVIOUS
    <2> QED
        BY <1>3, <2>1 DEF IInv, Chained
<1> QED
    BY <1>1, <1>2, <1>4

------------------------------------------------------------------------------
\* A message given to the sender moves no place: its first byte follows the last one
\* of the message before it.
LEMMA SendKeeps ==
    ASSUME IInv, NEW m \in Messages, Send(m)
    PROVE  IInv'
<1> DEFINE new == [id |-> Len(sent) + 1, cid |-> m.cid, timestamp |-> m.timestamp,
                   payload_length |-> m.payload_length, message_type |-> m.message_type,
                   stream_id |-> m.stream_id, value |-> m.value]
<1>1. /\ ~Sending /\ sent' = Append(sent, new) /\ offset' = 0
      /\ UNCHANGED <<wire, streams, in_chunk_size, pc, is_first_chunk_of_msg, fault,
                     delivered, out_chunk_size, cut>>
    BY DEF Send, readerVars
<1>2. sent \in Seq(MessageType) /\ Len(sent) \in Nat
    BY DEF IInv, TypeInv
<1>3. new \in MessageType
    BY <1>2, SenderAssumption DEF MessageType
<1>4. /\ sent' \in Seq(MessageType) /\ Len(sent') = Len(sent) + 1 /\ current' = new
      /\ \A k \in 1..Len(sent) : sent'[k] = sent[k]
    <2> HIDE DEF new
    <2> QED
        BY <1>1, <1>2, <1>3 DEF current
<1>5. TypeInv'
    BY <1>1, <1>4 DEF IInv, TypeInv
<1>6. Numbered'
    <2>1. current'.id = Len(sent) + 1 /\ offset' <= current'.payload_length
        BY <1>1, <1>3, <1>4 DEF MessageType
    <2> QED
        BY <1>2, <1>4, <2>1 DEF IInv, Numbered, current
<1>7. Pieces'
    BY <1>1, <1>2, <1>4 DEF IInv, Pieces
<1>8. Sending'
    <2>1. sent' # << >>
        BY <1>2, <1>4
    <2>2. offset' < current'.payload_length
        BY <1>1, <1>3, <1>4 DEF MessageType
    <2> QED
        BY <2>1, <2>2 DEF Sending
<1>9. ASSUME NEW k \in Int
      PROVE  IdAt(k)' = IdAt(k) /\ FromAt(k)' = FromAt(k) /\ CutAt(k)' = CutAt(k)
    BY <1>1, <1>4, <1>8 DEF IdAt, FromAt, CutAt
<1>10. Chained'
    <2> SUFFICES ASSUME NEW k \in 1..Len(wire)
                 PROVE  /\ IdAt(k + 1)' = IF Ended(wire[k]) THEN wire[k].msg.id + 1
                                          ELSE wire[k].msg.id
                        /\ FromAt(k + 1)' = IF Ended(wire[k]) THEN 0
                                            ELSE wire[k].from + wire[k].size
                        /\ CutAt(k + 1)' =
                              IF /\ Ended(wire[k])
                                 /\ wire[k].msg.message_type = RTMP_MSG_SetChunkSize
                              THEN wire[k].msg.value ELSE cut[k]
        BY <1>1 DEF Chained, Ended
    <2>1. k + 1 \in Int
        OBVIOUS
    <2> QED
        BY <1>9, <2>1 DEF IInv, Chained
<1>11. Len(delivered) \in Nat /\ Len(delivered) <= Len(sent)
    BY DEF IInv, TypeInv, DeliveredAsSent
<1>12. Len(delivered) < Len(sent) => reading' = reading /\ part' = part
    BY <1>1, <1>4, <1>11 DEF reading, part
<1>13. Len(delivered) = Len(sent) =>
          \A c \in ChunkStreamIds : ~streams[c].open /\ streams[c].size = 0
    <2> SUFFICES ASSUME Len(delivered) = Len(sent), NEW c \in ChunkStreamIds
                 PROVE  ~streams[c].open /\ streams[c].size = 0
        OBVIOUS
    <2>1. ~(Len(delivered) < Len(sent))
        BY <1>2
    <2>2. ~streams[c].open
        BY <2>1 DEF IInv, StreamsFollow
    <2> QED
        BY <2>2 DEF IInv, StreamsFollow
<1>14. Meets'
    <2>1. CASE Len(delivered) < Len(sent)
        BY <1>1, <1>4, <1>9, <1>11, <1>12, <2>1 DEF IInv, Meets
    <2>2. CASE Len(delivered) = Len(sent)
        <3>1. reading' = new /\ part'.size = 0
            BY <1>1, <1>3, <1>4, <1>13, <2>2 DEF reading, part, current, MessageType
        <3> QED
            BY <1>1, <1>4, <1>9, <1>11, <2>2, <3>1 DEF IInv, Meets
    <2> QED
        BY <1>2, <1>11, <2>1, <2>2
<1>15. StreamsFollow'
    <2>1. CASE Len(delivered) < Len(sent)
        BY <1>1, <1>4, <1>12, <2>1 DEF IInv, StreamsFollow
    <2>2. CASE Len(delivered) = Len(sent)
        BY <1>1, <1>13, <2>2 DEF IInv, StreamsFollow
    <2> QED
        BY <1>2, <1>11, <2>1, <2>2
<1>16. BetweenReads'
    <2>1. CASE wire # << >>
        <3>1. reading' = reading /\ part' = part
            BY <1>2, <1>11, <1>12, <2>1, HeadFacts
        <3> QED
            BY <1>1, <3>1 DEF IInv, BetweenReads
    <2>2. CASE wire = << >>
        BY <1>1, <2>2 DEF IInv, BetweenReads
    <2> QED
        BY <2>1, <2>2
<1>17. DeliveredAsSent'
    BY <1>1, <1>2, <1>4, <1>11 DEF IInv, DeliveredAsSent
<1> QED
    BY <1>1, <1>5, <1>6, <1>7, <1>10, <1>14, <1>15, <1>16, <1>17 DEF IInv

\* A chunk written takes the sender's place to where the chunk ends, and is the piece
\* between the two.
LEMMA WriteKeeps ==
    ASSUME IInv, WriteChunk
    PROVE  IInv'
<1> DEFINE size == Min2(current.payload_length - offset, out_chunk_size)
           new == Chunk(current, offset, size)
           end == offset + size
<1>1. /\ Sending
      /\ wire' = Append(wire, new) /\ cut' = Append(cut, out_chunk_size)
      /\ offset' = end /\ out_chunk_size' = OutChunkSizeAfter(current, end)
      /\ UNCHANGED <<streams, in_chunk_size, pc, is_first_chunk_of_msg, fault, delivered, sent>>
    BY DEF WriteChunk
<1>2. /\ sent \in Seq(MessageType) /\ Len(sent) \in Nat \ {0}
      /\ offset \in Nat /\ out_chunk_size \in Nat \ {0}
      /\ wire \in Seq(ChunkType) /\ cut \in Seq(Nat \ {0})
      /\ Len(wire) \in Nat /\ Len(cut) = Len(wire)
    BY <1>1 DEF IInv, TypeInv, Sending
<1>3. /\ current \in MessageType /\ current.id = Len(sent)
      /\ offset < current.payload_length
    BY SMTT(30), <1>1, <1>2 DEF IInv, Numbered, Sending, current
<1>4. size \in Nat \ {0} /\ end \in Nat /\ end <= current.payload_length
    <2>1. /\ current.payload_length \in Nat
          /\ current.payload_length - offset \in Nat \ {0}
        <3>1. current.payload_length \in Nat
            BY <1>3 DEF MessageType
        <3>2. offset \in Nat /\ offset < current.payload_length
            BY <1>2, <1>3
        <3> HIDE DEF size, new, end
        <3> QED
            BY <3>1, <3>2
    <2>2. size \in Nat \ {0} /\ size <= current.payload_length - offset
        BY <1>2, <2>1 DEF Min2
    <2> HIDE DEF size
    <2> QED
        BY <1>2, <2>1, <2>2
<1>5. /\ new.msg = current /\ new.from = offset /\ new.size = size
      /\ new \in ChunkType
    <2>1. /\ current.timestamp \in Nat
          /\ Min2(current.timestamp, RTMP_EXTENDED_TIMESTAMP) \in Nat
          /\ PayloadWord \in Nat
        BY <1>3, ReaderAssumption DEF MessageType, Min2, PayloadWord
    <2> HIDE DEF size
    <2> QED
        BY <1>2, <1>3, <1>4, <2>1 DEF Chunk, ChunkType, HasExtended
<1>6. OutChunkSizeAfter(current, end) \in Nat \ {0}
    BY <1>2, <1>3 DEF OutChunkSizeAfter, MessageType
<1> HIDE DEF new, size, end
<1>7. /\ Len(wire') = Len(wire) + 1 /\ wire' \in Seq(ChunkType)
      /\ Len(cut') = Len(wire) + 1 /\ cut' \in Seq(Nat \ {0})
      /\ \A k \in 1..Len(wire) : wire'[k] = wire[k] /\ cut'[k] = cut[k]
      /\ wire'[Len(wire) + 1] = new /\ cut'[Len(wire) + 1] = out_chunk_size
      /\ current' = current
    BY <1>1, <1>2, <1>5 DEF current
<1>8. TypeInv'
    BY <1>1, <1>2, <1>4, <1>6, <1>7 DEF IInv, TypeInv
<1>9. Numbered'
    BY <1>1, <1>4, <1>7 DEF IInv, Numbered
<1>10. Pieces'
    <2>1. PieceOf(new, current, out_chunk_size)
        BY <1>3, <1>5 DEF PieceOf, new, size
    <2>2. new.msg.id = Len(sent) /\ sent[new.msg.id] = current
        BY <1>3, <1>5 DEF current
    <2> QED
        BY <1>1, <1>2, <1>7, <2>1, <2>2 DEF IInv, Pieces
<1>11. ASSUME NEW k \in 1..(Len(wire) + 1)
       PROVE  IdAt(k)' = IdAt(k) /\ FromAt(k)' = FromAt(k) /\ CutAt(k)' = CutAt(k)
    BY <1>1, <1>2, <1>3, <1>5, <1>7 DEF IdAt, FromAt, CutAt
<1>12. Sending' <=> end < current.payload_length
    BY <1>1, <1>2, <1>7 DEF Sending
<1>13. Chained'
    <2> SUFFICES ASSUME NEW k \in 1..(Len(wire) + 1)
                 PROVE  /\ IdAt(k + 1)' = IF Ended(wire'[k]) THEN wire'[k].msg.id + 1
                                          ELSE wire'[k].msg.id
                        /\ FromAt(k + 1)' = IF Ended(wire'[k]) THEN 0
                                            ELSE wire'[k].from + wire'[k].size
                        /\ CutAt(k + 1)' =
                              IF /\ Ended(wire'[k])
                                 /\ wire'[k].msg.message_type = RTMP_MSG_SetChunkSize
                              THEN wire'[k].msg.value ELSE cut'[k]
        BY <1>7 DEF Chained, Ended
    <2>1. CASE k <= Len(wire)
        BY SMTT(30), <1>2, <1>7, <1>11, <2>1 DEF IInv, Chained
    <2>2. CASE k = Len(wire) + 1
        <3>1. Ended(wire'[k]) <=> end = current.payload_length
            BY <1>5, <1>7, <2>2 DEF Ended, end
        <3>2. /\ IdAt(k + 1)' = IF end < current.payload_length THEN Len(sent)
                               ELSE Len(sent) + 1
              /\ FromAt(k + 1)' = IF end < current.payload_length THEN end ELSE 0
              /\ CutAt(k + 1)' = OutChunkSizeAfter(current, end)
            BY <1>1, <1>2, <1>7, <1>12, <2>2 DEF IdAt, FromAt, CutAt
        <3>3. /\ wire'[k].msg = current /\ wire'[k].from + wire'[k].size = end
              /\ cut'[k] = out_chunk_size
            BY <1>5, <1>7, <2>2 DEF end
        <3> QED
            BY <1>3, <1>4, <3>1, <3>2, <3>3 DEF OutChunkSizeAfter, MessageType
    <2> QED
        BY <1>2, <2>1, <2>2
<1>14. reading' = reading /\ part' = part
    BY <1>1 DEF reading, part
<1>15. Meets'
    <2>1. 1 \in 1..(Len(wire) + 1)
        BY <1>2
    <2> QED
        BY <1>1, <1>11, <1>14, <2>1 DEF IInv, Meets
<1>16. StreamsFollow'
    BY <1>1, <1>14 DEF IInv, StreamsFollow
<1>17. BetweenReads'
    <2>1. wire' # << >>
        BY <1>2, <1>7
    <2> QED
        BY <1>1, <1>14, <2>1 DEF IInv, BetweenReads
<1>18. DeliveredAsSent'
    BY <1>1 DEF IInv, DeliveredAsSent
<1> QED
    BY <1>1, <1>8, <1>9, <1>10, <1>13, <1>15, <1>16, <1>17, <1>18 DEF IInv

------------------------------------------------------------------------------
\* What of the invariant a read that takes nothing off the transport leaves to show:
\* the chunk stream still has the header of the message being read.
LEMMA StreamStep ==
    ASSUME IInv, wire # << >>, NEW new \in StreamType,
           streams' = [streams EXCEPT ![cid] = new],
           UNCHANGED <<wire, cut, sent, offset, out_chunk_size, in_chunk_size, delivered,
                       fault, is_first_chunk_of_msg>>,
           pc' \in {"extended_timestamp", "payload"},
           new.open, new.size = part.size,
           new.payload_length = reading.payload_length,
           new.message_type = reading.message_type,
           new.stream_id = reading.stream_id,
           new.extended_timestamp = HasExtended(reading.timestamp),
           new.msg_count = 1,
           new.size > 0 => /\ new.body = reading
                           /\ new.timestamp = reading.timestamp % TimestampModulus,
           is_first_chunk_of_msg = (new.size = 0),
           pc' = "extended_timestamp" => new.extended_timestamp,
           pc' = "payload" => new.timestamp = reading.timestamp % TimestampModulus
    PROVE  IInv'
<1>1. /\ Len(delivered) + 1 \in 1..Len(sent) /\ reading \in MessageType
      /\ cid = reading.cid /\ part.size < reading.payload_length
    BY HeadFacts
<1>2. streams \in [ChunkStreamIds -> StreamType] /\ cid \in ChunkStreamIds
      /\ Len(delivered) < Len(sent) /\ Len(delivered) \in Nat /\ Len(sent) \in Nat
    <2>1. /\ streams \in [ChunkStreamIds -> StreamType]
          /\ Len(delivered) \in Nat /\ Len(sent) \in Nat
        BY DEF IInv, TypeInv
    <2>2. cid \in ChunkStreamIds
        BY <1>1 DEF MessageType
    <2> QED
        BY <1>1, <2>1, <2>2
<1>3. /\ reading' = reading /\ part' = new
      /\ \A c \in ChunkStreamIds : streams'[c] = IF c = cid THEN new ELSE streams[c]
    BY <1>1, <1>2 DEF reading, part
<1>4. TypeInv'
    <2>1. streams' \in [ChunkStreamIds -> StreamType]
        BY <1>2
    <2> QED
        BY <2>1 DEF IInv, TypeInv
<1>5. Numbered' /\ Pieces' /\ Chained'
    BY PlacesKept
<1>6. Meets'
    <2>1. IdAt(1)' = IdAt(1) /\ FromAt(1)' = FromAt(1) /\ CutAt(1)' = CutAt(1)
        BY DEF IdAt, FromAt, CutAt, Sending, current
    <2> QED
        BY <1>2, <1>3, <2>1 DEF IInv, Meets
<1>7. StreamsFollow'
    <2> SUFFICES ASSUME NEW c \in ChunkStreamIds
                 PROVE  LET s == streams'[c]
                        IN  /\ ~s.open => s.size = 0
                            /\ s.open => /\ Len(delivered) < Len(sent)
                                         /\ c = reading.cid
                                         /\ s.size < reading.payload_length
                                         /\ s.payload_length = reading.payload_length
                                         /\ s.message_type = reading.message_type
                                         /\ s.stream_id = reading.stream_id
                                         /\ s.extended_timestamp = HasExtended(reading.timestamp)
                                         /\ s.msg_count = 1
                            /\ s.size > 0 =>
                                  /\ s.body = reading
                                  /\ s.timestamp = reading.timestamp % TimestampModulus
        BY <1>3 DEF StreamsFollow
    <2>1. CASE c = cid
        BY <1>1, <1>2, <1>3, <2>1
    <2>2. CASE c # cid
        BY <1>3, <2>2 DEF IInv, StreamsFollow
    <2> QED
        BY <2>1, <2>2
<1>8. BetweenReads'
    BY <1>3 DEF BetweenReads
<1>9. DeliveredAsSent'
    BY DEF IInv, DeliveredAsSent
<1> QED
    BY <1>4, <1>5, <1>6, <1>7, <1>8, <1>9 DEF IInv

Beside == UNCHANGED <<cut, sent, offset, out_chunk_size>>

\* The basic header tells which chunk stream the chunk belongs to.
LEMMA BasicHeaderKeeps ==
    ASSUME IInv, ReadBasicHeader, Beside
    PROVE  IInv'
<1> USE DEF Beside
<1>1. /\ pc = "basic_header" /\ wire # << >>
      /\ is_first_chunk_of_msg' = ~stream.open /\ pc' = "message_header"
      /\ UNCHANGED <<wire, streams, in_chunk_size, fault, delivered>>
    BY DEF ReadBasicHeader
<1>2. stream = part /\ part \in StreamType
    BY <1>1, HeadFacts
<1>3. reading' = reading /\ part' = part
    BY <1>1 DEF reading, part
<1>4. TypeInv'
    <2>1. is_first_chunk_of_msg' \in BOOLEAN
        BY <1>1
    <2> QED
        BY <1>1, <2>1 DEF IInv, TypeInv
<1>5. Numbered' /\ Pieces' /\ Chained'
    BY <1>1, PlacesKept
<1>6. Meets'
    <2>1. IdAt(1)' = IdAt(1) /\ FromAt(1)' = FromAt(1) /\ CutAt(1)' = CutAt(1)
        BY <1>1 DEF IdAt, FromAt, CutAt, Sending, current
    <2> QED
        BY <1>1, <1>3, <2>1 DEF IInv, Meets
<1>7. StreamsFollow'
    BY <1>1, <1>3 DEF IInv, StreamsFollow
<1>8. BetweenReads'
    BY <1>1, <1>2, <1>3 DEF IInv, BetweenReads
<1>9. DeliveredAsSent'
    BY <1>1 DEF IInv, DeliveredAsSent
<1> QED
    BY <1>1, <1>4, <1>5, <1>6, <1>7, <1>8, <1>9 DEF IInv

\* The message header: the first chunk of a message has all of it, the others add nothing.
LEMMA MessageHeaderKeeps ==
    ASSUME IInv, ReadMessageHeader, Beside
    PROVE  IInv'
<1> DEFINE new == WithHeader(stream, chunk, is_first_chunk_of_msg)
<1>1. pc = "message_header" /\ wire # << >>
    BY DEF ReadMessageHeader, IInv, BetweenReads
<1>2. /\ reading \in MessageType /\ part \in StreamType
      /\ chunk.msg = reading /\ cid = reading.cid /\ stream = part
      /\ part.size < reading.payload_length
      /\ Len(delivered) + 1 \in 1..Len(sent)
      /\ chunk = Chunk(reading, part.size,
                       Min2(reading.payload_length - part.size, in_chunk_size))
    BY <1>1, HeadFacts
<1>3. /\ cid \in ChunkStreamIds /\ streams \in [ChunkStreamIds -> StreamType]
      /\ part = streams[cid]
    BY <1>2 DEF IInv, TypeInv, MessageType, part
<1>4. /\ part.size \in Nat /\ part.open \in BOOLEAN
      /\ reading.timestamp \in Nat /\ reading.timestamp % TimestampModulus \in Nat
      /\ (reading.timestamp % TimestampModulus) % TimestampModulus
            = reading.timestamp % TimestampModulus
    BY <1>2, MaskTwice DEF StreamType, MessageType
<1>5. /\ is_first_chunk_of_msg = ~part.open
      /\ part.open => part.size > 0
      /\ ~part.open => part.size = 0
    BY <1>1, <1>3 DEF IInv, BetweenReads, StreamsFollow
<1>6. part.open =>
         /\ part.payload_length = reading.payload_length
         /\ part.message_type = reading.message_type
         /\ part.stream_id = reading.stream_id
         /\ part.extended_timestamp = HasExtended(reading.timestamp)
         /\ part.msg_count = 1
         /\ part.body = reading
         /\ part.timestamp = reading.timestamp % TimestampModulus
    BY <1>3, <1>4, <1>5 DEF IInv, StreamsFollow
<1>7. /\ chunk.fmt = IF part.size = 0 THEN 0 ELSE 3
      /\ chunk.time = Min2(reading.timestamp, RTMP_EXTENDED_TIMESTAMP)
    BY <1>2 DEF Chunk
<1>8. ~StartsWrong /\ ~LengthChanges
    <2>1. stream = part
        BY <1>2
    <2>2. CASE part.open
        <3>1. chunk.fmt = 3 /\ part.msg_count = 1
            BY <1>4, <1>5, <1>6, <1>7, <2>2
        <3> QED
            BY <2>1, <3>1 DEF StartsWrong, LengthChanges
    <2>3. CASE ~part.open
        <3>1. chunk.fmt = 0 /\ is_first_chunk_of_msg
            BY <1>5, <1>7, <2>3
        <3> QED
            BY <2>1, <2>3, <3>1 DEF StartsWrong, LengthChanges
    <2> QED
        BY <2>2, <2>3
<1>9. /\ streams' = [streams EXCEPT ![cid] = new]
      /\ pc' = IF streams'[cid].extended_timestamp THEN "extended_timestamp" ELSE "payload"
      /\ UNCHANGED <<wire, in_chunk_size, is_first_chunk_of_msg, fault, delivered>>
    BY <1>3, <1>8 DEF ReadMessageHeader, part, stream
<1>10. /\ chunk.time \in Nat
       /\ chunk.time >= RTMP_EXTENDED_TIMESTAMP <=> HasExtended(reading.timestamp)
       /\ ~HasExtended(reading.timestamp) => chunk.time = reading.timestamp
    BY <1>4, <1>7, ReaderAssumption DEF Min2, HasExtended
<1>11. /\ new.extended_timestamp = HasExtended(reading.timestamp)
       /\ new.payload_length = reading.payload_length
       /\ new.message_type = reading.message_type
       /\ new.stream_id = reading.stream_id
       /\ new.msg_count = 1 /\ new.open
       /\ new.size = part.size /\ new.body = part.body
    BY <1>2, <1>4, <1>5, <1>6, <1>7, <1>10 DEF WithHeader, StreamType, HasExtended
<1>12. /\ new.timestamp \in Nat
       /\ ~HasExtended(reading.timestamp) \/ part.size > 0 =>
             new.timestamp = reading.timestamp % TimestampModulus
    <2> DEFINE extended == IF chunk.fmt <= 2 THEN chunk.time >= RTMP_EXTENDED_TIMESTAMP
                           ELSE part.extended_timestamp
               time == HeaderTimestamp(part, chunk, is_first_chunk_of_msg, extended)
    <2>1. new.timestamp = time % TimestampModulus
        BY <1>2 DEF WithHeader, StreamType
    <2>2. extended = HasExtended(reading.timestamp)
        BY <1>4, <1>5, <1>6, <1>7, <1>10 DEF HasExtended
    <2>3. CASE part.size = 0
        <3>1. time = IF HasExtended(reading.timestamp) THEN part.timestamp
                     ELSE reading.timestamp
            BY <1>7, <1>10, <2>2, <2>3 DEF HeaderTimestamp, HasExtended
        <3>2. part.timestamp \in Nat /\ part.timestamp % TimestampModulus \in Nat
            BY <1>2, MaskTwice DEF StreamType
        <3> HIDE DEF time, extended, new
        <3> QED
            BY <1>4, <2>1, <2>3, <3>1, <3>2
    <2>4. CASE part.size > 0
        <3>1. time = part.timestamp
            BY <1>4, <1>5, <1>7, <2>2, <2>4 DEF HeaderTimestamp, HasExtended
        <3> HIDE DEF time, extended, new
        <3> QED
            BY <1>4, <1>5, <1>6, <2>1, <2>4, <3>1
    <2> QED
        BY <1>4, <2>3, <2>4
<1>13. new \in StreamType
    <2>1. /\ chunk.time \in Nat /\ chunk.msg.payload_length \in Nat
          /\ chunk.msg.message_type \in STRING /\ chunk.msg.stream_id \in Nat
        BY <1>2, <1>10 DEF MessageType
    <2>2. new.extended_timestamp \in BOOLEAN
        BY <1>11 DEF HasExtended
    <2>3. new.timestamp_delta \in Nat
        BY <1>2, <1>10 DEF WithHeader, StreamType
    <2>4. /\ new.payload_length \in Nat /\ new.stream_id \in Nat
          /\ new.message_type \in STRING \cup {"none"}
        BY <1>2, <1>11, <2>1
    <2> DEFINE e == new.extended_timestamp
               t == new.timestamp
               d == new.timestamp_delta
               n == new.payload_length
               y == new.message_type
               i == new.stream_id
    <2>5. new = [part EXCEPT !.extended_timestamp = e, !.timestamp = t,
                             !.timestamp_delta = d, !.payload_length = n,
                             !.message_type = y, !.stream_id = i,
                             !.msg_count = 1, !.open = TRUE]
        BY <1>2 DEF WithHeader, StreamType
    <2>6. /\ e \in BOOLEAN /\ t \in Nat /\ d \in Nat /\ n \in Nat
          /\ y \in STRING \cup {"none"} /\ i \in Nat
        BY <1>12, <2>2, <2>3, <2>4
    <2> HIDE DEF new, e, t, d, n, y, i
    <2> QED
        BY <1>2, <2>5, <2>6 DEF StreamType
<1> HIDE DEF new
<1>14. /\ new.size > 0 => /\ new.body = reading
                          /\ new.timestamp = reading.timestamp % TimestampModulus
       /\ is_first_chunk_of_msg = (new.size = 0)
    BY <1>4, <1>5, <1>6, <1>11, <1>12
<1>15. /\ pc' \in {"extended_timestamp", "payload"}
       /\ pc' = "extended_timestamp" => new.extended_timestamp
       /\ pc' = "payload" => new.timestamp = reading.timestamp % TimestampModulus
    <2>1. streams'[cid] = new
        BY <1>3, <1>9
    <2> QED
        BY <1>9, <1>11, <1>12, <2>1
<1> QED
    BY <1>1, <1>9, <1>11, <1>13, <1>14, <1>15, StreamStep DEF Beside

\* The sender repeats the extended timestamp in every chunk, so it is always found.
LEMMA ExtendedTimestampKeeps ==
    ASSUME IInv, ReadExtendedTimestamp, Beside
    PROVE  IInv'
<1> DEFINE new == [part EXCEPT !.timestamp = reading.timestamp % TimestampModulus]
<1>1. pc = "extended_timestamp" /\ wire # << >>
    BY DEF ReadExtendedTimestamp, IInv, BetweenReads
<1>2. /\ reading \in MessageType /\ part \in StreamType
      /\ cid = reading.cid /\ stream = part
      /\ chunk = Chunk(reading, part.size,
                       Min2(reading.payload_length - part.size, in_chunk_size))
    BY <1>1, HeadFacts
<1>3. /\ cid \in ChunkStreamIds /\ streams \in [ChunkStreamIds -> StreamType]
      /\ part = streams[cid]
    BY <1>2 DEF IInv, TypeInv, MessageType, part
<1>4. /\ part.size \in Nat /\ reading.timestamp % TimestampModulus \in Nat
    BY <1>2, MaskTwice DEF StreamType, MessageType
<1>5. /\ part.open /\ part.extended_timestamp
      /\ is_first_chunk_of_msg = (part.size = 0)
    BY <1>1 DEF IInv, BetweenReads
<1>6. /\ part.payload_length = reading.payload_length
      /\ part.message_type = reading.message_type
      /\ part.stream_id = reading.stream_id
      /\ part.extended_timestamp = HasExtended(reading.timestamp)
      /\ part.msg_count = 1
      /\ part.size > 0 => /\ part.body = reading
                          /\ part.timestamp = reading.timestamp % TimestampModulus
    BY <1>3, <1>5 DEF IInv, StreamsFollow
<1>7. chunk.extended = TRUE /\ chunk.word = reading.timestamp
    BY <1>2, <1>5, <1>6 DEF Chunk, HasExtended
<1>8. ~LeftOut
    <2>1. CASE part.size = 0
        BY <1>5, <2>1 DEF LeftOut
    <2>2. CASE part.size > 0
        <3>1. stream.timestamp = chunk.word % TimestampModulus
            BY <1>2, <1>6, <1>7, <2>2
        <3> QED
            BY <3>1 DEF LeftOut
    <2> QED
        BY <1>4, <2>1, <2>2
<1>9. /\ streams' = [streams EXCEPT ![cid] = new]
      /\ pc' = "payload"
      /\ UNCHANGED <<wire, in_chunk_size, is_first_chunk_of_msg, fault, delivered>>
    BY <1>3, <1>7, <1>8 DEF ReadExtendedTimestamp
<1>10. /\ new \in StreamType /\ new.open /\ new.size = part.size
       /\ new.payload_length = part.payload_length
       /\ new.message_type = part.message_type /\ new.stream_id = part.stream_id
       /\ new.extended_timestamp = part.extended_timestamp
       /\ new.msg_count = part.msg_count /\ new.body = part.body
       /\ new.timestamp = reading.timestamp % TimestampModulus
    BY <1>2, <1>4, <1>5 DEF StreamType
<1> HIDE DEF new
<1>11. /\ new.size > 0 => /\ new.body = reading
                          /\ new.timestamp = reading.timestamp % TimestampModulus
       /\ is_first_chunk_of_msg = (new.size = 0)
    BY <1>5, <1>6, <1>10
<1>12. /\ pc' \in {"extended_timestamp", "payload"}
       /\ pc' = "extended_timestamp" => new.extended_timestamp
    BY <1>9
<1> QED
    BY <1>1, <1>6, <1>9, <1>10, <1>11, <1>12, StreamStep DEF Beside

\* The payload of a chunk: the reader's place moves to where the chunk ends, and a
\* message of which that was the end is the next one delivered.
LEMMA PayloadKeeps ==
    ASSUME IInv, ReadMessagePayload,
           cut' = IF wire' = wire THEN cut ELSE Tail(cut),
           UNCHANGED <<sent, offset, out_chunk_size>>
    PROVE  IInv'
<1> DEFINE size == Min2(reading.payload_length - part.size, in_chunk_size)
           end == part.size + size
           s == [part EXCEPT !.size = end, !.body = reading]
           message == [cid |-> cid, timestamp |-> s.timestamp,
                       payload_length |-> s.payload_length,
                       message_type |-> s.message_type,
                       stream_id |-> s.stream_id, body |-> s.body]
           complete == end = reading.payload_length
<1>1. pc = "payload" /\ wire # << >>
    BY DEF ReadMessagePayload, IInv, BetweenReads
<1>2. /\ Len(delivered) + 1 \in 1..Len(sent)
      /\ reading \in MessageType /\ part \in StreamType
      /\ Len(wire) \in Nat \ {0} /\ chunk = wire[1] /\ chunk \in ChunkType
      /\ chunk.msg = reading /\ cid = reading.cid /\ stream = part
      /\ chunk.from = part.size /\ part.size < reading.payload_length
      /\ chunk = Chunk(reading, part.size, size)
      /\ in_chunk_size = cut[1]
    BY <1>1, HeadFacts
<1>3. /\ cid \in ChunkStreamIds /\ streams \in [ChunkStreamIds -> StreamType]
      /\ part = streams[cid]
      /\ reading.payload_length \in Nat \ {0} /\ part.size \in Nat
      /\ in_chunk_size \in Nat \ {0}
      /\ reading.id = Len(delivered) + 1
      /\ reading.value \in Nat \ {0}
    <2>1. reading.id = Len(delivered) + 1
        BY <1>2 DEF IInv, Numbered, reading
    <2> QED
        BY <1>2, <2>1 DEF IInv, TypeInv, MessageType, StreamType, part
<1>4. /\ part.open /\ part.timestamp = reading.timestamp % TimestampModulus
      /\ part.payload_length = reading.payload_length
      /\ part.message_type = reading.message_type
      /\ part.stream_id = reading.stream_id
      /\ part.extended_timestamp = HasExtended(reading.timestamp)
      /\ part.msg_count = 1
      /\ part.size > 0 => part.body = reading
    <2>1. part.open /\ part.timestamp = reading.timestamp % TimestampModulus
        BY <1>1 DEF IInv, BetweenReads
    <2> QED
        BY <1>3, <2>1 DEF IInv, StreamsFollow
<1>5. size \in Nat \ {0} /\ end \in Nat \ {0} /\ end <= reading.payload_length
    <2>1. size \in Nat \ {0} /\ size <= reading.payload_length - part.size
        BY <1>2, <1>3 DEF Min2
    <2> HIDE DEF size
    <2> QED
        BY <1>3, <2>1
<1>6. /\ chunk.size = size /\ PayloadSize = size
      /\ chunk.extended = HasExtended(reading.timestamp)
      /\ chunk.msg = reading /\ chunk.from = part.size
    BY <1>2, <1>4 DEF Chunk, PayloadSize
<1>7. Body(stream, chunk) = reading
    <2>1. CASE part.size = 0
        BY <1>2, <2>1 DEF Body
    <2>2. CASE part.size > 0
        <3>1. /\ ~(stream.size = 0 /\ chunk.from = 0)
              /\ stream.size > 0 /\ chunk.msg.id = stream.body.id /\ chunk.from = stream.size
              /\ stream.body = reading
            BY <1>2, <1>3, <1>4, <2>2
        <3> QED
            BY <3>1 DEF Body
    <2> QED
        BY <1>3, <2>1, <2>2
<1>8. /\ streams' = [streams EXCEPT ![cid] = IF complete THEN Closed(s) ELSE s]
      /\ IF complete THEN Return(message) ELSE UNCHANGED <<in_chunk_size, delivered>>
      /\ wire' = Tail(wire) /\ pc' = "basic_header"
      /\ UNCHANGED <<is_first_chunk_of_msg, fault>>
    <2>1. ~(chunk.size # PayloadSize \/ (chunk.extended /\ ~stream.extended_timestamp))
        BY <1>2, <1>4, <1>6
    <2>2. [stream EXCEPT !.size = @ + PayloadSize, !.body = Body(stream, chunk)] = s
        BY <1>2, <1>6, <1>7 DEF StreamType
    <2>3. s.size = end /\ s.payload_length = reading.payload_length
        BY <1>2, <1>4 DEF StreamType
    <2> HIDE DEF s, end, size
    <2> QED
        BY <1>3, <2>1, <2>2, <2>3 DEF ReadMessagePayload
<1>9. /\ s \in StreamType /\ s.open /\ s.size = end /\ s.body = reading
      /\ s.payload_length = reading.payload_length
      /\ s.message_type = reading.message_type /\ s.stream_id = reading.stream_id
      /\ s.extended_timestamp = HasExtended(reading.timestamp)
      /\ s.msg_count = 1
      /\ s.timestamp = reading.timestamp % TimestampModulus
      /\ Closed(s) \in StreamType /\ ~Closed(s).open /\ Closed(s).size = 0
    <2>1. reading \in BodyType /\ Nobody \in BodyType
        BY <1>2 DEF BodyType
    <2> HIDE DEF end, size
    <2>2. /\ s \in StreamType /\ s.open /\ s.size = end /\ s.body = reading
          /\ s.payload_length = part.payload_length
          /\ s.message_type = part.message_type /\ s.stream_id = part.stream_id
          /\ s.extended_timestamp = part.extended_timestamp
          /\ s.msg_count = part.msg_count /\ s.timestamp = part.timestamp
        BY <1>2, <1>4, <1>5, <2>1 DEF StreamType
    <2> HIDE DEF s
    <2>3. Closed(s) \in StreamType /\ ~Closed(s).open /\ Closed(s).size = 0
        BY <2>1, <2>2 DEF Closed, StreamType
    <2> QED
        BY <1>4, <2>2, <2>3
<1>10. /\ message \in DeliveredType /\ message.body = reading /\ Faithful(message)
       /\ message.payload_length = reading.payload_length
       /\ message.message_type = reading.message_type
    <2>1. /\ s.timestamp \in Nat /\ s.payload_length \in Nat
          /\ s.message_type \in STRING \cup {"none"}
          /\ s.stream_id \in Nat /\ s.body \in BodyType
        BY <1>9 DEF StreamType
    <2> HIDE DEF s, end, size
    <2>2. message \in DeliveredType
        BY <1>3, <2>1 DEF DeliveredType
    <2>3. reading.id > 0
        BY <1>2, <1>3
    <2> QED
        BY <1>2, <1>9, <2>2, <2>3 DEF Faithful
<1>11. /\ ~complete => delivered' = delivered /\ in_chunk_size' = in_chunk_size
       /\ complete => /\ delivered' = Append(delivered, message)
                      /\ in_chunk_size' =
                            IF reading.message_type = RTMP_MSG_SetChunkSize
                            THEN reading.value ELSE in_chunk_size
    <2>1. reading.id > 0
        BY <1>2, <1>3
    <2> HIDE DEF message, complete
    <2> QED
        BY <1>3, <1>8, <1>10, <2>1 DEF Return, ChunkSizeAfter
<1>12. Ended(wire[1]) <=> complete
    BY <1>2, <1>6 DEF Ended
<1> HIDE DEF s, message, end, size, complete
<1>13. /\ wire \in Seq(ChunkType) /\ cut \in Seq(Nat \ {0}) /\ Len(cut) = Len(wire)
       /\ delivered \in Seq(DeliveredType) /\ Len(delivered) \in Nat
       /\ Len(sent) \in Nat
    BY DEF IInv, TypeInv
<1>14. /\ wire' \in Seq(ChunkType) /\ cut' \in Seq(Nat \ {0})
       /\ Len(wire') = Len(wire) - 1 /\ Len(cut') = Len(wire')
       /\ \A k \in 1..Len(wire') : wire'[k] = wire[k + 1] /\ cut'[k] = cut[k + 1]
    <2>1. Len(Tail(wire)) = Len(wire) - 1
        BY <1>2, <1>13
    <2>2. wire' # wire
        <3>1. wire' = Tail(wire)
            BY <1>8
        <3>2. Len(wire) \in Nat
            BY <1>2
        <3>3. Len(Tail(wire)) # Len(wire)
            BY <2>1, <3>2
        <3> QED
            BY <3>1, <3>3
    <2>3. cut' = Tail(cut) /\ cut # << >>
        BY <1>2, <1>13, <2>2
    <2> QED
        BY <1>1, <1>2, <1>8, <1>13, <2>1, <2>3
<1>15. ASSUME NEW k \in Nat \ {0}
       PROVE  /\ IdAt(k)' = IdAt(k + 1) /\ FromAt(k)' = FromAt(k + 1)
              /\ CutAt(k)' = CutAt(k + 1)
    <2>1. Sending' = Sending
        BY DEF Sending, current
    <2> QED
        BY SMTT(30), <1>2, <1>14, <2>1 DEF IdAt, FromAt, CutAt
<1>16. /\ IdAt(2) = IF complete THEN Len(delivered) + 2 ELSE Len(delivered) + 1
       /\ FromAt(2) = IF complete THEN 0 ELSE end
       /\ CutAt(2) = IF complete /\ reading.message_type = RTMP_MSG_SetChunkSize
                     THEN reading.value ELSE in_chunk_size
    <2>1. 1 \in 1..Len(wire) /\ 1 + 1 = 2
        BY <1>2
    <2>2. /\ wire[1].msg = reading /\ wire[1].from + wire[1].size = end
          /\ reading.id + 1 = Len(delivered) + 2
        BY <1>2, <1>3, <1>6, <1>13 DEF end
    <2> QED
        BY <1>2, <1>3, <1>12, <2>1, <2>2 DEF IInv, Chained
<1>17. TypeInv'
    <2>1. streams' \in [ChunkStreamIds -> StreamType]
        BY <1>3, <1>8, <1>9
    <2>2. delivered' \in Seq(DeliveredType)
        <3>1. CASE complete
            <4>1. delivered' = Append(delivered, message)
                BY <1>11, <3>1
            <4> QED
                BY <1>10, <1>13, <4>1
        <3>2. CASE ~complete
            BY <1>11, <1>13, <3>2
        <3> QED
            BY <3>1, <3>2
    <2>3. in_chunk_size' \in Nat \ {0}
        BY <1>3, <1>11
    <2> QED
        BY <1>8, <1>14, <2>1, <2>2, <2>3 DEF IInv, TypeInv
<1>18. Numbered'
    BY DEF IInv, Numbered, current
<1>19. Pieces'
    <2> SUFFICES ASSUME NEW k \in 1..Len(wire')
                 PROVE  /\ wire'[k].msg.id \in 1..Len(sent)
                        /\ PieceOf(wire'[k], sent[wire'[k].msg.id], cut'[k])
        BY DEF Pieces, PieceOf, Chunk
    <2>1. k + 1 \in 1..Len(wire)
        BY SMTT(30), <1>2, <1>14
    <2>2. wire'[k] = wire[k + 1] /\ cut'[k] = cut[k + 1]
        BY <1>14
    <2> QED
        BY <2>1, <2>2 DEF IInv, Pieces
<1>20. Chained'
    <2> SUFFICES ASSUME NEW k \in 1..Len(wire')
                 PROVE  /\ IdAt(k + 1)' = IF Ended(wire'[k]) THEN wire'[k].msg.id + 1
                                          ELSE wire'[k].msg.id
                        /\ FromAt(k + 1)' = IF Ended(wire'[k]) THEN 0
                                            ELSE wire'[k].from + wire'[k].size
                        /\ CutAt(k + 1)' =
                              IF /\ Ended(wire'[k])
                                 /\ wire'[k].msg.message_type = RTMP_MSG_SetChunkSize
                              THEN wire'[k].msg.value ELSE cut'[k]
        BY DEF Chained, Ended
    <2>1. k + 1 \in 1..Len(wire) /\ k + 1 \in Nat \ {0}
        BY SMTT(30), <1>2, <1>14
    <2>2. wire'[k] = wire[k + 1] /\ cut'[k] = cut[k + 1]
        BY <1>14
    <2> QED
        BY <1>15, <2>1, <2>2 DEF IInv, Chained
<1>21. CASE ~complete
    <2>1. /\ delivered' = delivered /\ reading' = reading /\ part' = s
          /\ in_chunk_size' = in_chunk_size
          /\ \A c \in ChunkStreamIds : streams'[c] = IF c = cid THEN s ELSE streams[c]
        BY <1>2, <1>3, <1>8, <1>11, <1>21 DEF reading, part
    <2>2. Len(delivered) < Len(sent) /\ 0 < end /\ end < reading.payload_length
        BY SMTT(30), <1>2, <1>3, <1>5, <1>13, <1>21 DEF complete
    <2>3. Meets'
        BY SMTT(30), <1>9, <1>15, <1>16, <1>21, <2>1, <2>2 DEF Meets
    <2>4. StreamsFollow'
        <3> SUFFICES ASSUME NEW c \in ChunkStreamIds
                     PROVE  LET t == streams'[c]
                            IN  /\ ~t.open => t.size = 0
                                /\ t.open => /\ Len(delivered) < Len(sent)
                                             /\ c = reading.cid
                                             /\ t.size < reading.payload_length
                                             /\ t.payload_length = reading.payload_length
                                             /\ t.message_type = reading.message_type
                                             /\ t.stream_id = reading.stream_id
                                             /\ t.extended_timestamp = HasExtended(reading.timestamp)
                                             /\ t.msg_count = 1
                                /\ t.size > 0 =>
                                      /\ t.body = reading
                                      /\ t.timestamp = reading.timestamp % TimestampModulus
            BY <2>1 DEF StreamsFollow
        <3>1. CASE c = cid
            BY <1>2, <1>9, <2>1, <2>2, <3>1
        <3>2. CASE c # cid
            BY <2>1, <3>2 DEF IInv, StreamsFollow
        <3> QED
            BY <3>1, <3>2
    <2>5. BetweenReads'
        <3>1. \A c \in ChunkStreamIds : streams'[c].open => streams'[c].size > 0
            BY <1>2, <1>9, <2>1, <2>2 DEF IInv, StreamsFollow
        <3> QED
            BY <1>8, <3>1 DEF BetweenReads
    <2>6. DeliveredAsSent'
        BY <2>1 DEF IInv, DeliveredAsSent
    <2> QED
        BY <1>8, <1>17, <1>18, <1>19, <1>20, <2>3, <2>4, <2>5, <2>6 DEF IInv
<1>22. CASE complete
    <2>1. /\ delivered' = Append(delivered, message) /\ Len(delivered') = Len(delivered) + 1
          /\ \A k \in 1..Len(delivered) : delivered'[k] = delivered[k]
          /\ delivered'[Len(delivered) + 1] = message
        <3>1. delivered' = Append(delivered, message)
            BY <1>11, <1>22
        <3>2. message \in DeliveredType
            BY <1>10
        <3> QED
            BY <1>13, <3>1, <3>2
    <2>2. \A c \in ChunkStreamIds : ~streams'[c].open /\ streams'[c].size = 0
        <3> SUFFICES ASSUME NEW c \in ChunkStreamIds
                     PROVE  ~streams'[c].open /\ streams'[c].size = 0
            OBVIOUS
        <3>1. CASE c = cid
            BY <1>3, <1>8, <1>9, <1>22, <3>1
        <3>2. CASE c # cid
            <4>1. streams'[c] = streams[c]
                BY <1>3, <1>8, <3>2
            <4>2. ~streams[c].open
                BY <1>2, <3>2 DEF IInv, StreamsFollow
            <4> QED
                BY <4>1, <4>2 DEF IInv, StreamsFollow
        <3> QED
            BY <3>1, <3>2
    <2>3. Len(delivered') < Len(sent') => part'.size = 0
        <3> SUFFICES ASSUME Len(delivered') < Len(sent')
                     PROVE  part'.size = 0
            OBVIOUS
        <3>1. Len(delivered') + 1 \in 1..Len(sent')
            BY <1>13, <2>1
        <3>2. sent' \in Seq(MessageType)
            BY <1>17 DEF TypeInv
        <3>3. reading'.cid \in ChunkStreamIds
            <4>1. reading' \in MessageType
                BY <3>1, <3>2 DEF reading
            <4> QED
                BY <4>1 DEF MessageType
        <3> QED
            BY <2>2, <3>3 DEF part
    <2>4. Meets'
        <3>1. IdAt(1)' = Len(delivered') + 1 /\ FromAt(1)' = 0 /\ CutAt(1)' = in_chunk_size'
            <4>1. IdAt(1)' = IdAt(2) /\ FromAt(1)' = FromAt(2) /\ CutAt(1)' = CutAt(2)
                <5>1. 1 \in Nat \ {0} /\ 1 + 1 = 2
                    OBVIOUS
                <5> QED
                    BY <1>15, <5>1
            <4>2. Len(delivered') + 1 = Len(delivered) + 2
                BY <1>13, <2>1
            <4>3. /\ IdAt(2) = Len(delivered) + 2 /\ FromAt(2) = 0
                  /\ CutAt(2) = in_chunk_size'
                BY <1>11, <1>16, <1>22
            <4> QED
                BY <4>1, <4>2, <4>3
        <3> QED
            BY <2>3, <3>1 DEF Meets
    <2>5. StreamsFollow'
        BY <2>2 DEF StreamsFollow
    <2>6. BetweenReads'
        BY <1>8, <2>2 DEF BetweenReads
    <2>7. DeliveredAsSent'
        <3>1. Len(delivered') <= Len(sent')
            BY <1>2, <1>13, <2>1
        <3>2. ASSUME NEW k \in 1..Len(delivered')
              PROVE  Faithful(delivered'[k]) /\ delivered'[k].body = sent'[k]
            <4>1. CASE k \in 1..Len(delivered)
                BY <2>1, <4>1 DEF IInv, DeliveredAsSent
            <4>2. CASE k = Len(delivered) + 1
                BY <1>10, <2>1, <4>2 DEF reading
            <4> QED
                BY <1>13, <2>1, <4>1, <4>2
        <3> QED
            BY <3>1, <3>2 DEF DeliveredAsSent, Faithful
    <2> QED
        BY <1>8, <1>17, <1>18, <1>19, <1>20, <2>4, <2>5, <2>6, <2>7 DEF IInv
<1> QED
    BY <1>21, <1>22

------------------------------------------------------------------------------
\* Every step keeps the invariant.
LEMMA Step == IInv /\ [Next]_vars => IInv'
<1> SUFFICES ASSUME IInv, [Next]_vars PROVE IInv'
    OBVIOUS
<1>1. CASE \E m \in Messages : Send(m)
    BY <1>1, SendKeeps
<1>2. CASE WriteChunk
    BY <1>2, WriteKeeps
<1>3. CASE Receive
    <2>1. /\ recv_message
          /\ cut' = IF wire' = wire THEN cut ELSE Tail(cut)
          /\ UNCHANGED <<sent, offset, out_chunk_size>>
        BY <1>3 DEF Receive
    <2>2. CASE ReadBasicHeader
        <3>1. wire' = wire
            BY <2>2 DEF ReadBasicHeader
        <3> QED
            BY <2>1, <2>2, <3>1, BasicHeaderKeeps DEF Beside
    <2>3. CASE ReadMessageHeader
        <3>1. wire' = wire
            BY <2>3 DEF ReadMessageHeader, Fail
        <3> QED
            BY <2>1, <2>3, <3>1, MessageHeaderKeeps DEF Beside
    <2>4. CASE ReadExtendedTimestamp
        <3>1. wire' = wire
            BY <2>4 DEF ReadExtendedTimestamp, Fail
        <3> QED
            BY <2>1, <2>4, <3>1, ExtendedTimestampKeeps DEF Beside
    <2>5. CASE ReadMessagePayload
        BY <2>1, <2>5, PayloadKeeps
    <2> QED
        BY <2>1, <2>2, <2>3, <2>4, <2>5 DEF recv_message
<1>4. CASE UNCHANGED vars
    <2>1. UNCHANGED <<wire, streams, in_chunk_size, pc, is_first_chunk_of_msg, fault,
                      delivered, sent, offset, out_chunk_size, cut>>
        BY <1>4 DEF vars, readerVars, senderVars
    <2>2. reading' = reading /\ part' = part
        BY <2>1 DEF reading, part
    <2>3. TypeInv' /\ DeliveredAsSent' /\ fault' = NoFault
        BY <2>1 DEF IInv, TypeInv, DeliveredAsSent
    <2>4. Numbered' /\ Pieces' /\ Chained'
        BY <2>1, PlacesKept
    <2>5. Meets'
        <3>1. IdAt(1)' = IdAt(1) /\ FromAt(1)' = FromAt(1) /\ CutAt(1)' = CutAt(1)
            BY <2>1 DEF IdAt, FromAt, CutAt, Sending, current
        <3> QED
            BY <2>1, <2>2, <3>1 DEF IInv, Meets
    <2>6. StreamsFollow' /\ BetweenReads'
        BY <2>1, <2>2 DEF IInv, StreamsFollow, BetweenReads
    <2> QED
        BY <2>3, <2>4, <2>5, <2>6 DEF IInv
<1> QED
    BY <1>1, <1>2, <1>3, <1>4 DEF Next

\* The invariant holds in every reachable state: the reader's place, the chunks in the
\* transport and the sender's place always meet.
THEOREM Inductive == Spec => []IInv
<1>1. Init => IInv
    BY Initial
<1>2. IInv /\ [Next]_vars => IInv'
    BY Step
<1> QED
    BY <1>1, <1>2, PTL DEF Spec

\* For any messages, sizes and times every variable keeps its type.
THEOREM TypeCorrect == Spec => []TypeOK
<1>1. IInv => TypeOK
    BY DEF IInv, TypeInv, TypeOK, MessageType
<1> QED
    BY <1>1, Inductive, PTL

\* The reader never fails on what do_send_messages() and do_simple_send() write, nor
\* takes a header for payload or payload for a header.
THEOREM ReaderNeverDesynchronized == Spec => []NeverDesynchronized
<1>1. IInv => NeverDesynchronized
    BY DEF IInv, NeverDesynchronized
<1> QED
    BY <1>1, Inductive, PTL

\* Messages come out of recv_message() unchanged and in the order they were sent.
THEOREM EverythingDeliveredAsSent == Spec => []DeliveredAsSent
<1>1. IInv => DeliveredAsSent
    BY DEF IInv
<1> QED
    BY <1>1, Inductive, PTL

\* in_chunk_size is the out_chunk_size the next chunk was cut to, through every
\* SetChunkSize.
THEOREM SizesAgree == Spec => []ChunkSizesAgree
<1>1. IInv => ChunkSizesAgree
    <2> SUFFICES ASSUME IInv PROVE ChunkSizesAgree
        OBVIOUS
    <2>1. CASE wire = << >>
        BY <2>1 DEF IInv, Meets, CutAt, ChunkSizesAgree
    <2>2. CASE wire # << >>
        <3>1. in_chunk_size = cut[1]
            BY <2>2, HeadFacts
        <3> QED
            BY <2>2, <3>1 DEF IInv, TypeInv, ChunkSizesAgree
    <2> QED
        BY <2>1, <2>2
<1> QED
    BY <1>1, Inductive, PTL

\* A connection is a FIFO of messages.
THEOREM LinkIsMessageChannel == Spec => RefinesMessageChannel
<1> DEFINE got == [k \in 1..Len(delivered) |-> delivered[k].body.id]
           Numbers(n) == [k \in 1..n |-> k]
<1>1. IInv => got = Numbers(Len(delivered)) /\ Len(delivered) \in Nat /\ Len(sent) \in Nat
              /\ Len(delivered) <= Len(sent)
    <2> SUFFICES ASSUME IInv
                 PROVE  /\ got = Numbers(Len(delivered)) /\ Len(delivered) \in Nat
                        /\ Len(sent) \in Nat /\ Len(delivered) <= Len(sent)
        OBVIOUS
    <2>1. /\ Len(delivered) \in Nat /\ Len(sent) \in Nat
          /\ Len(delivered) <= Len(sent)
        BY DEF IInv, TypeInv, DeliveredAsSent
    <2>2. ASSUME NEW k \in 1..Len(delivered)
          PROVE  delivered[k].body.id = k
        <3>1. k \in 1..Len(sent)
            BY <2>1
        <3> QED
            BY <3>1 DEF IInv, DeliveredAsSent, Numbered
    <2> QED
        BY <2>1, <2>2
<1>2. Init => Channel!ChannelInit
    BY DEF Init, ReaderInit, Channel!ChannelInit
<1>3. ASSUME NEW n \in Nat
      PROVE  /\ Numbers(n) \in Seq(Nat) /\ Len(Numbers(n)) = n
             /\ Numbers(n + 1) = Append(Numbers(n), n + 1)
    OBVIOUS
<1>4. IInv /\ IInv' /\ [Next]_vars =>
         [Channel!Accept \/ Channel!Deliver]_(Channel!channelVars)
    <2> SUFFICES ASSUME IInv, IInv', [Next]_vars
                 PROVE  [Channel!Accept \/ Channel!Deliver]_(Channel!channelVars)
        OBVIOUS
    <2>1. /\ got = Numbers(Len(delivered)) /\ got' = Numbers(Len(delivered'))
          /\ Len(delivered) \in Nat /\ Len(sent) \in Nat /\ Len(delivered') <= Len(sent')
          /\ sent \in Seq(MessageType) /\ delivered \in Seq(DeliveredType)
        <3>1. /\ got = Numbers(Len(delivered)) /\ Len(delivered) \in Nat
              /\ Len(sent) \in Nat
            BY <1>1
        <3>2. (got = Numbers(Len(delivered)) /\ Len(delivered) <= Len(sent))'
            BY <1>1, PTL
        <3> QED
            BY <3>1, <3>2 DEF IInv, TypeInv
    <2> HIDE DEF got, Numbers
    <2>2. CASE \E m \in Messages : Send(m)
        <3>1. delivered' = delivered /\ Len(sent') = Len(sent) + 1
            BY <2>1, <2>2 DEF Send, readerVars
        <3> QED
            BY <2>1, <3>1 DEF Channel!Accept, got
    <2>3. CASE WriteChunk \/ UNCHANGED vars
        <3>1. delivered' = delivered /\ sent' = sent
            BY <2>3 DEF WriteChunk, vars, readerVars, senderVars
        <3> QED
            BY <2>1, <3>1 DEF Channel!channelVars, got
    <2>4. CASE Receive
        <3>1. sent' = sent
            BY <2>4 DEF Receive
        <3>2. delivered' = delivered \/ \E m : delivered' = Append(delivered, m)
            BY <2>4 DEF Receive, recv_message, ReadBasicHeader, ReadMessageHeader,
                        ReadExtendedTimestamp, ReadMessagePayload, Return, Fail
        <3>3. CASE delivered' = delivered
            BY <2>1, <3>1, <3>3 DEF Channel!channelVars, got
        <3>4. CASE \E m : delivered' = Append(delivered, m)
            <4>1. Len(delivered') = Len(delivered) + 1
                BY <2>1, <3>4
            <4>2. Len(got) = Len(delivered) /\ got' = Append(got, Len(delivered) + 1)
                BY <1>3, <2>1, <4>1
            <4>3. Len(delivered) < Len(sent)
                BY <2>1, <3>1, <4>1
            <4> QED
                BY <3>1, <4>2, <4>3 DEF Channel!Deliver, got
        <3> QED
            BY <3>2, <3>3, <3>4
    <2> QED
        BY <2>2, <2>3, <2>4 DEF Next
<1> QED
    BY <1>2, <1>4, Inductive, PTL DEF Spec, Channel!ChannelSpec, RefinesMessageChannel
==============================================================================
