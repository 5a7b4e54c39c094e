-------------------------- MODULE ForeignPeer_proofs --------------------------
(***************************************************************************)
(* What a foreign peer writes is only misread where payload looks like an  *)
(* extended timestamp, for any messages, payload, chunk sizes and times,   *)
(* however its chunk streams interleave.  Until then the reader is         *)
(* the peer some chunks ago: what it remembers of each chunk stream is     *)
(* what the peer had in mind when it began the chunk at the head of the    *)
(* transport, and reading that chunk takes the reader to where the peer    *)
(* was behind it.                                                          *)
(*                                                                         *)
(* The proof needs what the README says goes wrong otherwise: time         *)
(* differences are below 0xffffff (ExtendedDeltas is FALSE).               *)
(***************************************************************************)
EXTENDS ForeignPeer, ASequence, SequenceTheorems, TLAPS

------------------------------------------------------------------------------
(***************************************************************************)
(* Sequences of any elements.                                              *)
(***************************************************************************)
\* A sequence is one over its own elements, and over whatever contains them.
LEMMA OverItsElements ==
    ASSUME NEW s, ASeq(s), NEW S, Elements(s) \subseteq S
    PROVE  s \in Seq(S)
<1>1. \A k \in 1..Len(s) : s[k] \in S
  BY DEF Elements
<1>2. QED  BY <1>1 DEF ASeq

LEMMA SeqIsASeq ==
    ASSUME NEW S, NEW s \in Seq(S)
    PROVE  ASeq(s)
BY DEF ASeq

LEMMA EmptyASeq == ASeq(<< >>) /\ Len(<< >>) = 0
BY DEF ASeq

LEMMA TailASeq ==
    ASSUME NEW s, ASeq(s), s # << >>
    PROVE  /\ ASeq(Tail(s)) /\ Head(s) = s[1]
           /\ Len(s) >= 1 /\ Len(Tail(s)) = Len(s) - 1
           /\ \A k \in 1..(Len(s) - 1) : Tail(s)[k] = s[k + 1]
<1> DEFINE S == Elements(s)
<1>1. s \in Seq(S)
  <2> HIDE DEF S
  <2> QED  BY OverItsElements DEF S
<1> HIDE DEF S
<1>2. Tail(s) \in Seq(S) /\ Len(Tail(s)) = Len(s) - 1 /\ Len(s) >= 1
  BY <1>1
<1>3. ASeq(Tail(s))
  BY <1>2, SeqIsASeq
<1>4. QED  BY <1>1, <1>2, <1>3

LEMMA AppendASeq ==
    ASSUME NEW s, ASeq(s), NEW e
    PROVE  /\ ASeq(Append(s, e))
           /\ Len(Append(s, e)) = Len(s) + 1
           /\ \A k \in 1..Len(s) : Append(s, e)[k] = s[k]
           /\ Append(s, e)[Len(s) + 1] = e
<1> DEFINE S == Elements(s) \cup {e}
<1>1. s \in Seq(S) /\ e \in S
  <2>1. Elements(s) \subseteq S /\ e \in S
    OBVIOUS
  <2> HIDE DEF S
  <2>2. QED  BY <2>1, OverItsElements
<1> HIDE DEF S
<1>2. Append(s, e) \in Seq(S)
  BY <1>1
<1>3. ASeq(Append(s, e))
  BY <1>2, SeqIsASeq
<1>4. QED  BY <1>1, <1>3

------------------------------------------------------------------------------
\* A message as the peer may send it, numbered from 1.
Proper(m) ==
    /\ m.id \in Nat \ {0}
    /\ m.cid \in ChunkStreamIds
    /\ m.timestamp \in Nat /\ m.payload_length \in Nat /\ m.value \in Nat \ {0}
    /\ m.message_type = RTMP_MSG_SetChunkSize => m.payload_length > 0

\* l is the header of message m.
HeaderOf(l, m) ==
    /\ l.used
    /\ l.timestamp = m.timestamp /\ l.payload_length = m.payload_length
    /\ l.message_type = m.message_type /\ l.stream_id = m.stream_id

\* What the peer has in mind of chunk stream d: a message in parts is the one whose
\* header was the last.
Coherent(d, u, l) ==
    /\ l.used \/ l = Unused
    /\ l.timestamp \in Nat /\ l.time \in Nat /\ l.extended \in BOOLEAN
    /\ l.extended => l.timestamp >= RTMP_EXTENDED_TIMESTAMP
    /\ \/ u = Idle
       \/ /\ u # Idle
          /\ Proper(u.msg) /\ u.msg.cid = d /\ HeaderOf(l, u.msg)
          /\ u.offset \in Nat \ {0} /\ u.offset < u.msg.payload_length
          /\ u.extended \in BOOLEAN
          /\ u.extended => l.extended
          /\ l.extended => u.word = l.timestamp

ViewOK(v) ==
    /\ v.size \in Nat \ {0}
    /\ v.under_way = [d \in ChunkStreamIds |-> v.under_way[d]]
    /\ v.last = [d \in ChunkStreamIds |-> v.last[d]]
    /\ \A d \in ChunkStreamIds : Coherent(d, v.under_way[d], v.last[d])

Ended(c) == c.from + c.size = c.msg.payload_length

\* Chunk c ends a message that will be returned.
Completes(c) == Ended(c) /\ c.msg.payload_length > 0

\* Chunk c starts a message on a stream whose last header is l, and n is next.
Starts(l, c, n) ==
    /\ c.fmt \in 0..3 /\ c.extended \in BOOLEAN
    /\ n.time = c.time /\ n.extended = c.extended
    /\ c.extended = (c.time >= RTMP_EXTENDED_TIMESTAMP)
    /\ c.extended => c.fmt = 0
    /\ c.fmt = 0 /\ ~c.extended => c.msg.timestamp = c.time
    /\ c.extended => c.word = c.msg.timestamp
    /\ c.fmt # 0 => /\ l.used \/ (c.msg.cid = RTMP_CID_ProtocolControl /\ c.fmt = 1)
                    /\ c.msg.timestamp = l.timestamp + c.time
                    /\ c.msg.stream_id = l.stream_id
    /\ c.fmt >= 2 => /\ c.msg.payload_length = l.payload_length
                     /\ c.msg.message_type = l.message_type
    /\ c.fmt = 3 => c.time = l.time /\ ~l.extended

\* Chunk c continues the message u, and the extended timestamp may be left out: then
\* any bytes of payload follow.
Continues(u, l, c, n) ==
    /\ c.fmt = 3 /\ c.msg = u.msg /\ n = l
    /\ c.extended \in BOOLEAN
    /\ c.extended => l.extended /\ c.word = l.timestamp
    /\ ~c.extended => c.word \in Nat

\* Chunk c takes the peer from v to w.
Follows(v, c, w) ==
    LET d == c.msg.cid
    IN  /\ Proper(c.msg)
        /\ c.from = v.under_way[d].offset
        /\ c.size = Min2(c.msg.payload_length - c.from, v.size)
        /\ HeaderOf(w.last[d], c.msg)
        /\ IF Ended(c) THEN w.under_way[d] = Idle
           ELSE /\ w.under_way[d] # Idle
                /\ w.under_way[d].msg = c.msg
                /\ w.under_way[d].offset = c.from + c.size
        /\ w.size = IF Ended(c) /\ c.msg.message_type = RTMP_MSG_SetChunkSize
                    THEN c.msg.value ELSE v.size
        /\ \A e \in ChunkStreamIds : e # d => /\ w.under_way[e] = v.under_way[e]
                                              /\ w.last[e] = v.last[e]
        /\ IF v.under_way[d] = Idle THEN Starts(v.last[d], c, w.last[d])
           ELSE Continues(v.under_way[d], v.last[d], c, w.last[d])

\* The peer as the k-th chunk began; behind the last one, as it is now.
PeerAt(k) == IF k <= Len(wire) THEN wire[k].before ELSE Now

\* The chunk stream a reader has that read what the peer wrote.
StreamOf(u, l) ==
    [timestamp |-> l.timestamp % TimestampModulus, timestamp_delta |-> l.time,
     payload_length |-> l.payload_length, message_type |-> l.message_type,
     stream_id |-> l.stream_id, extended_timestamp |-> l.extended,
     msg_count |-> IF l.used THEN 1 ELSE 0, open |-> u # Idle, size |-> u.offset,
     body |-> IF u = Idle THEN Nobody ELSE u.msg]

\* The same while chunk c is read, its header expanded to n and the time t.
HeaderRead(u, c, n, t) ==
    [timestamp |-> t, timestamp_delta |-> n.time,
     payload_length |-> c.msg.payload_length, message_type |-> c.msg.message_type,
     stream_id |-> c.msg.stream_id, extended_timestamp |-> n.extended,
     msg_count |-> 1, open |-> TRUE, size |-> c.from,
     body |-> IF u = Idle THEN Nobody ELSE u.msg]

Between == pc \in {"extended_timestamp", "payload"}
TimeSoFar ==
    IF pc = "payload" THEN chunk.msg.timestamp % TimestampModulus
    ELSE PeerAt(1).last[cid].timestamp % TimestampModulus

TypeInv ==
    /\ ASeq(wire) /\ ASeq(delivered)
    /\ started \in Nat
    /\ pc \in {"basic_header", "message_header", "extended_timestamp", "payload"}
    /\ is_first_chunk_of_msg \in BOOLEAN
    /\ streams = [d \in ChunkStreamIds |-> streams[d]]

Views == \A k \in 1..(Len(wire) + 1) : ViewOK(PeerAt(k))
Chained == \A k \in 1..Len(wire) : Follows(PeerAt(k), wire[k], PeerAt(k + 1))

\* The reader is where the peer was as the first chunk began, or amid that chunk.
ReaderBehind ==
    /\ in_chunk_size = PeerAt(1).size
    /\ pc # "basic_header" =>
          /\ wire # << >>
          /\ is_first_chunk_of_msg = (PeerAt(1).under_way[cid] = Idle)
    /\ pc = "extended_timestamp" => PeerAt(2).last[cid].extended
    /\ \A d \in ChunkStreamIds :
          streams[d] = IF Between /\ d = cid
                       THEN HeaderRead(PeerAt(1).under_way[d], chunk, PeerAt(2).last[d],
                                       TimeSoFar)
                       ELSE StreamOf(PeerAt(1).under_way[d], PeerAt(1).last[d])

IInv ==
    /\ TypeInv
    /\ Views
    /\ Chained
    /\ ReaderBehind
    /\ HeadersAreTheirOwn
    /\ OnlyLookalikesMisread

------------------------------------------------------------------------------
\* Quotients and remainders are unique.
LEMMA RemainderIsOne ==
    ASSUME NEW n \in Nat \ {0}, NEW x \in Int, NEW y \in Int,
           NEW r \in 0..(n - 1), NEW s \in 0..(n - 1), n * x + r = n * y + s
    PROVE  r = s
<1>1. CASE x = y
    BY <1>1
<1>2. CASE x >= y + 1
    <2>1. n * (x - y - 1) >= 0
        BY <1>2
    <2> QED
        BY <2>1
<1>3. CASE y >= x + 1
    <2>1. n * (y - x - 1) >= 0
        BY <1>3
    <2> QED
        BY <2>1
<1> QED
    BY <1>1, <1>2, <1>3

LEMMA Division ==
    ASSUME NEW n \in Nat \ {0}, NEW a \in Nat
    PROVE  a = n * (a \div n) + (a % n) /\ a % n \in 0..(n - 1) /\ a \div n \in Int
OBVIOUS

LEMMA Distributes ==
    ASSUME NEW n \in Int, NEW x \in Int, NEW y \in Int
    PROVE  n * x + n * y = n * (x + y)
OBVIOUS

\* A time is masked when it is kept, and again when a difference is added to it.
LEMMA MaskedSum ==
    ASSUME NEW a \in Nat, NEW b \in Nat
    PROVE  ((a % TimestampModulus) + b) % TimestampModulus = (a + b) % TimestampModulus
<1> DEFINE n == TimestampModulus
           c == (a % n) + b
<1>1. n \in Nat \ {0}
    BY ReaderAssumption
<1> HIDE DEF n
<1>2. a = n * (a \div n) + (a % n) /\ a % n \in Nat /\ a \div n \in Int
    BY <1>1, Division
<1>3. c \in Nat /\ a + b = n * (a \div n) + c
    BY <1>1, <1>2
<1>4. a + b \in Nat
    OBVIOUS
<1>5. SUFFICES ASSUME NEW q \in Int, NEW e \in Nat, a + b = n * q + e
               PROVE  e % n = (a + b) % n
    <2> HIDE DEF c
    <2> QED
        BY <1>2, <1>3, <1>5 DEF c, n
<1>6. e = n * (e \div n) + (e % n) /\ e % n \in 0..(n - 1) /\ e \div n \in Int
    BY <1>1, Division
<1>7. /\ a + b = n * ((a + b) \div n) + ((a + b) % n)
      /\ (a + b) % n \in 0..(n - 1) /\ (a + b) \div n \in Int
    BY <1>1, <1>4, Division
<1>8. a + b = n * (q + (e \div n)) + (e % n)
    <2>1. n * q + n * (e \div n) = n * (q + (e \div n))
        BY <1>1, <1>6, Distributes
    <2>2. n * q \in Int /\ n * (e \div n) \in Int /\ n * (q + (e \div n)) \in Int
        BY <1>1, <1>6
    <2> QED
        BY <1>5, <1>6, <2>1, <2>2
<1>9. /\ n * (q + (e \div n)) + (e % n) = n * ((a + b) \div n) + ((a + b) % n)
      /\ q + (e \div n) \in Int
    BY <1>6, <1>7, <1>8
<1>10. \A x, y \in Int : \A r, t \in 0..(n - 1) : n * x + r = n * y + t => r = t
    BY <1>1, RemainderIsOne
<1> QED
    BY ONLY <1>6, <1>7, <1>9, <1>10

LEMMA MaskTwice ==
    ASSUME NEW t \in Nat
    PROVE  /\ t % TimestampModulus \in Nat
           /\ (t % TimestampModulus) % TimestampModulus = t % TimestampModulus
BY ReaderAssumption

------------------------------------------------------------------------------
\* What the invariant says of the chunk the reader is at.
LEMMA HeadFacts ==
    ASSUME IInv, wire # << >>
    PROVE  /\ chunk = wire[1] /\ Len(wire) \in Nat \ {0}
           /\ cid = chunk.msg.cid /\ cid \in ChunkStreamIds /\ stream = streams[cid]
           /\ Follows(PeerAt(1), chunk, PeerAt(2))
           /\ ViewOK(PeerAt(1)) /\ ViewOK(PeerAt(2))
           /\ Coherent(cid, PeerAt(1).under_way[cid], PeerAt(1).last[cid])
           /\ Coherent(cid, PeerAt(2).under_way[cid], PeerAt(2).last[cid])
           /\ chunk.from \in Nat /\ chunk.from <= chunk.msg.payload_length
<1>1. chunk = wire[1] /\ Len(wire) \in Nat \ {0}
    <2>1. ASeq(wire)
        BY DEF IInv, TypeInv
    <2>2. Head(wire) = wire[1] /\ Len(wire) >= 1
        BY <2>1, TailASeq
    <2>3. Len(wire) \in Nat
        BY <2>1 DEF ASeq
    <2> QED
        BY <2>2, <2>3 DEF chunk
<1>2. Follows(PeerAt(1), chunk, PeerAt(2))
    <2>1. 1 \in 1..Len(wire) /\ 1 + 1 = 2
        BY <1>1
    <2> QED
        BY <1>1, <2>1 DEF IInv, Chained
<1>3. ViewOK(PeerAt(1)) /\ ViewOK(PeerAt(2))
    <2>1. 1 \in 1..(Len(wire) + 1) /\ 2 \in 1..(Len(wire) + 1)
        BY <1>1
    <2> QED
        BY <2>1 DEF IInv, Views
<1>4. cid = chunk.msg.cid /\ cid \in ChunkStreamIds /\ stream = streams[cid]
    BY <1>2 DEF cid, stream, Follows, Proper
<1>5. /\ Coherent(cid, PeerAt(1).under_way[cid], PeerAt(1).last[cid])
      /\ Coherent(cid, PeerAt(2).under_way[cid], PeerAt(2).last[cid])
    BY <1>3, <1>4 DEF ViewOK
<1>6. chunk.from \in Nat /\ chunk.from <= chunk.msg.payload_length
    <2> DEFINE u == PeerAt(1).under_way[cid]
    <2>1. chunk.from = u.offset /\ chunk.msg.payload_length \in Nat
        BY <1>2, <1>4 DEF Follows, Proper
    <2>2. CASE u = Idle
        BY <2>1, <2>2 DEF Idle
    <2>3. CASE u # Idle
        <3>1. chunk.msg = u.msg
            BY <1>2, <1>4, <2>3 DEF Follows, Continues
        <3> QED
            BY <1>5, <2>1, <2>3, <3>1 DEF Coherent
    <2> QED
        BY <2>2, <2>3
<1> QED
    BY <1>1, <1>2, <1>3, <1>4, <1>5, <1>6

\* The initial states.
LEMMA Initial == Init => IInv
<1> SUFFICES ASSUME Init PROVE IInv
    OBVIOUS
<1>1. ASeq(wire) /\ Len(wire) = 0 /\ ASeq(delivered) /\ Len(delivered) = 0 /\ wire = << >>
    BY EmptyASeq DEF Init, ReaderInit
<1>2. TypeInv
    BY <1>1 DEF Init, ReaderInit, TypeInv
<1>3. PeerAt(1) = Now /\ Now.size = in_chunk_size
    BY <1>1 DEF PeerAt, Now, Init, ReaderInit
<1>4. ViewOK(Now)
    <2>1. \A d \in ChunkStreamIds : Coherent(d, Idle, Unused)
        BY DEF Coherent, Unused
    <2>2. /\ Now.under_way = [d \in ChunkStreamIds |-> Idle]
          /\ Now.last = [d \in ChunkStreamIds |-> Unused]
          /\ Now.size \in Nat \ {0}
        BY ReaderAssumption DEF Now, Init
    <2> QED
        BY <2>1, <2>2 DEF ViewOK
<1>5. Views
    BY <1>1, <1>3, <1>4 DEF Views
<1>6. Chained
    BY <1>1 DEF Chained
<1>7. ReaderBehind
    <2>1. StreamOf(Idle, Unused) = FreshStream
        <3>1. 0 % TimestampModulus = 0
            BY ReaderAssumption
        <3> QED
            BY <3>1 DEF StreamOf, Idle, Unused, FreshStream, Nobody
    <2>2. \A d \in ChunkStreamIds : Now.under_way[d] = Idle /\ Now.last[d] = Unused
        BY DEF Now, Init
    <2>3. pc = "basic_header" /\ \A d \in ChunkStreamIds : streams[d] = FreshStream
        BY DEF Init, ReaderInit
    <2> QED
        BY <1>3, <2>1, <2>2, <2>3 DEF ReaderBehind, Between
<1>8. HeadersAreTheirOwn /\ OnlyLookalikesMisread
    BY <1>1 DEF HeadersAreTheirOwn, OnlyLookalikesMisread, Misled, Init, ReaderInit
<1> QED
    BY <1>2, <1>5, <1>6, <1>7, <1>8 DEF IInv

------------------------------------------------------------------------------
\* The chunk that Put() puts.
NewChunk(fmt, m, time, extended, word, payload, from) ==
    [fmt |-> fmt, time |-> time, extended |-> extended,
     word |-> IF extended THEN word ELSE payload,
     msg |-> m, from |-> from, size |-> Min2(m.payload_length - from, peer_chunk_size),
     before |-> Now, place |-> Len(finished)]

\* A chunk more behind the others is nothing to the reader.
LEMMA PutKeeps ==
    ASSUME IInv, started' \in Nat, ViewOK(Now'),
           NEW fmt, NEW m, NEW time, NEW extended, NEW word, NEW payload, NEW from,
           Put(fmt, m, time, extended, word, payload, from),
           Follows(Now, NewChunk(fmt, m, time, extended, word, payload, from), Now')
    PROVE  IInv'
<1> DEFINE new == NewChunk(fmt, m, time, extended, word, payload, from)
<1> PICK n \in Nat : n = Len(wire)
    BY DEF IInv, TypeInv, ASeq
<1>1. /\ wire' = Append(wire, new)
      /\ UNCHANGED <<streams, in_chunk_size, pc, is_first_chunk_of_msg, fault, delivered>>
    BY DEF Put, NewChunk
<1>2. ASeq(wire) /\ n \in Nat /\ n = Len(wire)
    BY DEF IInv, TypeInv
<1>3. new.before = Now
    BY DEF NewChunk
<1> HIDE DEF new
<1>4. /\ ASeq(wire') /\ Len(wire') = n + 1 /\ wire'[n + 1] = new
      /\ \A k \in 1..n : wire'[k] = wire[k]
    BY <1>1, <1>2, AppendASeq
<1>5. TypeInv'
    BY <1>1, <1>4 DEF IInv, TypeInv
<1>6. \A k \in 1..(n + 1) : PeerAt(k)' = PeerAt(k)
    BY <1>2, <1>3, <1>4 DEF PeerAt
<1>7. PeerAt(n + 1) = Now /\ PeerAt(n + 2)' = Now'
    BY <1>2, <1>4 DEF PeerAt
<1>8. Views'
    <2> SUFFICES ASSUME NEW k \in 1..(n + 2) PROVE ViewOK(PeerAt(k)')
        BY <1>2, <1>4 DEF Views
    <2>1. CASE k \in 1..(n + 1)
        <3>1. ViewOK(PeerAt(k))
            BY <2>1 DEF IInv, Views
        <3> QED
            BY <1>6, <2>1, <3>1
    <2>2. CASE k = n + 2
        BY <1>7, <2>2
    <2> QED
        BY <1>2, <2>1, <2>2
<1>9. Chained'
    <2> SUFFICES ASSUME NEW k \in 1..(n + 1)
                 PROVE  Follows(PeerAt(k)', wire'[k], PeerAt(k + 1)')
        BY <1>2, <1>4 DEF Chained
    <2>1. CASE k \in 1..n
        <3>1. Follows(PeerAt(k), wire[k], PeerAt(k + 1))
            BY <2>1 DEF IInv, Chained
        <3>2. PeerAt(k)' = PeerAt(k) /\ PeerAt(k + 1)' = PeerAt(k + 1)
            <4>1. k \in 1..(n + 1) /\ k + 1 \in 1..(n + 1)
                BY <1>2, <2>1
            <4> QED
                BY <1>6, <4>1
        <3> QED
            BY <1>4, <2>1, <3>1, <3>2
    <2>2. CASE k = n + 1
        <3>1. PeerAt(k)' = Now /\ PeerAt(k + 1)' = Now'
            <4>1. k \in 1..(n + 1) /\ k + 1 = n + 2
                BY <1>2, <2>2
            <4> QED
                BY <1>6, <1>7, <2>2, <4>1
        <3> QED
            BY <1>4, <2>2, <3>1 DEF new
    <2> QED
        BY <1>2, <2>1, <2>2
<1>10. PeerAt(1)' = PeerAt(1)
    BY <1>2, <1>6
<1>11. wire # << >> => chunk' = chunk /\ cid' = cid /\ PeerAt(2)' = PeerAt(2) /\ wire' # << >>
    <2> SUFFICES ASSUME wire # << >>
                 PROVE  chunk' = chunk /\ cid' = cid /\ PeerAt(2)' = PeerAt(2) /\ wire' # << >>
        OBVIOUS
    <2>1. n >= 1 /\ Head(wire) = wire[1]
        BY <1>2, TailASeq
    <2>2. wire' # << >>
        BY <1>2, <1>4, EmptyASeq
    <2>3. Head(wire') = wire'[1]
        BY <1>4, <2>2, TailASeq
    <2>4. 1 \in 1..n /\ 2 \in 1..(n + 1)
        BY <1>2, <2>1
    <2> QED
        BY <1>4, <1>6, <2>1, <2>2, <2>3, <2>4 DEF chunk, cid
<1>12. ReaderBehind'
    <2>1. CASE pc = "basic_header"
        BY <1>1, <1>10, <2>1 DEF IInv, ReaderBehind, Between
    <2>2. CASE pc # "basic_header"
        <3>1. wire # << >>
            BY <2>2 DEF IInv, ReaderBehind
        <3>2. TimeSoFar' = TimeSoFar /\ Between' = Between
            BY <1>1, <1>10, <1>11, <3>1 DEF TimeSoFar, Between
        <3> QED
            BY <1>1, <1>10, <1>11, <3>1, <3>2 DEF IInv, ReaderBehind
    <2> QED
        BY <2>1, <2>2
<1>13. HeadersAreTheirOwn' /\ OnlyLookalikesMisread'
    <2>1. HeadersAreTheirOwn'
        BY <1>1 DEF IInv, HeadersAreTheirOwn
    <2>2. OnlyLookalikesMisread'
        BY <1>1, <1>11 DEF IInv, OnlyLookalikesMisread, Misled, LooksExtended
    <2> QED
        BY <2>1, <2>2
<1> QED
    BY <1>5, <1>8, <1>9, <1>12, <1>13 DEF IInv

\* What the peer has in mind of every chunk stream, from the invariant.
LEMMA NowFacts ==
    ASSUME IInv
    PROVE  /\ ViewOK(Now)
           /\ under_way = [d \in ChunkStreamIds |-> under_way[d]]
           /\ last = [d \in ChunkStreamIds |-> last[d]]
           /\ peer_chunk_size \in Nat \ {0}
           /\ \A d \in ChunkStreamIds : Coherent(d, under_way[d], last[d])
<1>1. Len(wire) \in Nat
    BY DEF IInv, TypeInv, ASeq
<1>2. PeerAt(Len(wire) + 1) = Now
    BY <1>1 DEF PeerAt
<1>3. ViewOK(Now)
    BY <1>1, <1>2 DEF IInv, Views
<1> QED
    BY <1>3 DEF ViewOK, Now

\* A piece of what is left of a message.
LEMMA PieceSize ==
    ASSUME NEW left \in Nat, NEW limit \in Nat \ {0}
    PROVE  /\ Min2(left, limit) \in Nat /\ Min2(left, limit) <= left
           /\ left # 0 => Min2(left, limit) # 0
BY DEF Min2

\* A chunk that continues a message follows, whatever is left out of it.
LEMMA ContinueKeeps ==
    ASSUME IInv, NEW c \in ChunkStreamIds, Continue(c)
    PROVE  IInv'
<1> DEFINE u == under_way[c]
           l == last[c]
           size == Min2(u.msg.payload_length - u.offset, peer_chunk_size)
           end == u.offset + size
           again == [msg |-> u.msg, offset |-> end, extended |-> u.extended /\ repeats,
                     word |-> u.word]
<1>0. PICK payload \in Nat : Put(3, u.msg, 0, u.extended /\ repeats, u.word, payload, u.offset)
    BY PeerAssumption DEF Continue, Unread
<1> DEFINE new == NewChunk(3, u.msg, 0, u.extended /\ repeats, u.word, payload, u.offset)
<1>1. /\ u # Idle
      /\ Put(3, u.msg, 0, u.extended /\ repeats, u.word, payload, u.offset)
      /\ UNCHANGED <<last, started>>
    BY <1>0 DEF Continue
<1>2. /\ Proper(u.msg) /\ u.msg.cid = c /\ HeaderOf(l, u.msg)
      /\ u.offset \in Nat \ {0} /\ u.offset < u.msg.payload_length
      /\ u.extended \in BOOLEAN /\ (u.extended => l.extended)
      /\ (l.extended => u.word = l.timestamp)
    BY <1>1, NowFacts DEF Coherent
<1>3. /\ u.msg.payload_length \in Nat /\ u.msg.payload_length - u.offset \in Nat \ {0}
    <2>1. u.msg.payload_length \in Nat
        BY <1>2 DEF Proper
    <2> QED
        BY <1>2, <2>1
<1>4. size \in Nat \ {0} /\ end \in Nat \ {0} /\ end <= u.msg.payload_length
    <2>1. size \in Nat \ {0} /\ size <= u.msg.payload_length - u.offset
        BY <1>3, NowFacts, PieceSize
    <2> HIDE DEF size
    <2> QED
        BY <1>2, <1>3, <2>1
<1>5. /\ new.fmt = 3 /\ new.msg = u.msg /\ new.from = u.offset /\ new.size = size
      /\ new.extended = (u.extended /\ repeats)
      /\ new.word = IF u.extended /\ repeats THEN u.word ELSE payload
    BY DEF NewChunk
<1>6. /\ under_way' = [under_way EXCEPT ![c] =
                         IF end = u.msg.payload_length THEN Idle ELSE again]
      /\ peer_chunk_size' = IF /\ end = u.msg.payload_length
                               /\ u.msg.message_type = RTMP_MSG_SetChunkSize
                            THEN u.msg.value ELSE peer_chunk_size
    BY <1>1, <1>2 DEF Put
<1>7. /\ again.msg = u.msg /\ again.offset = end /\ again.word = u.word
      /\ again.extended = (u.extended /\ repeats) /\ again # Idle
    <2>1. again.offset # Idle.offset
        BY <1>4 DEF Idle
    <2> QED
        BY <2>1
<1>8. Ended(new) <=> end = u.msg.payload_length
    BY <1>5 DEF Ended
<1> HIDE DEF size, end, again, new
<1>9. /\ under_way'[c] = IF end = u.msg.payload_length THEN Idle ELSE again
      /\ \A d \in ChunkStreamIds : d # c => under_way'[d] = under_way[d]
      /\ under_way' = [d \in ChunkStreamIds |-> under_way'[d]]
    BY <1>6, NowFacts
<1>10. /\ Now.under_way = under_way /\ Now.last = last /\ Now.size = peer_chunk_size
       /\ Now'.under_way = under_way' /\ Now'.last = last /\ Now'.size = peer_chunk_size'
    BY <1>1 DEF Now
<1>11. ViewOK(Now')
    <2>1. peer_chunk_size' \in Nat \ {0}
        BY <1>2, <1>6, NowFacts DEF Proper
    <2>2. Coherent(c, under_way'[c], l)
        <3>1. Coherent(c, u, l)
            BY NowFacts
        <3>2. CASE end = u.msg.payload_length
            BY <1>9, <3>1, <3>2 DEF Coherent
        <3>3. CASE end # u.msg.payload_length
            <4>1. under_way'[c] = again /\ end < u.msg.payload_length
                BY <1>3, <1>4, <1>9, <3>3
            <4> QED
                BY <1>2, <1>4, <1>7, <3>1, <4>1 DEF Coherent
        <3> QED
            BY <3>2, <3>3
    <2>3. \A d \in ChunkStreamIds : Coherent(d, under_way'[d], last[d])
        BY <1>9, <2>2, NowFacts
    <2> QED
        BY <1>9, <1>10, <2>1, <2>3, NowFacts DEF ViewOK
<1>12. Continues(u, l, new, l)
    BY <1>2, <1>5 DEF Continues
<1>13. Follows(Now, new, Now')
    <2>1. new.msg.cid = c /\ Proper(new.msg)
        BY <1>2, <1>5
    <2>2. new.size = Min2(new.msg.payload_length - new.from, peer_chunk_size)
        BY <1>5 DEF size
    <2>3. end = new.from + new.size
        BY <1>5 DEF end
    <2>4. IF Ended(new) THEN under_way'[c] = Idle
          ELSE /\ under_way'[c] # Idle /\ under_way'[c].msg = new.msg
               /\ under_way'[c].offset = new.from + new.size
        <3>1. CASE end = u.msg.payload_length
            BY <1>8, <1>9, <3>1
        <3>2. CASE end # u.msg.payload_length
            BY <1>5, <1>7, <1>8, <1>9, <2>3, <3>2
        <3> QED
            BY <3>1, <3>2
    <2>5. peer_chunk_size' = IF Ended(new) /\ new.msg.message_type = RTMP_MSG_SetChunkSize
                             THEN new.msg.value ELSE peer_chunk_size
        BY <1>5, <1>6, <1>8
    <2>6. /\ new.from = u.offset /\ HeaderOf(l, new.msg) /\ Continues(u, l, new, l)
          /\ u # Idle
        BY <1>1, <1>2, <1>5, <1>12
    <2> QED
        BY <1>9, <1>10, <2>1, <2>2, <2>4, <2>5, <2>6 DEF Follows
<1>14. started' \in Nat
    BY <1>1 DEF IInv, TypeInv
<1> QED
    BY <1>1, <1>11, <1>13, <1>14, PutKeeps DEF new

\* A message may start with every format that MayUse() gives it.
LEMMA StartKeeps ==
    ASSUME ~ExtendedDeltas, IInv, NEW m \in Messages, NEW fmt \in 0..3, Start(m, fmt)
    PROVE  IInv'
<1> DEFINE c == m.cid
           l == last[c]
           mm == Numbered(m, started + 1)
           value == IF fmt = 0 THEN m.timestamp ELSE m.timestamp - l.timestamp
           extended == value >= RTMP_EXTENDED_TIMESTAMP
           time == IF extended THEN RTMP_EXTENDED_TIMESTAMP ELSE value
           size == Min2(m.payload_length - 0, peer_chunk_size)
           new == NewChunk(fmt, mm, time, extended, value, Unread, 0)
           begun == [msg |-> mm, offset |-> 0 + size, extended |-> extended, word |-> value]
           next == [timestamp |-> m.timestamp, time |-> time, extended |-> extended,
                    payload_length |-> m.payload_length, message_type |-> m.message_type,
                    stream_id |-> m.stream_id, used |-> TRUE]
<1>1. /\ under_way[c] = Idle /\ MayUse(fmt, m)
      /\ Put(fmt, mm, time, extended, value, Unread, 0)
      /\ last' = [last EXCEPT ![c] = next] /\ started' = started + 1
    BY DEF Start
<1>2. /\ c \in ChunkStreamIds /\ m.timestamp \in Nat /\ m.payload_length \in Nat
      /\ m.value \in Nat \ {0} /\ started \in Nat
      /\ m.message_type = RTMP_MSG_SetChunkSize => m.payload_length > 0
    BY PeerAssumption DEF IInv, TypeInv
<1>3. /\ mm.id = started + 1 /\ mm.cid = c /\ mm.timestamp = m.timestamp
      /\ mm.payload_length = m.payload_length /\ mm.message_type = m.message_type
      /\ mm.stream_id = m.stream_id /\ mm.value = m.value
    BY DEF Numbered
<1>4. Proper(mm)
    BY <1>2, <1>3 DEF Proper
<1>5. /\ Coherent(c, Idle, l) /\ l.timestamp \in Nat /\ l.time \in Nat /\ l.extended \in BOOLEAN
    BY <1>1, <1>2, NowFacts DEF Coherent
<1>6. fmt # 0 => /\ l.used \/ (c = RTMP_CID_ProtocolControl /\ fmt = 1)
                 /\ m.stream_id = l.stream_id
                 /\ m.timestamp - l.timestamp \in Nat
                 /\ m.timestamp - l.timestamp < RTMP_EXTENDED_TIMESTAMP
    <2> SUFFICES ASSUME fmt # 0
                 PROVE  /\ l.used \/ (c = RTMP_CID_ProtocolControl /\ fmt = 1)
                        /\ m.stream_id = l.stream_id
                        /\ m.timestamp - l.timestamp >= 0
                        /\ m.timestamp - l.timestamp < RTMP_EXTENDED_TIMESTAMP
        BY <1>2, <1>5
    <2>1. fmt = 1 \/ fmt = 2 \/ fmt = 3
        OBVIOUS
    <2> QED
        BY <1>1, <2>1 DEF MayUse
<1>7. fmt = 2 \/ fmt = 3 =>
         m.payload_length = l.payload_length /\ m.message_type = l.message_type
    <2>1. CASE fmt = 2
        BY <1>1, <2>1 DEF MayUse
    <2>2. CASE fmt = 3
        BY <1>1, <2>2 DEF MayUse
    <2> QED
        BY <2>1, <2>2
<1>8. fmt = 3 => m.timestamp - l.timestamp = l.time /\ ~l.extended
    BY <1>1 DEF MayUse
<1>9. /\ value \in Nat /\ time \in Nat /\ extended \in BOOLEAN
      /\ extended = (time >= RTMP_EXTENDED_TIMESTAMP)
      /\ extended => fmt = 0 /\ value = m.timestamp
      /\ ~extended => time = value
      /\ fmt = 0 => value = m.timestamp
      /\ fmt # 0 => value = m.timestamp - l.timestamp
    BY <1>2, <1>5, <1>6, ReaderAssumption
<1>10. size \in Nat /\ size <= m.payload_length /\ (size = 0 => m.payload_length = 0)
    BY <1>2, NowFacts, PieceSize
<1>11. /\ new.fmt = fmt /\ new.msg = mm /\ new.from = 0 /\ new.size = size
       /\ new.extended = extended /\ new.time = time
       /\ new.word = IF extended THEN value ELSE Unread
    BY <1>3 DEF NewChunk
<1>12. /\ next.used /\ next.timestamp = m.timestamp /\ next.time = time
       /\ next.extended = extended /\ next.payload_length = m.payload_length
       /\ next.message_type = m.message_type /\ next.stream_id = m.stream_id
    OBVIOUS
<1>13. /\ begun.msg = mm /\ begun.offset = size /\ begun.extended = extended
       /\ begun.word = value
       /\ size # 0 => begun # Idle
    <2>1. begun.msg = mm /\ begun.extended = extended /\ begun.word = value
        OBVIOUS
    <2>2. begun.offset = size
        <3> HIDE DEF size
        <3> QED
            BY <1>10
    <2>3. size # 0 => begun # Idle
        BY <2>2 DEF Idle
    <2> QED
        BY <2>1, <2>2, <2>3
<1>14. /\ under_way' = [under_way EXCEPT ![c] =
                          IF size = m.payload_length THEN Idle ELSE begun]
       /\ peer_chunk_size' = IF /\ size = m.payload_length
                                /\ m.message_type = RTMP_MSG_SetChunkSize
                             THEN m.value ELSE peer_chunk_size
    <2>1. 0 + size = size
        <3> HIDE DEF size
        <3> QED
            BY <1>10
    <2>2. Min2(mm.payload_length - 0, peer_chunk_size) = size
        BY <1>3
    <2> HIDE DEF size
    <2> QED
        BY <1>1, <1>3, <2>1, <2>2 DEF Put
<1>15. Ended(new) <=> size = m.payload_length
    <2> HIDE DEF size, new
    <2> QED
        BY <1>3, <1>10, <1>11 DEF Ended
<1>16. new.size = Min2(new.msg.payload_length - new.from, peer_chunk_size)
    BY <1>3, <1>11
<1> HIDE DEF mm, size, begun, new, next, value, time, extended
<1>17. /\ under_way'[c] = IF size = m.payload_length THEN Idle ELSE begun
       /\ last'[c] = next
       /\ \A d \in ChunkStreamIds :
             d # c => under_way'[d] = under_way[d] /\ last'[d] = last[d]
       /\ under_way' = [d \in ChunkStreamIds |-> under_way'[d]]
       /\ last' = [d \in ChunkStreamIds |-> last'[d]]
    BY <1>1, <1>2, <1>14, NowFacts
<1>18. /\ Now.under_way = under_way /\ Now.last = last /\ Now.size = peer_chunk_size
       /\ Now'.under_way = under_way' /\ Now'.last = last' /\ Now'.size = peer_chunk_size'
    BY DEF Now
<1>19. HeaderOf(next, mm)
    BY <1>3, <1>12 DEF HeaderOf
<1>20. extended => m.timestamp >= RTMP_EXTENDED_TIMESTAMP
    BY <1>9 DEF extended
<1>21. ViewOK(Now')
    <2>1. peer_chunk_size' \in Nat \ {0}
        BY <1>2, <1>14, NowFacts
    <2>2. CASE size = m.payload_length
        <3>1. Coherent(c, Idle, next)
            BY <1>2, <1>9, <1>12, <1>20 DEF Coherent
        <3>2. \A d \in ChunkStreamIds : Coherent(d, under_way'[d], last'[d])
            BY <1>17, <2>2, <3>1, NowFacts
        <3> QED
            BY <1>17, <1>18, <2>1, <3>2 DEF ViewOK
    <2>3. CASE size # m.payload_length
        <3>1. size \in Nat \ {0} /\ size < m.payload_length /\ begun # Idle
            BY <1>2, <1>10, <1>13, <2>3
        <3>2. Coherent(c, begun, next)
            BY <1>2, <1>3, <1>4, <1>9, <1>12, <1>13, <1>19, <1>20, <3>1 DEF Coherent
        <3>3. \A d \in ChunkStreamIds : Coherent(d, under_way'[d], last'[d])
            BY <1>17, <2>3, <3>2, NowFacts
        <3> QED
            BY <1>17, <1>18, <2>1, <3>3 DEF ViewOK
    <2> QED
        BY <2>2, <2>3
<1>22. Starts(l, new, next)
    <2>1. fmt # 0 => m.timestamp = l.timestamp + value
        BY <1>2, <1>5, <1>9
    <2>2. fmt >= 2 => fmt = 2 \/ fmt = 3
        OBVIOUS
    <2> QED
        BY <1>3, <1>6, <1>7, <1>8, <1>9, <1>11, <1>12, <2>1, <2>2 DEF Starts
<1>23. Follows(Now, new, Now')
    <2>1. new.msg.cid = c /\ Proper(new.msg) /\ new.from = Idle.offset
        BY <1>3, <1>4, <1>11 DEF Idle
    <2>2. IF Ended(new) THEN under_way'[c] = Idle
          ELSE /\ under_way'[c] # Idle /\ under_way'[c].msg = new.msg
               /\ under_way'[c].offset = new.from + new.size
        <3>1. CASE size = m.payload_length
            BY <1>15, <1>17, <3>1
        <3>2. CASE size # m.payload_length
            BY <1>10, <1>11, <1>13, <1>15, <1>17, <3>2
        <3> QED
            BY <3>1, <3>2
    <2>3. peer_chunk_size' = IF Ended(new) /\ new.msg.message_type = RTMP_MSG_SetChunkSize
                             THEN new.msg.value ELSE peer_chunk_size
        BY <1>3, <1>11, <1>14, <1>15
    <2>4. HeaderOf(last'[c], new.msg) /\ Starts(last[c], new, last'[c])
        BY <1>11, <1>17, <1>19, <1>22
    <2> QED
        BY <1>1, <1>16, <1>17, <1>18, <2>1, <2>2, <2>3, <2>4 DEF Follows
<1>24. started' \in Nat
    BY <1>1, <1>2
<1> QED
    BY <1>1, <1>21, <1>23, <1>24, PutKeeps DEF new

------------------------------------------------------------------------------
\* A read that takes no chunk away leaves the peer where it was.
LEMMA PeerStays ==
    ASSUME IInv, UNCHANGED <<wire, peerVars>>
    PROVE  /\ \A k \in Int : PeerAt(k)' = PeerAt(k)
           /\ Views' /\ Chained' /\ chunk' = chunk /\ cid' = cid
<1>1. Now' = Now
    BY DEF Now, peerVars
<1>2. \A k \in Int : PeerAt(k)' = PeerAt(k)
    BY <1>1 DEF PeerAt
<1>3. Len(wire) \in Nat
    BY DEF IInv, TypeInv, ASeq
<1>4. Views'
    <2> SUFFICES ASSUME NEW k \in 1..(Len(wire) + 1) PROVE ViewOK(PeerAt(k)')
        BY DEF Views
    <2> QED
        BY <1>2, <1>3 DEF IInv, Views
<1>5. Chained'
    <2> SUFFICES ASSUME NEW k \in 1..Len(wire)
                 PROVE  Follows(PeerAt(k)', wire[k], PeerAt(k + 1)')
        BY DEF Chained
    <2>1. k \in Int /\ k + 1 \in Int
        OBVIOUS
    <2> QED
        BY <1>2, <2>1 DEF IInv, Chained
<1> QED
    BY <1>2, <1>4, <1>5 DEF chunk, cid

LEMMA ReadBasicHeaderKeeps ==
    ASSUME IInv, ReadBasicHeader, UNCHANGED peerVars
    PROVE  IInv'
<1>1. /\ pc = "basic_header" /\ wire # << >>
      /\ is_first_chunk_of_msg' = ~stream.open /\ pc' = "message_header"
      /\ UNCHANGED <<wire, streams, in_chunk_size, fault, delivered>>
    BY DEF ReadBasicHeader
<1>2. started' = started
    BY DEF peerVars
<1>3. TypeInv'
    BY <1>1, <1>2 DEF IInv, TypeInv
<1>4. /\ \A k \in Int : PeerAt(k)' = PeerAt(k)
      /\ Views' /\ Chained' /\ chunk' = chunk /\ cid' = cid
    BY <1>1, PeerStays
<1>5. stream = StreamOf(PeerAt(1).under_way[cid], PeerAt(1).last[cid])
    BY <1>1, HeadFacts DEF IInv, ReaderBehind, Between
<1>6. stream.open = (PeerAt(1).under_way[cid] # Idle)
    BY <1>5 DEF StreamOf
<1>7. ReaderBehind'
    <2>1. PeerAt(1)' = PeerAt(1)
        BY <1>4
    <2>2. \A d \in ChunkStreamIds :
              streams[d] = StreamOf(PeerAt(1).under_way[d], PeerAt(1).last[d])
        BY <1>1 DEF IInv, ReaderBehind, Between
    <2> QED
        BY <1>1, <1>4, <1>6, <2>1, <2>2 DEF IInv, ReaderBehind, Between
<1>8. HeadersAreTheirOwn' /\ OnlyLookalikesMisread'
    <2>1. HeadersAreTheirOwn'
        BY <1>1 DEF IInv, HeadersAreTheirOwn
    <2>2. fault = NoFault
        BY DEF ReadBasicHeader
    <2> QED
        BY <1>1, <2>1, <2>2 DEF OnlyLookalikesMisread, Misled
<1> QED
    BY <1>3, <1>4, <1>7, <1>8 DEF IInv

\* The fields of a chunk stream, for replacing them one at a time.
Fields(t, d, p, m, i, x, c, o, size, body) ==
    [timestamp |-> t, timestamp_delta |-> d, payload_length |-> p, message_type |-> m,
     stream_id |-> i, extended_timestamp |-> x, msg_count |-> c, open |-> o,
     size |-> size, body |-> body]

\* The message header of chunk c replaces fields of the chunk stream.
Expands(s, c, first, t, time, length, type, sid, more, one, yes) ==
    /\ more = IF c.fmt <= 2 THEN c.time >= RTMP_EXTENDED_TIMESTAMP ELSE s.extended_timestamp
    /\ t = HeaderTimestamp(s, c, first, more) % TimestampModulus
    /\ time = IF c.fmt <= 2 THEN c.time ELSE s.timestamp_delta
    /\ length = IF c.fmt <= 1 THEN c.msg.payload_length ELSE s.payload_length
    /\ type = IF c.fmt <= 1 THEN c.msg.message_type ELSE s.message_type
    /\ sid = IF c.fmt = 0 THEN c.msg.stream_id ELSE s.stream_id
    /\ one = 1 /\ yes = TRUE

LEMMA HeaderFields ==
    ASSUME NEW s, NEW c, NEW first, NEW t0, NEW d0, NEW p0, NEW m0, NEW i0, NEW x0, NEW c0,
           NEW o0, NEW size, NEW body,
           s = Fields(t0, d0, p0, m0, i0, x0, c0, o0, size, body),
           NEW t, NEW time, NEW length, NEW type, NEW sid, NEW more, NEW one, NEW yes,
           Expands(s, c, first, t, time, length, type, sid, more, one, yes)
    PROVE  WithHeader(s, c, first)
              = Fields(t, time, length, type, sid, more, one, yes, size, body)
<1> DEFINE s1 == [s EXCEPT !.extended_timestamp = more]
           s2 == [s1 EXCEPT !.timestamp = t]
           s3 == [s2 EXCEPT !.timestamp_delta = time]
           s4 == [s3 EXCEPT !.payload_length = length]
           s5 == [s4 EXCEPT !.message_type = type]
           s6 == [s5 EXCEPT !.stream_id = sid]
           s7 == [s6 EXCEPT !.msg_count = one]
           s8 == [s7 EXCEPT !.open = yes]
<1>1. s = Fields(t0, d0, p0, m0, i0, x0, c0, o0, size, body)
    OBVIOUS
<1>2. WithHeader(s, c, first) = s8
    BY DEF WithHeader, Expands
<1>3. s1 = Fields(t0, d0, p0, m0, i0, more, c0, o0, size, body)
    BY ONLY <1>1 DEF Fields
<1> HIDE DEF s1
<1>4. s2 = Fields(t, d0, p0, m0, i0, more, c0, o0, size, body)
    BY ONLY <1>3 DEF Fields
<1> HIDE DEF s2
<1>5. s3 = Fields(t, time, p0, m0, i0, more, c0, o0, size, body)
    BY ONLY <1>4 DEF Fields
<1> HIDE DEF s3
<1>6. s4 = Fields(t, time, length, m0, i0, more, c0, o0, size, body)
    BY ONLY <1>5 DEF Fields
<1> HIDE DEF s4
<1>7. s5 = Fields(t, time, length, type, i0, more, c0, o0, size, body)
    BY ONLY <1>6 DEF Fields
<1> HIDE DEF s5
<1>8. s6 = Fields(t, time, length, type, sid, more, c0, o0, size, body)
    BY ONLY <1>7 DEF Fields
<1> HIDE DEF s6
<1>9. s7 = Fields(t, time, length, type, sid, more, one, o0, size, body)
    BY ONLY <1>8 DEF Fields
<1> HIDE DEF s7
<1>10. s8 = Fields(t, time, length, type, sid, more, one, yes, size, body)
    BY ONLY <1>9 DEF Fields
<1> HIDE DEF s8
<1> QED
    BY ONLY <1>2, <1>10 DEF s8

\* A chunk's header is expanded to the one the peer meant, whether it starts a message
\* or continues one; the time is still to come if it is an extended one.
LEMMA HeaderExpanded ==
    ASSUME NEW u, NEW l, NEW c, NEW n, NEW s, NEW first,
           s = StreamOf(u, l), first = (u = Idle),
           Coherent(c.msg.cid, u, l), Proper(c.msg), HeaderOf(n, c.msg),
           c.from = u.offset, l.time \in Nat, n.time \in Nat, n.extended \in BOOLEAN,
           u = Idle => Starts(l, c, n), u # Idle => Continues(u, l, c, n)
    PROVE  WithHeader(s, c, first)
              = HeaderRead(u, c, n, IF n.extended THEN l.timestamp % TimestampModulus
                                    ELSE c.msg.timestamp % TimestampModulus)
<1> DEFINE r == IF n.extended THEN l.timestamp % TimestampModulus
                ELSE c.msg.timestamp % TimestampModulus
           count == IF l.used THEN 1 ELSE 0
           body == IF u = Idle THEN Nobody ELSE u.msg
           mask == l.timestamp % TimestampModulus
<1>1. PICK yes, open, one : yes = TRUE /\ open = (u # Idle) /\ one = 1
    OBVIOUS
<1>2. s = Fields(mask, l.time, l.payload_length, l.message_type, l.stream_id, l.extended,
                 count, open, u.offset, body)
    BY <1>1 DEF StreamOf, Fields
<1> HIDE DEF count, body, mask
<1>3. /\ s.timestamp = mask /\ s.timestamp_delta = l.time
      /\ s.payload_length = l.payload_length /\ s.message_type = l.message_type
      /\ s.stream_id = l.stream_id /\ s.extended_timestamp = l.extended
    BY ONLY <1>2 DEF Fields
<1>4. /\ l.timestamp \in Nat /\ c.msg.timestamp \in Nat /\ l.extended \in BOOLEAN
      /\ mask \in Nat /\ mask % TimestampModulus = mask
    BY MaskTwice DEF Coherent, Proper, mask
<1>5. u # Idle => /\ c.fmt = 3 /\ n = l /\ c.msg = u.msg /\ HeaderOf(l, c.msg)
    BY DEF Continues, Coherent
<1>6. u = Idle => /\ c.fmt = 0 \/ c.fmt = 1 \/ c.fmt = 2 \/ c.fmt = 3
                  /\ n.time = c.time /\ n.extended = (c.time >= RTMP_EXTENDED_TIMESTAMP)
                  /\ n.extended => c.fmt = 0
    <2> SUFFICES ASSUME u = Idle
                 PROVE  /\ c.fmt = 0 \/ c.fmt = 1 \/ c.fmt = 2 \/ c.fmt = 3
                        /\ n.time = c.time
                        /\ n.extended = (c.time >= RTMP_EXTENDED_TIMESTAMP)
                        /\ n.extended => c.fmt = 0
        OBVIOUS
    <2>1. c.fmt \in 0..3
        BY DEF Starts
    <2> QED
        BY <2>1 DEF Starts
<1>7. n.extended = IF c.fmt <= 2 THEN c.time >= RTMP_EXTENDED_TIMESTAMP
                   ELSE s.extended_timestamp
    <2>1. CASE u # Idle
        BY <1>3, <1>5, <2>1
    <2>2. CASE u = Idle /\ c.fmt = 3
        <3>1. ~l.extended /\ ~n.extended
            BY <1>6, <2>2 DEF Starts
        <3> QED
            BY <1>3, <1>4, <2>2, <3>1
    <2>3. CASE u = Idle /\ c.fmt # 3
        BY <1>6, <2>3
    <2> QED
        BY <2>1, <2>2, <2>3
<1>8. n.extended \in BOOLEAN
    OBVIOUS
<1> DEFINE th == HeaderTimestamp(s, c, first, n.extended)
<1>9. th % TimestampModulus = r
    <2>1. CASE n.extended
        <3>1. th = mask
            BY <1>3, <2>1 DEF HeaderTimestamp
        <3>2. r = mask
            BY <2>1 DEF mask
        <3> HIDE DEF th, r
        <3> QED
            BY <1>4, <3>1, <3>2
    <2>2. CASE ~n.extended /\ u # Idle
        <3>1. th = mask
            BY <1>3, <1>5, <1>8, <2>2 DEF HeaderTimestamp
        <3>2. r = mask
            BY <1>5, <2>2 DEF mask, HeaderOf
        <3> HIDE DEF th, r
        <3> QED
            BY <1>4, <3>1, <3>2
    <2>3. CASE ~n.extended /\ u = Idle /\ c.fmt = 0
        <3>1. th = c.time
            BY <1>8, <2>3 DEF HeaderTimestamp
        <3>2. ~c.extended /\ n.extended = c.extended
            BY <2>3 DEF Starts
        <3>3. c.msg.timestamp = c.time /\ r = c.msg.timestamp % TimestampModulus
            BY <2>3, <3>2 DEF Starts
        <3> HIDE DEF th, r
        <3> QED
            BY <3>1, <3>3
    <2>4. CASE ~n.extended /\ u = Idle /\ c.fmt # 0
        <3>1. c.fmt = 3 => l.time = c.time
            BY <2>4 DEF Starts
        <3>2. th = mask + c.time
            BY <1>3, <1>6, <1>8, <2>4, <3>1 DEF HeaderTimestamp
        <3>3. c.msg.timestamp = l.timestamp + c.time /\ c.time \in Nat
            BY <1>6, <2>4 DEF Starts
        <3>4. r = c.msg.timestamp % TimestampModulus
            BY <2>4
        <3>5. (mask + c.time) % TimestampModulus = (l.timestamp + c.time) % TimestampModulus
            BY <1>4, <3>3, MaskedSum DEF mask
        <3> HIDE DEF th, r
        <3> QED
            BY <3>2, <3>3, <3>4, <3>5
    <2> QED
        BY <2>1, <2>2, <2>3, <2>4
<1>10. n.time = IF c.fmt <= 2 THEN c.time ELSE s.timestamp_delta
    <2>1. CASE u # Idle
        BY <1>3, <1>5, <2>1
    <2>2. CASE u = Idle
        <3>1. c.fmt = 3 => l.time = c.time
            BY <2>2 DEF Starts
        <3> QED
            BY <1>3, <1>6, <2>2, <3>1
    <2> QED
        BY <2>1, <2>2
<1>11. /\ c.msg.payload_length = IF c.fmt <= 1 THEN c.msg.payload_length ELSE s.payload_length
       /\ c.msg.message_type = IF c.fmt <= 1 THEN c.msg.message_type ELSE s.message_type
       /\ c.msg.stream_id = IF c.fmt = 0 THEN c.msg.stream_id ELSE s.stream_id
    <2>1. CASE u # Idle
        BY <1>3, <1>5, <2>1 DEF HeaderOf
    <2>2. CASE u = Idle
        BY <1>3, <1>6, <2>2 DEF Starts
    <2> QED
        BY <2>1, <2>2
<1> HIDE DEF r
<1>12. r = HeaderTimestamp(s, c, first, n.extended) % TimestampModulus
    BY <1>9
<1> HIDE DEF th
<1>13. WithHeader(s, c, first)
          = Fields(r, n.time, c.msg.payload_length, c.msg.message_type, c.msg.stream_id,
                   n.extended, one, yes, u.offset, body)
    <2>1. one = 1 /\ yes = TRUE
        BY <1>1
    <2>2. Expands(s, c, first, r, n.time, c.msg.payload_length, c.msg.message_type,
                  c.msg.stream_id, n.extended, one, yes)
        BY ONLY <1>7, <1>10, <1>11, <1>12, <2>1 DEF Expands
    <2> QED
        BY ONLY <1>2, <2>2, HeaderFields
<1>14. Fields(r, n.time, c.msg.payload_length, c.msg.message_type, c.msg.stream_id,
              n.extended, one, yes, u.offset, body) = HeaderRead(u, c, n, r)
    BY <1>1 DEF Fields, HeaderRead, body
<1> QED
    BY <1>13, <1>14 DEF r

\* What the peer had in mind of the chunk stream being read.
LEMMA BeingRead ==
    ASSUME IInv, wire # << >>, NEW u, NEW l, NEW n,
           u = PeerAt(1).under_way[cid], l = PeerAt(1).last[cid], n = PeerAt(2).last[cid]
    PROVE  /\ Coherent(cid, u, l) /\ Proper(chunk.msg) /\ HeaderOf(n, chunk.msg)
           /\ chunk.from = u.offset
           /\ l.time \in Nat /\ n.time \in Nat /\ n.extended \in BOOLEAN
           /\ u = Idle => Starts(l, chunk, n)
           /\ u # Idle => Continues(u, l, chunk, n)
<1>1. /\ cid = chunk.msg.cid /\ Follows(PeerAt(1), chunk, PeerAt(2))
      /\ Coherent(cid, u, l) /\ Coherent(cid, PeerAt(2).under_way[cid], n)
    BY HeadFacts
<1>2. l.time \in Nat /\ n.time \in Nat /\ n.extended \in BOOLEAN
    BY <1>1 DEF Coherent
<1> QED
    BY <1>1, <1>2 DEF Follows

\* The header of what the peer writes is never taken for a wrong one.
LEMMA ReadMessageHeaderKeeps ==
    ASSUME IInv, ReadMessageHeader, UNCHANGED peerVars
    PROVE  IInv'
<1>1. pc = "message_header" /\ wire # << >>
    BY DEF ReadMessageHeader, IInv, ReaderBehind
<1>2. PICK u, l, n : /\ u = PeerAt(1).under_way[cid] /\ l = PeerAt(1).last[cid]
                     /\ n = PeerAt(2).last[cid]
    OBVIOUS
<1>3. /\ Coherent(cid, u, l) /\ Proper(chunk.msg) /\ HeaderOf(n, chunk.msg)
      /\ chunk.from = u.offset
      /\ l.time \in Nat /\ n.time \in Nat /\ n.extended \in BOOLEAN
      /\ u = Idle => Starts(l, chunk, n)
      /\ u # Idle => Continues(u, l, chunk, n)
    BY <1>1, <1>2, BeingRead
<1>4. /\ cid = chunk.msg.cid /\ cid \in ChunkStreamIds /\ stream = streams[cid]
      /\ is_first_chunk_of_msg = (u = Idle)
      /\ stream = StreamOf(u, l)
    BY <1>1, <1>2, HeadFacts DEF IInv, ReaderBehind, Between
<1>5. ~StartsWrong
    <2>1. /\ stream.msg_count = IF l.used THEN 1 ELSE 0
          /\ stream.open = (u # Idle)
        BY <1>4 DEF StreamOf
    <2>2. CASE u = Idle
        <3>1. ~stream.open
            BY <2>1, <2>2
        <3>2. chunk.fmt # 0 => l.used \/ (cid = RTMP_CID_ProtocolControl /\ chunk.fmt = 1)
            BY <1>3, <1>4, <2>2 DEF Starts
        <3>3. l.used => stream.msg_count = 1
            BY <2>1
        <3> QED
            BY <3>1, <3>2, <3>3 DEF StartsWrong
    <2>3. CASE u # Idle
        <3>1. chunk.fmt = 3 /\ l.used
            BY <1>3, <2>3 DEF Continues, Coherent, HeaderOf
        <3>2. stream.msg_count = 1
            BY <2>1, <3>1
        <3> QED
            BY <3>1, <3>2 DEF StartsWrong
    <2> QED
        BY <2>2, <2>3
<1>6. ~LengthChanges
    <2>1. CASE u = Idle
        <3>1. is_first_chunk_of_msg
            BY <1>4, <2>1
        <3> QED
            BY <3>1 DEF LengthChanges
    <2>2. CASE u # Idle
        BY <1>3, <2>2 DEF LengthChanges, Continues
    <2> QED
        BY <2>1, <2>2
<1>7. /\ streams' = [streams EXCEPT ![cid] = WithHeader(@, chunk, is_first_chunk_of_msg)]
      /\ pc' = IF streams'[cid].extended_timestamp THEN "extended_timestamp" ELSE "payload"
      /\ UNCHANGED <<wire, in_chunk_size, is_first_chunk_of_msg, fault, delivered>>
    BY <1>5, <1>6 DEF ReadMessageHeader
<1> DEFINE t == IF n.extended THEN l.timestamp % TimestampModulus
                ELSE chunk.msg.timestamp % TimestampModulus
<1>8. WithHeader(stream, chunk, is_first_chunk_of_msg) = HeaderRead(u, chunk, n, t)
    BY <1>3, <1>4, HeaderExpanded
<1> HIDE DEF t
<1>9. streams = [d \in ChunkStreamIds |-> streams[d]]
    BY DEF IInv, TypeInv
<1>10. /\ streams'[cid] = HeaderRead(u, chunk, n, t)
       /\ \A d \in ChunkStreamIds : d # cid => streams'[d] = streams[d]
       /\ streams' = [d \in ChunkStreamIds |-> streams'[d]]
    BY <1>4, <1>7, <1>8, <1>9
<1>11. pc' = IF n.extended THEN "extended_timestamp" ELSE "payload"
    BY <1>7, <1>10 DEF HeaderRead
<1>12. TypeInv'
    <2>1. started' = started
        BY DEF peerVars
    <2> QED
        BY <1>7, <1>10, <1>11, <2>1 DEF IInv, TypeInv
<1>13. /\ \A k \in Int : PeerAt(k)' = PeerAt(k)
       /\ Views' /\ Chained' /\ chunk' = chunk /\ cid' = cid
    BY <1>7, PeerStays
<1>14. PeerAt(1)' = PeerAt(1) /\ PeerAt(2)' = PeerAt(2)
    BY <1>13
<1>15. TimeSoFar' = t
    BY <1>2, <1>11, <1>13, <1>14 DEF TimeSoFar, t
<1>16. ReaderBehind'
    <2>1. Between' /\ pc' # "basic_header"
        BY <1>11 DEF Between
    <2>2. \A d \in ChunkStreamIds : d # cid =>
              streams'[d] = StreamOf(PeerAt(1).under_way[d], PeerAt(1).last[d])
        BY <1>1, <1>10 DEF IInv, ReaderBehind, Between
    <2>3. streams'[cid] = HeaderRead(PeerAt(1).under_way[cid], chunk, PeerAt(2).last[cid],
                                     TimeSoFar')
        BY <1>2, <1>10, <1>15
    <2>4. pc' = "extended_timestamp" => PeerAt(2).last[cid].extended
        BY <1>2, <1>11
    <2>5. in_chunk_size' = PeerAt(1).size /\ wire' # << >>
        BY <1>1, <1>7 DEF IInv, ReaderBehind
    <2>6. is_first_chunk_of_msg' = (PeerAt(1).under_way[cid] = Idle)
        BY <1>2, <1>4, <1>7
    <2> QED
        BY <1>13, <1>14, <2>1, <2>2, <2>3, <2>4, <2>5, <2>6 DEF ReaderBehind
<1>17. HeadersAreTheirOwn' /\ OnlyLookalikesMisread'
    <2>1. HeadersAreTheirOwn'
        BY <1>7 DEF IInv, HeadersAreTheirOwn
    <2>2. fault = NoFault
        BY DEF ReadMessageHeader
    <2> QED
        BY <1>7, <2>1, <2>2 DEF OnlyLookalikesMisread, Misled
<1> QED
    BY <1>12, <1>13, <1>16, <1>17 DEF IInv

\* An extended timestamp that the peer left out is found to be left out, and one that it
\* did not is not.
LEMMA ReadExtendedTimestampKeeps ==
    ASSUME IInv, ReadExtendedTimestamp, UNCHANGED peerVars
    PROVE  IInv'
<1>1. pc = "extended_timestamp" /\ wire # << >> /\ pc # "basic_header"
    BY DEF ReadExtendedTimestamp, IInv, ReaderBehind
<1>2. PICK u, l, n : /\ u = PeerAt(1).under_way[cid] /\ l = PeerAt(1).last[cid]
                     /\ n = PeerAt(2).last[cid]
    OBVIOUS
<1>3. /\ Coherent(cid, u, l) /\ Proper(chunk.msg) /\ HeaderOf(n, chunk.msg)
      /\ u = Idle => Starts(l, chunk, n)
      /\ u # Idle => Continues(u, l, chunk, n)
      /\ chunk.from = u.offset
    BY <1>1, <1>2, BeingRead
<1> DEFINE mask == l.timestamp % TimestampModulus
           t == chunk.msg.timestamp % TimestampModulus
<1>4. /\ cid = chunk.msg.cid /\ cid \in ChunkStreamIds /\ stream = streams[cid]
      /\ is_first_chunk_of_msg = (u = Idle)
      /\ stream = HeaderRead(u, chunk, n, mask)
      /\ n.extended
    BY <1>1, <1>2, HeadFacts DEF IInv, ReaderBehind, Between, TimeSoFar
<1>5. stream.timestamp = mask /\ mask \in Nat /\ t \in Nat
    <2>1. l.timestamp \in Nat /\ chunk.msg.timestamp \in Nat
        BY <1>3 DEF Coherent, Proper
    <2> QED
        BY <1>4, <2>1, MaskTwice DEF HeaderRead
<1> HIDE DEF mask, t
<1>6. u = Idle => chunk.extended /\ ~LeftOut /\ chunk.word % TimestampModulus = t
    <2> SUFFICES ASSUME u = Idle
                 PROVE  chunk.extended /\ ~LeftOut /\ chunk.word % TimestampModulus = t
        OBVIOUS
    <2>1. ~LeftOut
        BY <1>4 DEF LeftOut
    <2>2. chunk.extended /\ chunk.word = chunk.msg.timestamp
        BY <1>3, <1>4 DEF Starts
    <2> QED
        BY <2>1, <2>2 DEF t
<1>14. u # Idle => mask = t /\ (chunk.extended => ~LeftOut /\ chunk.word % TimestampModulus = t)
    <2> SUFFICES ASSUME u # Idle
                 PROVE  mask = t /\ (chunk.extended => ~LeftOut /\ chunk.word % TimestampModulus = t)
        OBVIOUS
    <2>1. l.timestamp = chunk.msg.timestamp
        BY <1>3 DEF Continues, HeaderOf
    <2>2. mask = t
        BY <2>1 DEF mask, t
    <2>3. chunk.extended => chunk.word % TimestampModulus = t
        BY <1>3, <2>1 DEF Continues, t
    <2>4. chunk.extended => ~LeftOut
        BY <1>5, <2>2, <2>3 DEF LeftOut
    <2> QED
        BY <2>2, <2>3, <2>4
<1>15. chunk.extended \in BOOLEAN /\ LeftOut \in BOOLEAN
    <2>1. CASE u = Idle
        BY <1>3, <2>1 DEF Starts, LeftOut
    <2>2. CASE u # Idle
        BY <1>3, <2>2 DEF Continues, LeftOut
    <2> QED
        BY <2>1, <2>2
\* Payload that looks like the time: the reader stops there, and everything stays.
<1>16. CASE chunk.extended = LeftOut
    <2>1. u # Idle /\ ~chunk.extended /\ ~LeftOut /\ mask = t
        BY <1>6, <1>14, <1>15, <1>16
    <2>2. chunk.from > 0
        BY <1>3, <2>1 DEF Coherent
    <2>3. chunk.msg.timestamp >= RTMP_EXTENDED_TIMESTAMP
        BY <1>3, <1>4, <2>1 DEF Continues, Coherent, HeaderOf
    <2>4. t = 0 \/ t = chunk.word % TimestampModulus
        <3>1. ~is_first_chunk_of_msg
            BY <1>4, <2>1
        <3>2. ~(t > 0 /\ t # chunk.word % TimestampModulus)
            BY <1>5, <2>1, <3>1 DEF LeftOut
        <3> QED
            BY <1>5, <3>2
    <2>5. LooksExtended(chunk)
        BY <2>1, <2>2, <2>3, <2>4 DEF LooksExtended, t
    <2>6. /\ fault' = "desync"
          /\ UNCHANGED <<wire, streams, in_chunk_size, pc, is_first_chunk_of_msg, delivered>>
        BY <1>16 DEF ReadExtendedTimestamp, Fail
    <2>7. /\ \A k \in Int : PeerAt(k)' = PeerAt(k)
          /\ Views' /\ Chained' /\ chunk' = chunk /\ cid' = cid
        BY <2>6, PeerStays
    <2>8. PeerAt(1)' = PeerAt(1) /\ PeerAt(2)' = PeerAt(2)
        BY <2>7
    <2>9. TypeInv' /\ HeadersAreTheirOwn'
        BY <2>6 DEF IInv, TypeInv, HeadersAreTheirOwn, peerVars
    <2>10. ReaderBehind'
        BY <2>6, <2>7, <2>8 DEF IInv, ReaderBehind, Between, TimeSoFar
    <2>11. OnlyLookalikesMisread'
        BY <1>1, <2>5, <2>6, <2>7 DEF OnlyLookalikesMisread, Misled, LooksExtended
    <2> QED
        BY <2>7, <2>9, <2>10, <2>11 DEF IInv
<1>17. SUFFICES ASSUME chunk.extended # LeftOut PROVE IInv'
    BY <1>16
<1>18. IF LeftOut THEN ~chunk.extended /\ mask = t
      ELSE chunk.extended /\ chunk.word % TimestampModulus = t
    BY <1>6, <1>14, <1>15, <1>17
<1>7. /\ streams' = [streams EXCEPT ![cid].timestamp =
                         IF LeftOut THEN @ ELSE chunk.word % TimestampModulus]
      /\ pc' = "payload"
      /\ UNCHANGED <<wire, in_chunk_size, is_first_chunk_of_msg, fault, delivered>>
    BY <1>17 DEF ReadExtendedTimestamp
<1>8. streams = [d \in ChunkStreamIds |-> streams[d]]
    BY DEF IInv, TypeInv
<1>9. /\ streams'[cid] = HeaderRead(u, chunk, n, t)
      /\ \A d \in ChunkStreamIds : d # cid => streams'[d] = streams[d]
      /\ streams' = [d \in ChunkStreamIds |-> streams'[d]]
    <2>1. streams' = [streams EXCEPT ![cid].timestamp = t]
        BY <1>4, <1>5, <1>7, <1>18
    <2>2. [stream EXCEPT !.timestamp = t] = HeaderRead(u, chunk, n, t)
        <3> DEFINE body == IF u = Idle THEN Nobody ELSE u.msg
                   time == n.time
                   length == chunk.msg.payload_length
                   type == chunk.msg.message_type
                   sid == chunk.msg.stream_id
                   more == n.extended
                   from == chunk.from
        <3>1. PICK yes, one : yes = TRUE /\ one = 1
            OBVIOUS
        <3>2. \A h : HeaderRead(u, chunk, n, h)
                       = Fields(h, time, length, type, sid, more, one, yes, from, body)
            BY ONLY <3>1 DEF HeaderRead, Fields
        <3> HIDE DEF body, time, length, type, sid, more, from
        <3>3. stream = Fields(mask, time, length, type, sid, more, one, yes, from, body)
            BY ONLY <1>4, <3>2
        <3>4. [stream EXCEPT !.timestamp = t]
                 = Fields(t, time, length, type, sid, more, one, yes, from, body)
            BY ONLY <3>3 DEF Fields
        <3> QED
            BY ONLY <3>2, <3>4
    <2> QED
        BY <1>4, <1>8, <2>1, <2>2
<1>10. TypeInv'
    <2>1. started' = started
        BY DEF peerVars
    <2> QED
        BY <1>7, <1>9, <2>1 DEF IInv, TypeInv
<1>11. /\ \A k \in Int : PeerAt(k)' = PeerAt(k)
       /\ Views' /\ Chained' /\ chunk' = chunk /\ cid' = cid
    BY <1>7, PeerStays
<1>12. ReaderBehind'
    <2>1. Between' /\ PeerAt(1)' = PeerAt(1) /\ PeerAt(2)' = PeerAt(2)
        BY <1>7, <1>11 DEF Between
    <2>2. \A d \in ChunkStreamIds : d # cid =>
              streams'[d] = StreamOf(PeerAt(1).under_way[d], PeerAt(1).last[d])
        BY <1>9 DEF IInv, ReaderBehind
    <2>3. streams'[cid] = HeaderRead(PeerAt(1).under_way[cid], chunk, PeerAt(2).last[cid],
                                     TimeSoFar')
        BY <1>2, <1>7, <1>9, <1>11 DEF TimeSoFar, t
    <2>4. in_chunk_size' = PeerAt(1).size /\ wire' # << >>
        BY <1>1, <1>7 DEF IInv, ReaderBehind
    <2>5. is_first_chunk_of_msg' = (PeerAt(1).under_way[cid] = Idle)
        BY <1>2, <1>4, <1>7
    <2> QED
        BY <1>7, <1>11, <2>1, <2>2, <2>3, <2>4, <2>5 DEF ReaderBehind
<1>13. HeadersAreTheirOwn' /\ OnlyLookalikesMisread'
    <2>1. HeadersAreTheirOwn'
        BY <1>7 DEF IInv, HeadersAreTheirOwn
    <2>2. fault = NoFault
        BY DEF ReadExtendedTimestamp
    <2> QED
        BY <1>7, <2>1, <2>2 DEF OnlyLookalikesMisread, Misled
<1> QED
    BY <1>10, <1>11, <1>12, <1>13 DEF IInv

\* The next chunk begins where the peer was behind this one.
LEMMA WireShifts ==
    ASSUME IInv, wire # << >>, wire' = Tail(wire), UNCHANGED peerVars
    PROVE  /\ ASeq(wire') /\ PeerAt(1)' = PeerAt(2)
           /\ Views' /\ Chained'
<1>1. PICK n \in Nat : n = Len(wire)
    BY DEF IInv, TypeInv, ASeq
<1>2. /\ ASeq(wire') /\ n >= 1 /\ Len(wire') = n - 1
      /\ \A k \in 1..(n - 1) : wire'[k] = wire[k + 1]
    BY <1>1, TailASeq DEF IInv, TypeInv
<1>3. Now' = Now
    BY DEF Now, peerVars
<1>4. \A k \in 1..n : PeerAt(k)' = PeerAt(k + 1)
    <2> SUFFICES ASSUME NEW k \in 1..n PROVE PeerAt(k)' = PeerAt(k + 1)
        OBVIOUS
    <2>1. CASE k \in 1..(n - 1)
        BY <1>1, <1>2, <2>1 DEF PeerAt
    <2>2. CASE k = n
        BY <1>1, <1>2, <1>3, <2>2 DEF PeerAt
    <2> QED
        BY <1>1, <2>1, <2>2
<1>5. PeerAt(1)' = PeerAt(2)
    BY <1>1, <1>2, <1>4
<1>6. Views'
    <2> SUFFICES ASSUME NEW k \in 1..n PROVE ViewOK(PeerAt(k)')
        BY <1>1, <1>2 DEF Views
    <2>1. ViewOK(PeerAt(k + 1))
        BY <1>1 DEF IInv, Views
    <2> QED
        BY <1>4, <2>1
<1>7. Chained'
    <2> SUFFICES ASSUME NEW k \in 1..(n - 1)
                 PROVE  Follows(PeerAt(k)', wire'[k], PeerAt(k + 1)')
        BY <1>1, <1>2 DEF Chained
    <2>1. k + 1 \in 1..n /\ k \in 1..n
        BY <1>1
    <2>2. Follows(PeerAt(k + 1), wire[k + 1], PeerAt(k + 1 + 1))
        BY <1>1, <2>1 DEF IInv, Chained
    <2> QED
        BY <1>2, <1>4, <2>1, <2>2
<1> QED
    BY <1>2, <1>5, <1>6, <1>7

\* A piece of the payload is where it belongs, and a message that is complete is the one
\* its header speaks of.
LEMMA ReadMessagePayloadKeeps ==
    ASSUME IInv, ReadMessagePayload, UNCHANGED peerVars
    PROVE  /\ IInv' /\ wire' = Tail(wire)
           /\ IF Completes(chunk)
              THEN \E message : /\ message.body = chunk.msg
                               /\ delivered' = Append(delivered, message)
              ELSE delivered' = delivered
<1>1. pc = "payload" /\ wire # << >>
    BY DEF ReadMessagePayload, IInv, ReaderBehind
<1>2. PICK u, l, n : /\ u = PeerAt(1).under_way[cid] /\ l = PeerAt(1).last[cid]
                     /\ n = PeerAt(2).last[cid]
    OBVIOUS
<1>3. /\ Coherent(cid, u, l) /\ Proper(chunk.msg) /\ HeaderOf(n, chunk.msg)
      /\ chunk.from = u.offset
      /\ n.extended \in BOOLEAN
      /\ u = Idle => Starts(l, chunk, n)
      /\ u # Idle => Continues(u, l, chunk, n)
    BY <1>1, <1>2, BeingRead
<1> DEFINE m == chunk.msg
           t == m.timestamp % TimestampModulus
           w == PeerAt(2).under_way[cid]
<1>4. /\ cid = m.cid /\ cid \in ChunkStreamIds /\ stream = streams[cid]
      /\ Follows(PeerAt(1), chunk, PeerAt(2))
      /\ stream = HeaderRead(u, chunk, n, t)
      /\ in_chunk_size = PeerAt(1).size /\ in_chunk_size \in Nat \ {0}
      /\ chunk.from \in Nat /\ chunk.from <= m.payload_length
    BY <1>1, <1>2, HeadFacts DEF IInv, ReaderBehind, Between, TimeSoFar, ViewOK
<1>5. /\ m.id \in Nat \ {0} /\ m.payload_length \in Nat
      /\ m.message_type = RTMP_MSG_SetChunkSize => m.payload_length > 0
    BY <1>3 DEF Proper
<1>6. /\ stream.payload_length = m.payload_length /\ stream.size = chunk.from
      /\ stream.extended_timestamp = n.extended
      /\ stream.body = IF u = Idle THEN Nobody ELSE u.msg
    BY <1>4 DEF HeaderRead
<1>7. /\ PayloadSize = chunk.size
      /\ chunk.size \in Nat /\ chunk.from + chunk.size <= m.payload_length
    <2>1. chunk.size = Min2(m.payload_length - chunk.from, in_chunk_size)
        BY <1>4 DEF Follows
    <2>2. m.payload_length - chunk.from \in Nat
        BY <1>4, <1>5
    <2>3. chunk.size \in Nat /\ chunk.size <= m.payload_length - chunk.from
        BY <1>4, <2>1, <2>2, PieceSize
    <2> QED
        BY <1>4, <1>5, <1>6, <2>1, <2>2, <2>3 DEF PayloadSize
<1>8. chunk.extended => stream.extended_timestamp
    <2>1. CASE u = Idle
        BY <1>3, <1>6, <2>1 DEF Starts
    <2>2. CASE u # Idle
        BY <1>3, <1>6, <2>2 DEF Continues
    <2> QED
        BY <2>1, <2>2
<1>9. Body(stream, chunk) = m
    <2>1. CASE u = Idle
        BY <1>3, <1>6, <2>1 DEF Body, Idle
    <2>2. CASE u # Idle
        <3>1. u.msg = m /\ u.offset \in Nat \ {0}
            BY <1>3, <2>2 DEF Continues, Coherent
        <3> QED
            BY <1>3, <1>6, <2>2, <3>1 DEF Body
    <2> QED
        BY <2>1, <2>2
<1> DEFINE s == [stream EXCEPT !.size = @ + PayloadSize, !.body = Body(stream, chunk)]
           complete == s.size = s.payload_length
           message == [cid |-> cid, timestamp |-> s.timestamp,
                       payload_length |-> s.payload_length,
                       message_type |-> s.message_type,
                       stream_id |-> s.stream_id, body |-> s.body]
<1>10. /\ streams' = [streams EXCEPT ![cid] = IF complete THEN Closed(s) ELSE s]
       /\ IF complete THEN Return(message) ELSE UNCHANGED <<in_chunk_size, delivered>>
       /\ wire' = Tail(wire)
       /\ pc' = "basic_header"
       /\ UNCHANGED <<is_first_chunk_of_msg, fault>>
    BY <1>7, <1>8 DEF ReadMessagePayload
<1> DEFINE end == chunk.from + chunk.size
           time == n.time
           more == n.extended
           length == m.payload_length
           type == m.message_type
           sid == m.stream_id
<1>11. PICK yes, no, one : yes = TRUE /\ no = FALSE /\ one = 1
    OBVIOUS
<1>12. s = Fields(t, time, length, type, sid, more, one, yes, end, m)
    <2> DEFINE body == IF u = Idle THEN Nobody ELSE u.msg
               from == chunk.from
               s1 == [stream EXCEPT !.size = end]
    <2>1. stream = Fields(t, time, length, type, sid, more, one, yes, from, body)
        BY ONLY <1>4, <1>11 DEF HeaderRead, Fields
    <2>2. s = [s1 EXCEPT !.body = m]
        BY <1>6, <1>7, <1>9
    <2> HIDE DEF body, from, t, time, length, type, sid, more, end, m, s
    <2>3. s1 = Fields(t, time, length, type, sid, more, one, yes, end, body)
        BY ONLY <2>1 DEF Fields
    <2> HIDE DEF s1
    <2>4. [s1 EXCEPT !.body = m] = Fields(t, time, length, type, sid, more, one, yes, end, m)
        BY ONLY <2>3 DEF Fields
    <2> QED
        BY ONLY <2>2, <2>4
<1> HIDE DEF s
<1>13. /\ s.size = end /\ s.payload_length = length /\ s.timestamp = t
       /\ s.message_type = type /\ s.stream_id = sid /\ s.body = m
    BY ONLY <1>12 DEF Fields
<1>14. complete <=> Ended(chunk)
    BY <1>13 DEF Ended
<1>15. (IF complete THEN Closed(s) ELSE s) = StreamOf(w, n)
    <2>1. /\ n.used /\ n.timestamp % TimestampModulus = t /\ n.payload_length = length
          /\ n.message_type = type /\ n.stream_id = sid
        BY <1>3 DEF HeaderOf
    <2>2. CASE complete
        <3>1. w = Idle
            BY <1>4, <1>14, <2>2 DEF Follows
        <3>2. StreamOf(w, n) = Fields(t, time, length, type, sid, more, one, no, 0, Nobody)
            <4>1. /\ (w # Idle) = no /\ (IF w = Idle THEN Nobody ELSE w.msg) = Nobody
                  /\ (IF n.used THEN 1 ELSE 0) = one
                BY ONLY <1>11, <2>1, <3>1
            <4>2. w.offset = 0
                BY ONLY <3>1 DEF Idle
            <4> HIDE DEF m, t, length, type, sid, w
            <4> QED
                BY ONLY <2>1, <4>1, <4>2 DEF StreamOf, Fields
        <3> HIDE DEF t, time, length, type, sid, more, end, m, complete
        <3> DEFINE s1 == [s EXCEPT !.open = no]
                   s2 == [s1 EXCEPT !.size = 0]
                   s3 == [s2 EXCEPT !.body = Nobody]
        <3>3. Closed(s) = s3
            BY <1>11 DEF Closed
        <3>4. s1 = Fields(t, time, length, type, sid, more, one, no, end, m)
            BY ONLY <1>12 DEF Fields
        <3> HIDE DEF s1
        <3>5. s2 = Fields(t, time, length, type, sid, more, one, no, 0, m)
            BY ONLY <3>4 DEF Fields
        <3> HIDE DEF s2
        <3>6. s3 = Fields(t, time, length, type, sid, more, one, no, 0, Nobody)
            BY ONLY <3>5 DEF Fields
        <3> HIDE DEF s3
        <3> QED
            BY <2>2, <3>2, <3>3, <3>6
    <2>3. CASE ~complete
        <3>1. w # Idle /\ w.msg = m /\ w.offset = end
            BY <1>4, <1>14, <2>3 DEF Follows
        <3>2. StreamOf(w, n) = Fields(t, time, length, type, sid, more, one, yes, end, m)
            <4>1. /\ (w # Idle) = yes /\ (IF w = Idle THEN Nobody ELSE w.msg) = m
                  /\ (IF n.used THEN 1 ELSE 0) = one
                BY ONLY <1>11, <2>1, <3>1
            <4> HIDE DEF m, t, length, type, sid, end, w
            <4> QED
                BY ONLY <2>1, <3>1, <4>1 DEF StreamOf, Fields
        <3> QED
            BY <1>12, <2>3, <3>2
    <2> QED
        BY <2>2, <2>3
<1>16. /\ message.cid = cid /\ message.timestamp = t /\ message.payload_length = length
       /\ message.message_type = type /\ message.stream_id = sid /\ message.body = m
    BY <1>13
<1> HIDE DEF message
<1>17. Faithful(message)
    BY <1>4, <1>5, <1>16 DEF Faithful
<1>18. in_chunk_size' = PeerAt(2).size
    <2>1. PeerAt(2).size = IF Ended(chunk) /\ type = RTMP_MSG_SetChunkSize THEN m.value
                           ELSE in_chunk_size
        BY <1>4 DEF Follows
    <2>2. CASE complete /\ length = 0
        <3>1. in_chunk_size' = in_chunk_size
            BY <1>10, <1>16, <2>2 DEF Return
        <3> QED
            BY <1>5, <2>1, <2>2, <3>1
    <2>3. CASE complete /\ length # 0
        <3>1. in_chunk_size' = ChunkSizeAfter(message)
            BY <1>10, <1>16, <2>3 DEF Return
        <3> QED
            BY <1>5, <1>14, <1>16, <2>1, <2>3, <3>1 DEF ChunkSizeAfter
    <2>4. CASE ~complete
        BY <1>10, <1>14, <2>1, <2>4
    <2> QED
        BY <2>2, <2>3, <2>4
<1>19. delivered' = delivered \/ delivered' = Append(delivered, message)
    BY <1>10 DEF Return
<1>20. ASeq(delivered') /\ HeadersAreTheirOwn'
    <2>1. ASeq(delivered) /\ \A k \in 1..Len(delivered) : Faithful(delivered[k])
        BY DEF IInv, TypeInv, HeadersAreTheirOwn
    <2>2. CASE delivered' = delivered
        BY <2>1, <2>2 DEF HeadersAreTheirOwn
    <2>3. CASE delivered' = Append(delivered, message)
        <3>1. /\ ASeq(delivered') /\ Len(delivered') = Len(delivered) + 1
              /\ \A k \in 1..Len(delivered) : delivered'[k] = delivered[k]
              /\ delivered'[Len(delivered) + 1] = message
            BY <2>1, <2>3, AppendASeq
        <3>2. Len(delivered) \in Nat
            BY <2>1 DEF ASeq
        <3>3. \A k \in 1..Len(delivered') : Faithful(delivered'[k])
            BY <1>17, <2>1, <3>1, <3>2
        <3> QED
            BY <3>1, <3>3 DEF HeadersAreTheirOwn
    <2> QED
        BY <1>19, <2>2, <2>3
<1>21. /\ ASeq(wire') /\ PeerAt(1)' = PeerAt(2)
       /\ Views' /\ Chained'
    BY <1>1, <1>10, WireShifts
<1>22. /\ streams'[cid] = StreamOf(w, n)
       /\ \A d \in ChunkStreamIds : d # cid => streams'[d] = streams[d]
       /\ streams' = [d \in ChunkStreamIds |-> streams'[d]]
    <2>1. streams = [d \in ChunkStreamIds |-> streams[d]]
        BY DEF IInv, TypeInv
    <2>2. streams' = [streams EXCEPT ![cid] = StreamOf(w, n)]
        BY <1>10, <1>15
    <2> HIDE DEF w
    <2> QED
        BY <1>4, <2>1, <2>2
<1>23. TypeInv'
    <2>1. started' = started
        BY DEF peerVars
    <2> QED
        BY <1>10, <1>20, <1>21, <1>22, <2>1 DEF IInv, TypeInv
<1>24. ReaderBehind'
    <2>1. \A d \in ChunkStreamIds :
              streams'[d] = StreamOf(PeerAt(2).under_way[d], PeerAt(2).last[d])
        <3> SUFFICES ASSUME NEW d \in ChunkStreamIds
                     PROVE  streams'[d] = StreamOf(PeerAt(2).under_way[d], PeerAt(2).last[d])
            OBVIOUS
        <3>1. CASE d = cid
            BY <1>2, <1>22, <3>1
        <3>2. CASE d # cid
            <4>1. streams[d] = StreamOf(PeerAt(1).under_way[d], PeerAt(1).last[d])
                BY <3>2 DEF IInv, ReaderBehind
            <4>2. /\ PeerAt(2).under_way[d] = PeerAt(1).under_way[d]
                  /\ PeerAt(2).last[d] = PeerAt(1).last[d]
                BY <1>4, <3>2 DEF Follows
            <4> QED
                BY <1>22, <3>2, <4>1, <4>2
        <3> QED
            BY <3>1, <3>2
    <2>2. pc' = "basic_header"
        BY <1>10
    <2> QED
        BY <1>18, <1>21, <2>1, <2>2 DEF ReaderBehind, Between
<1>25. OnlyLookalikesMisread'
    <2>1. fault = NoFault
        BY DEF ReadMessagePayload
    <2> QED
        BY <1>10, <2>1 DEF OnlyLookalikesMisread, Misled
<1>26. /\ Completes(chunk) => delivered' = Append(delivered, message)
       /\ ~Completes(chunk) => delivered' = delivered
    BY <1>5, <1>10, <1>14, <1>16 DEF Return, Completes
<1> QED
    BY <1>10, <1>16, <1>20, <1>21, <1>23, <1>24, <1>25, <1>26 DEF IInv

------------------------------------------------------------------------------
\* The invariant is inductive.
LEMMA Inductive == ~ExtendedDeltas => (IInv /\ [Next]_vars => IInv')
<1> SUFFICES ASSUME ~ExtendedDeltas, IInv, [Next]_vars PROVE IInv'
    OBVIOUS
<1>1. ASSUME NEW m \in Messages, NEW fmt \in 0..3, Start(m, fmt)
      PROVE  IInv'
    BY <1>1, StartKeeps
<1>2. ASSUME NEW c \in ChunkStreamIds, Continue(c)
      PROVE  IInv'
    BY <1>2, ContinueKeeps
<1>3. CASE Receive
    <2>1. CASE ReadBasicHeader
        BY <1>3, <2>1, ReadBasicHeaderKeeps DEF Receive
    <2>2. CASE ReadMessageHeader
        BY <1>3, <2>2, ReadMessageHeaderKeeps DEF Receive
    <2>3. CASE ReadExtendedTimestamp
        BY <1>3, <2>3, ReadExtendedTimestampKeeps DEF Receive
    <2>4. CASE ReadMessagePayload
        BY <1>3, <2>4, ReadMessagePayloadKeeps DEF Receive
    <2> QED
        BY <1>3, <2>1, <2>2, <2>3, <2>4 DEF Receive, recv_message
<1>4. CASE UNCHANGED vars
    <2>1. UNCHANGED <<wire, peerVars>> /\ UNCHANGED <<streams, in_chunk_size, pc,
              is_first_chunk_of_msg, fault, delivered>>
        BY <1>4 DEF vars, readerVars
    <2>2. /\ \A k \in Int : PeerAt(k)' = PeerAt(k)
          /\ Views' /\ Chained' /\ chunk' = chunk /\ cid' = cid
        BY <2>1, PeerStays
    <2>3. PeerAt(1)' = PeerAt(1) /\ PeerAt(2)' = PeerAt(2)
        BY <2>2
    <2>4. TypeInv' /\ HeadersAreTheirOwn'
        BY <2>1 DEF IInv, TypeInv, HeadersAreTheirOwn, peerVars
    <2>5. ReaderBehind'
        BY <2>1, <2>2, <2>3 DEF IInv, ReaderBehind, Between, TimeSoFar
    <2>6. OnlyLookalikesMisread'
        BY <2>1, <2>2 DEF IInv, OnlyLookalikesMisread, Misled
    <2> QED
        BY <2>2, <2>4, <2>5, <2>6 DEF IInv
<1> QED
    BY <1>1, <1>2, <1>3, <1>4 DEF Next

\* What a peer that conforms wrote is never read wrong, for any messages, payload and number
\* of chunk streams: recv_message() returns no error, and takes no bytes for something they
\* are not, until payload behind a left-out extended timestamp looks like that timestamp.
THEOREM OnlyLookalikes == ASSUME ~ExtendedDeltas PROVE Spec => []OnlyLookalikesMisread
<1>1. IInv => OnlyLookalikesMisread
    BY DEF IInv
<1> QED
    BY <1>1, Initial, Inductive, PTL DEF Spec

\* What comes out has the length, type, stream and time that the peer meant, with
\* every header format.
THEOREM HeadersAreRight == ASSUME ~ExtendedDeltas PROVE Spec => []HeadersAreTheirOwn
<1>1. IInv => HeadersAreTheirOwn
    BY DEF IInv
<1> QED
    BY <1>1, Initial, Inductive, PTL DEF Spec

------------------------------------------------------------------------------
(***************************************************************************)
(* The order of the messages.  A chunk knows how many were finished before *)
(* it, and the reader has returned as many as were finished before the     *)
(* chunk at the head of the transport.                                     *)
(***************************************************************************)
PlaceAt(k) == IF k <= Len(wire) THEN wire[k].place ELSE Len(finished)

\* Chunk c takes the count of finished messages to n.
Counts(c, n) ==
    IF Completes(c) THEN n = c.place + 1 /\ finished[c.place + 1] = c.msg
    ELSE n = c.place

Places ==
    /\ ASeq(finished)
    /\ \A k \in 1..(Len(wire) + 1) : PlaceAt(k) \in 0..Len(finished)
    /\ \A k \in 1..Len(wire) : Counts(wire[k], PlaceAt(k + 1))

InPlace ==
    /\ Len(delivered) = PlaceAt(1)
    /\ \A k \in 1..Len(delivered) : delivered[k].body = finished[k]

OInv == IInv /\ Places /\ InPlace

LEMMA OrderInitial == Init => OInv
<1> SUFFICES ASSUME Init PROVE OInv
    OBVIOUS
<1>1. wire = << >> /\ delivered = << >> /\ finished = << >>
    BY DEF Init, ReaderInit
<1>2. ASeq(<< >>) /\ Len(<< >>) = 0
    BY EmptyASeq
<1>3. Places /\ InPlace
    BY <1>1, <1>2 DEF Places, InPlace, PlaceAt
<1> QED
    BY <1>3, Initial DEF OInv

\* A message more that is finished is behind all that were counted.
LEMMA PutCounts ==
    ASSUME OInv,
           NEW fmt, NEW m, NEW time, NEW extended, NEW word, NEW payload, NEW from,
           Put(fmt, m, time, extended, word, payload, from)
    PROVE  Places' /\ InPlace'
<1> DEFINE new == NewChunk(fmt, m, time, extended, word, payload, from)
<1>1. PICK n, f : /\ n = Len(wire) /\ n \in Nat /\ ASeq(wire)
                  /\ f = Len(finished) /\ f \in Nat /\ ASeq(finished)
    BY DEF OInv, IInv, TypeInv, Places, ASeq
<1>2. /\ wire' = Append(wire, new)
      /\ finished' = (IF Completes(new) THEN Append(finished, m) ELSE finished)
      /\ delivered' = delivered
    BY DEF Put, NewChunk, Completes, Ended
<1>3. new.place = f /\ new.msg = m
    BY <1>1 DEF NewChunk
<1> HIDE DEF new
<1>4. /\ ASeq(wire') /\ Len(wire') = n + 1 /\ wire'[n + 1] = new
      /\ \A k \in 1..n : wire'[k] = wire[k]
    BY <1>1, <1>2, AppendASeq
<1>5. PICK g : /\ g = Len(finished') /\ ASeq(finished')
               /\ IF Completes(new) THEN g = f + 1 /\ finished'[f + 1] = m ELSE g = f
               /\ \A k \in 1..f : finished'[k] = finished[k]
    <2>1. CASE Completes(new)
        BY <1>1, <1>2, <2>1, AppendASeq
    <2>2. CASE ~Completes(new)
        BY <1>1, <1>2, <2>2
    <2> QED
        BY <2>1, <2>2
<1>6. /\ g \in Nat /\ f <= g
      /\ \A k \in 1..n : PlaceAt(k)' = PlaceAt(k)
      /\ PlaceAt(n + 1)' = f /\ PlaceAt(n + 1) = f /\ PlaceAt(n + 2)' = g
    <2>1. g \in Nat /\ f <= g
        BY <1>1, <1>5
    <2>2. \A k \in 1..n : PlaceAt(k)' = PlaceAt(k)
        BY <1>1, <1>4 DEF PlaceAt
    <2>3. PlaceAt(n + 1)' = f /\ PlaceAt(n + 1) = f /\ PlaceAt(n + 2)' = g
        BY <1>1, <1>3, <1>4, <1>5 DEF PlaceAt
    <2> QED
        BY <2>1, <2>2, <2>3
<1>7. ASSUME NEW k \in 1..(n + 2) PROVE PlaceAt(k)' \in 0..g
    <2>1. CASE k \in 1..n
        <3>1. k \in 1..(n + 1)
            BY <1>1, <2>1
        <3>2. PlaceAt(k) \in 0..f
            BY <1>1, <3>1 DEF OInv, Places
        <3> QED
            BY <1>1, <1>6, <2>1, <3>2
    <2>2. CASE k \in {n + 1, n + 2}
        BY <1>1, <1>6, <2>2
    <2> QED
        BY <1>1, <2>1, <2>2
<1>8. ASSUME NEW k \in 1..(n + 1) PROVE Counts(wire[k], PlaceAt(k + 1))'
    <2>1. CASE k \in 1..n
        <3>1. Counts(wire[k], PlaceAt(k + 1))
            BY <1>1, <2>1 DEF OInv, Places
        <3>2. PlaceAt(k + 1)' = PlaceAt(k + 1) /\ PlaceAt(k + 1) \in 0..f
            <4>1. k + 1 \in 1..(n + 1)
                BY <1>1, <2>1
            <4>2. k + 1 \in 1..n \/ k + 1 = n + 1
                BY <1>1, <4>1
            <4> QED
                BY <1>1, <1>6, <4>1, <4>2 DEF OInv, Places
        <3>3. wire'[k] = wire[k] /\ PlaceAt(k) = wire[k].place /\ PlaceAt(k) \in 0..f
            <4>1. k \in 1..(n + 1) /\ k <= n
                BY <1>1, <2>1
            <4> QED
                BY <1>1, <1>4, <2>1, <4>1 DEF OInv, Places, PlaceAt
        <3>4. CASE Completes(wire[k])
            <4>1. PlaceAt(k + 1) = wire[k].place + 1 /\ finished[wire[k].place + 1] = wire[k].msg
                BY <3>1, <3>4 DEF Counts
            <4>2. wire[k].place + 1 \in 1..f
                BY <1>1, <3>2, <3>3, <4>1
            <4>3. finished'[wire[k].place + 1] = wire[k].msg
                BY <1>5, <4>1, <4>2
            <4> QED
                BY <3>2, <3>3, <3>4, <4>1, <4>3 DEF Counts
        <3>5. CASE ~Completes(wire[k])
            BY <3>1, <3>2, <3>3, <3>5 DEF Counts
        <3> QED
            BY <3>4, <3>5
    <2>2. CASE k = n + 1
        <3>1. wire'[k] = new /\ PlaceAt(k + 1)' = g
            <4>1. k + 1 = n + 2
                BY <1>1, <2>2
            <4> QED
                BY <1>4, <1>6, <2>2, <4>1
        <3> QED
            BY <1>3, <1>5, <3>1 DEF Counts
    <2> QED
        BY <1>1, <2>1, <2>2
<1>9. Places'
    BY <1>1, <1>4, <1>5, <1>7, <1>8 DEF Places
<1>10. PlaceAt(1)' = PlaceAt(1)
    <2>1. 1 \in 1..n \/ n = 0
        BY <1>1
    <2> QED
        BY <1>6, <2>1
<1>11. \A k \in 1..Len(delivered) : finished'[k] = finished[k]
    <2>1. Len(delivered) \in 0..f
        <3>1. 1 \in 1..(n + 1)
            BY <1>1
        <3> QED
            BY <1>1, <3>1 DEF OInv, Places, InPlace
    <2> QED
        BY <1>1, <1>5, <2>1
<1>12. InPlace'
    BY <1>2, <1>10, <1>11 DEF OInv, InPlace
<1> QED
    BY <1>9, <1>12

\* A message that is complete is the next that was finished.
LEMMA PayloadCounts ==
    ASSUME OInv, ReadMessagePayload, UNCHANGED peerVars
    PROVE  Places' /\ InPlace'
<1>1. /\ wire' = Tail(wire) /\ finished' = finished
      /\ IF Completes(chunk)
         THEN \E message : /\ message.body = chunk.msg
                           /\ delivered' = Append(delivered, message)
         ELSE delivered' = delivered
      /\ wire # << >>
    BY ReadMessagePayloadKeeps DEF OInv, IInv, ReaderBehind, ReadMessagePayload, peerVars
<1>2. PICK n, f, d : /\ n = Len(wire) /\ n \in Nat /\ ASeq(wire)
                     /\ f = Len(finished) /\ f \in Nat /\ ASeq(finished)
                     /\ d = Len(delivered) /\ d \in Nat /\ ASeq(delivered)
    BY DEF OInv, IInv, TypeInv, Places, ASeq
<1>3. /\ ASeq(wire') /\ n >= 1 /\ Len(wire') = n - 1 /\ chunk = wire[1]
      /\ \A k \in 1..(n - 1) : wire'[k] = wire[k + 1]
    BY <1>1, <1>2, TailASeq DEF chunk
<1>4. ASSUME NEW k \in 1..n PROVE PlaceAt(k)' = PlaceAt(k + 1)
    <2>1. CASE k \in 1..(n - 1)
        BY <1>2, <1>3, <2>1 DEF PlaceAt
    <2>2. CASE k = n
        BY <1>1, <1>2, <1>3, <2>2 DEF PlaceAt
    <2> QED
        BY <1>2, <2>1, <2>2
<1>5. Places'
    <2>1. ASSUME NEW k \in 1..n PROVE PlaceAt(k)' \in 0..f
        <3>1. k + 1 \in 1..(n + 1)
            BY <1>2
        <3>2. PlaceAt(k + 1) \in 0..f
            BY <1>2, <3>1 DEF OInv, Places
        <3> QED
            BY <1>4, <3>2
    <2>2. ASSUME NEW k \in 1..(n - 1) PROVE Counts(wire[k], PlaceAt(k + 1))'
        <3>1. k + 1 \in 1..n
            BY <1>2
        <3>2. Counts(wire[k + 1], PlaceAt(k + 1 + 1))
            BY <1>2, <3>1 DEF OInv, Places
        <3>3. PlaceAt(k + 1)' = PlaceAt(k + 1 + 1)
            BY <1>4, <3>1
        <3> QED
            BY <1>1, <1>3, <3>2, <3>3 DEF Counts
    <2> QED
        BY <1>1, <1>2, <1>3, <2>1, <2>2 DEF Places
<1>6. /\ d = wire[1].place /\ Counts(wire[1], PlaceAt(2)) /\ PlaceAt(1)' = PlaceAt(2)
    <2>1. 1 \in 1..n /\ 1 <= n
        BY <1>2, <1>3
    <2>2. PlaceAt(1) = wire[1].place /\ Counts(wire[1], PlaceAt(1 + 1))
        BY <1>2, <2>1 DEF OInv, Places, PlaceAt
    <2>3. d = PlaceAt(1)
        BY <1>2 DEF OInv, InPlace
    <2> QED
        BY <1>4, <2>1, <2>2, <2>3
<1>7. CASE Completes(chunk)
    <2>1. PICK message : message.body = chunk.msg /\ delivered' = Append(delivered, message)
        BY <1>1, <1>7
    <2>2. /\ Len(delivered') = d + 1 /\ delivered'[d + 1] = message
          /\ \A k \in 1..d : delivered'[k] = delivered[k]
        BY <1>2, <2>1, AppendASeq
    <2>3. PlaceAt(2) = d + 1 /\ finished[d + 1] = chunk.msg
        BY <1>3, <1>6, <1>7 DEF Counts
    <2>4. \A k \in 1..d : delivered[k].body = finished[k]
        BY <1>2 DEF OInv, InPlace
    <2>5. \A k \in 1..(d + 1) : k \in 1..d \/ k = d + 1
        BY <1>2
    <2>6. \A k \in 1..(d + 1) : delivered'[k].body = finished'[k]
        BY <1>1, <2>1, <2>2, <2>3, <2>4, <2>5
    <2>7. InPlace'
        BY <1>6, <2>2, <2>3, <2>6 DEF InPlace
    <2> QED
        BY <1>5, <2>7
<1>8. CASE ~Completes(chunk)
    <2>1. delivered' = delivered /\ PlaceAt(2) = d
        BY <1>1, <1>3, <1>6, <1>8 DEF Counts
    <2>2. InPlace'
        BY <1>1, <1>2, <1>6, <2>1 DEF OInv, InPlace
    <2> QED
        BY <1>5, <2>2
<1> QED
    BY <1>7, <1>8

LEMMA OrderInductive == ~ExtendedDeltas => (OInv /\ [Next]_vars => OInv')
<1> SUFFICES ASSUME ~ExtendedDeltas, OInv, [Next]_vars PROVE OInv'
    OBVIOUS
<1>1. IInv'
    BY Inductive DEF OInv
<1>2. ASSUME NEW m \in Messages, NEW fmt \in 0..3, Start(m, fmt)
      PROVE  Places' /\ InPlace'
    BY <1>2, PutCounts DEF Start
<1>3. ASSUME NEW c \in ChunkStreamIds, Continue(c)
      PROVE  Places' /\ InPlace'
    BY <1>3, PutCounts DEF Continue
<1>4. ASSUME UNCHANGED <<wire, delivered, finished>>
      PROVE  Places' /\ InPlace'
    <2>1. \A k \in Int : PlaceAt(k)' = PlaceAt(k)
        BY <1>4 DEF PlaceAt
    <2>2. PICK n \in Nat : n = Len(wire)
        BY DEF OInv, IInv, TypeInv, ASeq
    <2>3. \A k \in 1..n : k + 1 \in Int /\ PlaceAt(k + 1)' = PlaceAt(k + 1)
        BY <2>1, <2>2
    <2>4. \A k \in 1..n : Counts(wire[k], PlaceAt(k + 1))'
        BY <1>4, <2>2, <2>3 DEF OInv, Places, Counts
    <2>5. Places'
        BY <1>4, <2>1, <2>2, <2>4 DEF OInv, Places
    <2> QED
        BY <1>4, <2>1, <2>5 DEF OInv, InPlace
<1>5. ASSUME Receive
      PROVE  Places' /\ InPlace'
    <2>1. CASE ReadMessagePayload
        BY <1>5, <2>1, PayloadCounts DEF Receive
    <2>2. CASE ~ReadMessagePayload
        <3>1. UNCHANGED <<wire, delivered, finished>>
            BY <1>5, <2>2 DEF Receive, recv_message, ReadBasicHeader, ReadMessageHeader,
                              ReadExtendedTimestamp, Fail, peerVars
        <3> QED
            BY <1>4, <3>1
    <2> QED
        BY <2>1, <2>2
<1>6. ASSUME UNCHANGED vars
      PROVE  Places' /\ InPlace'
    BY <1>4, <1>6 DEF vars, readerVars, peerVars
<1>7. Places' /\ InPlace'
    BY <1>2, <1>3, <1>5, <1>6 DEF Next
<1> QED
    BY <1>1, <1>7 DEF OInv

\* Messages come out in the order the peer finished them, each one whole and once.
THEOREM InTheOrderFinished == ASSUME ~ExtendedDeltas PROVE Spec => []DeliveredInOrder
<1>1. OInv => DeliveredInOrder
    <2> SUFFICES ASSUME OInv PROVE DeliveredInOrder
        OBVIOUS
    <2>1. PICK n \in Nat : n = Len(wire)
        BY DEF OInv, IInv, TypeInv, ASeq
    <2>2. 1 \in 1..(n + 1)
        BY <2>1
    <2>3. PlaceAt(1) \in 0..Len(finished) /\ Len(finished) \in Nat
        BY <2>1, <2>2 DEF OInv, Places, ASeq
    <2> QED
        BY <2>3 DEF OInv, InPlace, DeliveredInOrder
<1> QED
    BY <1>1, OrderInitial, OrderInductive, PTL DEF Spec
==============================================================================
