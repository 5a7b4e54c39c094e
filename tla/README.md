# Verification of srs-librtmp

srs-librtmp is the RTMP library of the SRS media server, taken out for clients: it publishes and plays
live streams over one TCP connection. This directory holds TLA+ models of it, the TLC runs that check
them on small instances, and TLAPS proofs of what holds for every value of the constants.

All paths are below `src/`; file names without a directory are in `src/src-separate/`.
(`src/src/srs_librtmp.cpp` is the same code in a single file, put together by a script.)

- [1. The system](#1-the-system): inventory
- [2. The modules](#2-the-modules): what models what
- [3. What the runs show](#3-what-the-runs-show)
- [4. Fairness](#4-fairness)
- [5. What is proved](#5-what-is-proved)
- [6. What was found](#6-what-was-found)
- [7. What is not modelled](#7-what-is-not-modelled)
- [8. What is left](#8-what-is-left)

To check: `tlc -config X.cfg M` for the pairs of section 3, `tlapm M.tla` for the modules of section 5.

## 1. The system

The library is single-threaded: "thread-safe: no" is what `include/srs_librtmp.h` says of every call. A
user owns a `Context`, and every call blocks in the socket until it is done. So there are no
interleavings of threads; what is hard comes from *two endpoints with a transport between them*, from
*state that is remembered from call to call and from chunk to chunk*, from *buffers that are used again*,
and from *calls that fail half way*.

```
   user
    |  srs_rtmp_* / srs_h264_write_raw_frames / srs_audio_write_raw_frame ...   srs_librtmp.cpp
    v
  Context: cache of packets, SPS/PPS, AAC config, stream id
    |                                        \
    v                                         v
  SrsRtmpClient (SrsRtmpServer in SRS)      SrsRawH264Stream, SrsRawAacStream   srs_raw_avc.cpp
    |  connect, createStream, publish, play       srs_rtmp_stack.cpp
    v
  SrsProtocol    sending: messages -> chunks -> iovs        receiving: bytes -> chunks -> messages
    |            on_send_packet()                           on_recv_message(): sizes, acks, pings
    |                                                       ^
    |  srs_write_large_iovs()                  SrsFastBuffer|   srs_protocol_buffer.cpp
    v                                                       |
  SimpleSocketStream: blocking read, read_fully, writev; counts bytes           srs_lib_simple_socket.cpp
```

| Component | State it keeps | Operations | Hard to get right | What makes it correct |
| --- | --- | --- | --- | --- |
| Receive buffer `SrsFastBuffer` | allocation, `p`, `end` | `grow`, `read_slice`, `read_1byte`, `skip`, `set_buffer` | moves and reallocations under slices that were handed out; short reads; full buffer | a FIFO of the transport's bytes that stays in its allocation |
| Chunk stream, receiving | per chunk stream the last header and the unfinished message; `in_chunk_size` | `recv_message` and the four reads below it | headers that depend on all headers before; extended timestamps that peers leave out; interleaving; a chunk size that changes under way | every message comes out once, whole, in order, with its own header |
| Chunk stream, sending | `out_iovs`, `out_c0c3_caches`, `out_chunk_size` | `send_and_free_message(s)`, `send_and_free_packet`, `do_simple_send` | iovs that point into a cache which is used again; growth and flush one step ahead; the limit of `writev` | the transport gets what it would get chunk by chunk |
| Protocol control | `in_ack_size`, `manual_response_queue`, byte counter of the socket | `on_recv_message`, `response_*`, `manual_response_flush`, `set_auto_response` | acknowledgements are received bytes too; answers at once or in a queue; counter read ahead of decoding | pings answered once and in order; the traffic ends; the right count is acknowledged |
| Raw H.264 publishing | SPS, PPS, changed and sent flags | `srs_h264_write_raw_frames` | parameter sets in any order and over several calls; errors that do not stop a call; failing writes | the player shows what the encoder gave; success means written |
| Raw AAC publishing | `aac_specific_config` | `srs_audio_write_raw_frame` | the sequence header counts as sent before it is | frames follow the config they need |
| Packet reading | `Context::msgs` | `srs_rtmp_read_packet` | aggregates taken to pieces, cache and connection, broken aggregates | each packet once, in order, with its time |
| Client session | transaction ids, stream id, `requests` | handshake, `connect_app`, `create_stream`, `play`, `publish`, `fmle_publish` | waiting for one answer among other messages, several kinds of servers | the answer is that of the request; all sides get on to media |
| Server session | `SrsRequest`, auto response | `connect_app`, `identify_client`, `start_*` | which commands a client sends and in which order decides what it is | a client's kind and stream are recognised |
| Handshake | `c0c1`, `s0s1s2`, `c2` | complex and simple, client and server | falling back from complex to simple on bytes already read; a failed read | both sides end with the same mode |
| AMF0, packets | none | `get_size`, `encode_packet`, `decode`, `do_decode_message` | sizes computed apart from encoding; optional fields; responses without a type of their own | decode after encode gives what was sent, and a part of it never something else |
| Socket | fd, timeouts, counters | connect, read, read_fully, write, writev | short writes; counting twice; timeouts that are not applied | counters say what was transferred |
| FLV | file position; reference count of `SrsSharedPtrMessage` | encode, decode, copy | a file that is read while it is written; failed and short writes | what was written whole is read, as it was written |
| MPEG-TS | codecs announced; per pid the message under way and the continuity counter | encode, decode | packets of 188 bytes with stuffing; lost, repeated and late packets; a counter that wraps | whole messages or none, and in step again soon |
| Codec, AAC/MP3 encoders | last sample and codec info | demux tags | bit fields | - |
| Bandwidth check | none of its own | `bandwidth_check` | eleven packets in turns, any of which may be dropped by a wait for another | both sides get to the end |
| Files and byte streams | fd, cursor | read, write, require | short transfers that count as success | - |
| HTTP, RTSP | patterns; request under construction, RTP packet under construction | match, serve; receive, decode | longest match; lines and RTP fragments | - |
| Kbps, message array, logs, errors | counters | - | - | - |

`PROJECT.json` has the same list with its source files, and under `hazards` every place where the code
can go wrong in a way a test would hardly reach, with the properties that watch it.

## 2. The modules

One module per component; an MC module gives constants that are no simple sets; a `_proofs` module holds
theorems. Names of actions, variables and constants are those of the code.

```
ByteQueue  <-- refined by -- FastBuffer                         (FastBuffer_proofs)
ChunkReader  <-- extended by --  ForeignPeer   <-- MCForeignPeer (ForeignPeer_proofs)
             <-- extended by --  ChunkLink     <-- MCChunkLink  (ChunkLink_proofs)
MessageChannel <-- refined by -- ChunkLink
SendMessages <-- MCSendMessages                                 (SendMessages_proofs)
ProtocolControl                                                 (ProtocolControl_proofs)
Session  <-- refined by -- RtmpSession  <-- RtmpSession_invariants (RtmpSession_proofs)
Amf0 <-- extended by -- Packets <-- MCPackets
PacketReader                                                    (PacketReader_proofs)
AnnexB <-- extended by -- H264Raw <-- extended by -- RawPublishing
                             ^-- MCH264Raw              ^-- MCRawPublishing
FlvFile  <-- MCFlvFile                                          (FlvFile_proofs)
TsStream <-- MCTsStream
ASequence: the words of the invariants for sequences of records
```

**FastBuffer** (`srs_protocol_buffer.cpp`). Pointers are offsets into the allocation, a byte is its
position in the stream the peer sent, so that a lost, doubled or misplaced byte shows. `grow()` blocks in
`reader->read()`, and is split there: `Grow` is the part up to the first read with the move, `ReadSome`
and `ReadFails` the returns of one read, of any length. `GrowAborts` is the assertion of `grow()` that can
fail, `srs_assert(nb_exists_bytes < nb_buffer)`; the program has ended behind it. `nb_free_space` is the local of that name: the
code computes it once and then subtracts. `Unread` is the `skip(-4)` of `read_message_header()`.
`ByteQueue` is what its user sees: bytes are appended, taken, put back.

**ChunkReader** (`recv_message()` and what it calls in `srs_rtmp_stack.cpp`). One action for each of the
reads the call blocks in: `ReadBasicHeader`, `ReadMessageHeader`, `ReadExtendedTimestamp`,
`ReadMessagePayload`; the last with `on_recv_message()` as far as it changes the reader. A chunk on the
transport is a record with its format, time field, whether an extended timestamp follows and what the
four bytes are that follow (they may be payload), and which piece of which message it holds. The reader
does not look at what only its writer knows: when it takes bytes for something they are not, `fault`
becomes `"desync"`.

- **ChunkLink** puts SRS's own sender before it: `Send` is the user's call, `WriteChunk` a round of the
  send loop. Messages are written with formats 0 and 3, one message at a time. SetChunkSize messages
  change `out_chunk_size` when they are written and `in_chunk_size` when they are decoded. `MessageChannel`
  is its abstraction: accept, deliver.
- **ForeignPeer** puts before it the peer that the comments of `read_message_header()` describe: FMLE,
  flash, ffmpeg, librtmp. It interleaves chunk streams, uses all formats where RTMP lets it, and either
  repeats the extended timestamp in continued chunks or leaves it out. Where it does, the next four bytes are payload
  and any of `PayloadWords`, among them the time that the reader remembers, which it takes for the timestamp. It is external: its definitions are
  what the code and its comments expect of a peer. A chunk's fields `before` and `place` are auxiliary: they
  keep what the peer had in mind, and how many messages it had finished, when it began the chunk. They are there for the
  proofs; no guard and no reader looks at them.

**SendMessages** (`do_send_messages()`, `srs_write_large_iovs()`, `srs_chunk_header_c0/c3`). `FillPair` is
a round of the inner loop: header to the cache, a pair of iovs, the growth of the array, the test for a dry
cache; `WriteSlice` is one `writev()`. An iov points at a place of the cache, and what is written is what
the cache holds *then*. A header is the byte positions it covers, marked with the chunk it belongs to.

**ProtocolControl** has two endpoints, each with the transport to it, the buffer that reads ahead
(`Read`), and `Receive`, which is `recv_message()` with all of `on_recv_message()`: first the
acknowledgement, then the message. `acked_size` and the socket's counter are kept as their difference
`unacked`, so that QuietInTheEnd has finitely many states to look at. `SetAutoResponse` is the user's call, at any time and
with answers in the queue too; while the automatic response is off, an endpoint answers when its user sends. `impatient` is
history: who turned the automatic response on before the queue was empty. Messages are whole; cutting them is ChunkLink's.

**RtmpSession** (`SrsRtmpClient`, `SrsRtmpServer`, `expect_message()`, `SrsBandwidthClient`). Each call of
theirs is straight-line code of sends and waits, and is written as such: `FmlePublish(name)` is the list of
what `fmle_publish()` sends and waits for. `plan[e]` is what is left of the call endpoint e is in, and a step
takes the first item: `SendPacket` with `on_send_packet()`, `ExpectMessage` - one round of
`expect_message()`, which decodes, drops or returns -, `ReadBytes` of the handshake, `Identify` - one round of
`identify_client()` or `identify_create_stream_client()` -, `Publishing` of the bandwidth check. A `_result` is
decoded by the table of requests; its field `of` is what it *really* answers, which `Decode` does not look
at unless the layouts tell. `Lose` loses the connection with all that is on it. The order in which SRS's
connection calls `SrsRtmpServer` is not in this repository and external (`Accept`, `Decide`, `Serve`,
`ServerCheck`). **Session** is what both users may rely on: what is asked is served, in order, as what and
by the name it was asked for.

**Packets** and **Amf0** (`SrsPacket` and its kinds, `do_decode_message()`, `srs_rtmp_amf0.cpp`). `GetSize`,
`EncodePacket` and the decoders are three translations of three pieces of code per packet, and the run
compares them. Bytes are numbers, a length has two digits of base `LengthBase`, so that an int16_t that
overflows is in reach. The user builds objects with `SetUserProperty`; `EncodeForeign` are packets as
other clients encode them, `EndEarlier` cuts the payload off anywhere, and a response is decoded for each
request the receiver may have made.

**PacketReader** (`srs_rtmp_read_packet()`, `srs_rtmp_on_aggregate()`, `srs_rtmp_go_packet()`). Messages
arrive, plain or as aggregates of pieces, and each call returns a packet or an error, from the cache first. The pieces
stand in the order of their times; the aggregate may be older or younger than its first piece. `brought` and `early` of
a piece are history: the aggregate's time, and whether it is older.

**H264Raw** (`srs_h264_write_raw_frames()` in `srs_librtmp.cpp`, `srs_raw_avc.cpp`). `Call` sets the data
of a call as bytes, **AnnexB** takes NAL units off it as `annexb_demux()` does, and there is an action for each
thing that may happen to a NAL unit: `WriteSps`, `WritePps`, `WriteFrame(n)` with n of the packets due
written before a write fails, `EmptyFrame`, `NoPrefix`, `Abort` (the failed assertion), and `Reconnect`.

**RawPublishing** (`srs_audio_write_raw_frame()`, `SrsRawAacStream`) puts the audio calls beside the video
calls of H264Raw, on one context, one connection and one wire. An ADTS frame is its fields; `NotAdts`, `CutAdts`,
`CannotBeMuxed` are the ways a call fails, `UndersizedAdts` is the assertion in `SrsStream::require()`, and
`WriteAudioFrame(n)` has n of the packets due written. The steps of the video are those of H264Raw.

**FlvFile** (`SrsFlvEncoder`, `SrsFlvDecoder`, `SrsFileWriter`, `SrsFileReader`). The file is a sequence of
cells. `Write` is one `::write()`, three of which are a tag; `ShortWrite` and `WriteFails` are the two ways it
goes wrong (a short one counts as success in the code). The reader is another process: `ReadTagHeader`,
`ReadTagData`, `ReadPreviousTagSize` with a `::read()` each, that gives what there is and leaves the rest of the
buffer as it was, and `Retry`, the user's `srs_flv_lseek()` to the start of the tag. `Digits` and `Number` are the
big-endian numbers of the headers, by the weight of each byte; `Planned` is the iovs of a whole group, which go to one `writev()`.

**TsStream** (`SrsTsContext`). `Encode` cuts a message into packets as `encode_pes()` does, behind PAT and PMT when
a codec changed, and may fail at any write; `Lose`, `Repeat` and `Delay` are the line; `Receive*` is `decode()` of one
packet, with the four tests of `SrsTsPayloadPES::decode()` in their order - `CutShort`, `Late`, `Gap`, `Reaped` - after
three of which the packet is parsed again. A piece of payload knows which bytes of which message it is.

## 3. What the runs show

Every property of a passing run has at least one mutant in `PROJECT.json`: a definition of the model
changed the way a plausible bug would, with which TLC finds the property violated.

| Run | Module, cfg | Properties | Shows |
| --- | --- | --- | --- |
| fast_buffer | FastBuffer, FastBuffer.cfg | PointersOrdered, ReadsStayInside, HoldsTheStream, RefinesByteQueue | the buffer is a FIFO through moves, resets, growth, short and failed reads, put-backs |
| chunk_link | MCChunkLink, MCChunkLink.cfg | NeverDesynchronized, DeliveredAsSent, ChunkSizesAgree, RefinesMessageChannel, AllArrives | what one SrsProtocol sends, the other receives, unchanged, in order, and in the end |
| foreign_peer | MCForeignPeer, MCForeignPeer.cfg | OnlyLookalikesMisread, DeliveredInOrder, HeadersAreTheirOwn, AllArrives | interleaved streams, compressed headers and left-out extended timestamps are understood; only payload that looks like the timestamp left out is misread |
| send_messages | MCSendMessages, MCSendMessages.cfg | NextPairFits, WrittenChunkByChunk, SuccessMeansWritten, SlicesWithinLimit | collecting, flushing early and slicing write what would be written chunk by chunk |
| protocol_control | ProtocolControl, ProtocolControl.cfg | PingsAnsweredOnce, PingsAnsweredInOrder, QuietInTheEnd, PingsAnswered | answers at once and through the queue, with users that switch between the two at any time: each ping once, and in order unless someone switches with answers in the queue; acknowledgements die out |
| session | RtmpSession, RtmpSession.cfg | RefinesSession, NoMutualWait, FailsForAReason, OnTheStreamGiven, AskedIsServed | the server finds out what the client wants, for three kinds of clients and one after the other; neither waits in vain, nor fails without a reason; all that is asked is served |
| packets | MCPackets, MCPackets.cfg | SizeAgreesWithEncoding, ArrivesAsSent, AnotherAnswerIsRefused, EndsAtAField | each packet fills its payload exactly, is decoded as it was sent, or as a beginning of it when it is cut off, and never as the answer to something else |
| packet_reader | PacketReader, PacketReader.cfg | PacketsInOrder, TimesAreKept, EverythingIsRead | packets of messages and of aggregates, also broken and early ones, in order, with the times due to them or, of an early aggregate, the one it brought, all of them |
| raw_publishing | MCRawPublishing, MCRawPublishing.cfg | ShowsWhatWasGiven, SuccessMeansWritten, PlaysTheAudioGiven | the player shows and plays what the encoder gave, with its parameter sets and its configuration, and success means that all was written |
| h264_raw_assert | MCH264Raw, MCH264RawAssert.cfg | SpsAssertHolds (violated) | a PPS and a frame without an SPS fail an assertion |
| flv | MCFlvFile, MCFlvFile.cfg | ReadAsWritten, AllIsRead | a file can be read while it is written: whole tags come out as they went in, all of them, whatever became of the last one |
| ts | MCTsStream, MCTsStream.cfg | WholeOrNotAtAll, FaultsCostLittle | a message comes out whole or not at all, and a fault costs the messages of two packets at most |

The type invariants (`TypeOK`) have no runs: those of the modules with proofs are theorems or parts of the
inductive invariants of section 5, and of the other modules they only document the variables.

### Bounds, and why they are enough

- *fast_buffer*: an allocation of 4 that may grow to 6, requests up to 7, a stream of 9 bytes. Requests
  below, at and above the size of the allocation and of its limit, reads of every length, and more bytes than
  the allocation holds, so that every byte position is used again.
- *chunk_link*: three chunk streams; messages of one, and of several chunks at sizes 1 to 3; times below
  and at the extended timestamp's threshold (2 for 0xffffff), at and beyond the mask of 31 bits (4 for 2^31);
  three messages, so that a SetChunkSize has a message before and behind it in a transport of three chunks.
- *foreign_peer*: the same, with an empty message, chunk size changes between the parts of a message, and
  times 0 to 5 from which all formats and extended timestamps follow, one of them a multiple of 2^31 (4). Three messages are
  needed for a format 3 header that repeats a format 1 or 2 one. Payload behind a left-out extended timestamp is 3, which
  is the time of one message, or 6, which is that of another with the bit that the mask takes off; it is neither for the
  messages of time 5. `ExtendedDeltas` is FALSE: what happens otherwise is 1 of section 6.
- *send_messages*: 4 iovs at first, a cache of 40 bytes (two c0 headers and little more), a system limit of 5
  - odd, so that a slice parts a header from its payload -, chunk sizes 1 and 2, messages of up to 9 chunks
  and up to three per call, six in a behaviour, so that the caches of one call are used again by the next.
- *protocol_control*: control messages of 2 bytes, media of 3, a window of 2, two messages
  per user, and any number of switches of the automatic response. Two pings and a switch between them are what it takes
  for an answer to overtake another. Endpoints without a window are those that no announcement reached yet. A window that holds just one acknowledgement is the worst case: a smaller one would be
  acknowledged for ever by two endpoints, and `ControlAssumption` excludes it. `SequenceModulus` is 1 in
  this run: the numbers in the acknowledgements do not matter to its properties.
- *session*: two stream names, three streams asked for one after the other (so that answers to the first are still
  under way at the second, and a table entry of the first is there at the third), one call of the user's own, a first
  byte that is not 3, a server that rejects or gives no duration, one message of the bandwidth check's publishing.
  `UnpublishTid` is the user's choice; 1, 2 and 4 would take the place of entries that are still needed.
- *packets*: every kind of packet; objects of up to two properties of every AMF0 type with an object and arrays among
  them; strings empty, of one character, and of 33, whose length is negative in an int16_t of base 8; payloads cut off
  at every byte. Names of commands are one character, since they are only compared.
- *packet_reader*: three packets as plain messages or aggregates of up to three pieces, three times, with which
  an aggregate is older or younger than its first piece, or between its pieces.
- *raw_publishing*: four calls in all, at most two of them audio; nine kinds of video calls (parameter sets alone, in
  pairs in both orders, changed, too short, frames before and behind them, nothing between start codes, no start code
  at all) with start codes of three to five bytes and zeros in the NAL units; five kinds of audio calls (several
  frames, one that cannot be described, cut, undersized, no ADTS, MP3, two configurations); two connections. Four
  calls hold the shortest story of each kind: sets, frame, changed set, frame; or header lost, frame, frame, reconnect.
- *flv*: bytes of base 4, so that 31 bits of time are seven, with times at and beyond that; two tags or a group of two,
  one of them empty; one fault, since nothing is promised behind it; any junk of two values in what was not read.
- *ts*: the sizes of the code (188 bytes and its headers); messages of one packet, of two with PCR and a single byte to
  pad, of four with a length that does not fit; three messages, two tables, one fault, a
  counter of 4 values for 16, which wraps within a message.

Deadlock is not checked where the users may stop sending. The buffer and the packets are checked for it: their users
never stop, and a buffer whose assertion failed is left as it is. `MaxSent`, `MaxCalls`, `MaxAudioCalls`, `MaxConnections`, `MaxPackets`, `MaxPieces`, `MaxMessages`, `MaxFaults`,
`MaxAsked`, `MaxPublishing`, `MaxTags`, `MaxProperties`, `MaxRequest`, `StreamLength`, `TransportSize` and `LengthBase`
bound the models and not the code, and are marked as bounds where they are declared.

## 4. Fairness

- chunk_link: `WF(WriteChunk)`: a blocking write goes on when the transport has room, which TCP provides.
  `WF(Receive)`: the user calls `recv_message()` again. Nothing forces a user to send.
- foreign_peer: `SF(Continue(c))` for every chunk stream: the peer completes each message it started. It
  has to be strong, because room in the transport comes and goes as other streams use it. `WF(Receive)` as above.
  `AllArrives` ends where payload that looks like a timestamp is misread (`Misled`), and only there.
- protocol_control: both users keep calling `recv_message()`, which is `WF(Read)` and `WF(Receive)`. There is no
  fairness of sending, and none of switching, so `PingsAnswered` is only claimed of peers that respond by themselves
  throughout, or whose queue is empty again and again.
- packet_reader: `WF(Read)`: the user calls `srs_rtmp_read_packet()` again, also after an error.
- session: a call that was made goes on, as blocking calls do (`WF` of each endpoint's steps, of the bandwidth check's
  loop and of the server's). No user has to make a call, and nothing keeps the connection from being lost.
- flv: `WF(Read)`: the reader goes on, trying again at the end of the file. The writer may stop anywhere, also in a tag.

The other runs have no liveness: they are about what one call does, which ends by itself.

## 5. What is proved

TLAPS proves the following for every value of the constants that satisfies the `ASSUME` of the module.

**FastBuffer_proofs**: `TypeCorrect`, `PointersStayOrdered`, `ReadsAreSafe`, `TheStreamIsKept`,
`BufferIsByteQueue`, for any sizes of the allocation, its limit and the requests. The inductive invariant is
`TypeOK`, `PointersOrdered`, `HoldsTheStream` and *GrowCanFinish*: while a `grow()` waits, its local
`nb_free_space` stays inside the allocation and holds at least the bytes it still needs. Without this,
`ReadsStayInside` does not carry over a read: that the free space is not zero follows from what is still needed. The refinement follows action by action; the moves
and reallocations are stutters of the queue.

**SendMessages_proofs**: `TypeCorrect`, `EveryPairFits`, `ChunkByChunk`, `SlicesFit`, `SuccessIsWritten`, for any limits,
chunk sizes and groups of messages. The first invariant, `IInv`, says that the number of iovs and of allocated iovs is
even (*Pairs*), that while pairs are filled the sender is at a message with something left (*AtAMessage*), and that
between calls the caches are empty and a flush under way still has iovs to write (*CachesReset*). The second, `WInv`, is
about what is written: what was written and what the iovs point at - as the cache is *now* - together are the chunks
from the first message on, each piece behind its own header, up to where the sender is. It is inductive because the
iovs' headers occupy places of the cache below `c0c3_cache_index` that no later header overlaps until a flush has
written them; a slice only moves the border between what is written and what is pending.

**ChunkLink_proofs**: `TypeCorrect`, `ReaderNeverDesynchronized`, `EverythingDeliveredAsSent`, `SizesAgree`,
`LinkIsMessageChannel`, for any messages, times, chunk sizes and transports. None of these
is inductive by itself, because the reader may be anywhere behind the sender. The argument follows *one
position* - which message, how far in it, with which chunk size - through the link: the reader's position is
where the head of the transport begins (*Meets*); every chunk begins where the one before it ends, in the
message and in the chunk size (*Chained*); behind the last chunk is the sender's position. The streams'
remembered headers agree with that position (*StreamsFollow*), and between two reads of one chunk the locals of
the call do (*BetweenReads*). Reading a chunk moves the first end, writing one the other, and an empty transport
makes them meet. That the sender sends both formats with the extended timestamp, and a SetChunkSize takes
effect with its last chunk on both sides, is what keeps the induction going.

**ForeignPeer_proofs**: `OnlyLookalikes`, `HeadersAreRight`, `InTheOrderFinished`, for any messages, times, payload, chunk sizes, transports
and numbers of chunk streams, interleaved in any way. All assume that no time *difference* needs an extended timestamp; the first
point of section 6 is what happens otherwise. `OnlyLookalikes` says where the reader can take bytes for what they are not: at a chunk that
leaves out the extended timestamp of its message, and goes on with payload equal to the time as the reader keeps it, or belongs to
a message whose time is kept as 0. What was returned before such a chunk is right and in order, which the other two say. ChunkLink's one position does not do
here, since every chunk stream is somewhere else. Instead *the reader is the peer some chunks ago*: what it remembers of each
chunk stream is what the peer had in mind when it began the chunk at the head of the transport (`before`), and behind
the last chunk is what the peer has in mind now (*Views*, *ReaderBehind*). A chunk follows from what was in mind before it
and determines what is in mind behind it (*Chained*), so that reading one moves the reader to the next. The two formats with and without the
extended timestamp meet in one fact: a message in parts is kept with the time that the four bytes would have, masked, so that
payload is told from it exactly where it does not look like it. The order of delivery rests on the same
walk: each chunk stands in the place of the messages finished before it (*Places*), the reader has returned as many as
the place of the chunk at the head (*InPlace*), and reading a last chunk returns the very next one.

**ProtocolControl_proofs**: `PingsOnce`, `PingsInOrder`, for any windows, message sizes and numbers of messages, and users that switch
the automatic response at any time. `PingsOnce` has no exception: each ping is in exactly one of four *Places* - to be read by the peer,
answered and in its queue, its answer on the way back, there -, and what an endpoint reads, queues, flushes or sends at once moves it
from one to another (*Travel*). The order of the answers needs more: the queue only holds responses, and is empty where the
automatic response is on, unless its user turned it on with answers waiting (*QueuesRespond*) - that is the exception of the property, since
an answer sent at once then overtakes one that waits. A ping's number is followed along its *Way* through the same places.
Sending a ping appends the next number, reading one moves the border behind it, a flush moves the whole queue.

**PacketReader_proofs**: `EveryPacketInOrder`, `EveryTimeKept`, for any messages, aggregates of any length, broken anywhere. The packets
returned, cached and still to be received are numbered through, message by message (`InOrder`); a call takes the first
number off the cache, or off the first message, and moves the rest of an aggregate, as far as it is not broken, between
the two. `EveryTimeKept` says what time each of them comes with: where the aggregate is not older than its first piece, that piece gives
the delta to all of them, which keeps their distances; where it is older, no piece gives one - they stand in the order of their times,
so that none of them is older than the aggregate - and each is moved to the aggregate's time, point 4 of section 6.

**RtmpSession_proofs**: `OnTheRightStream`, `ServesWhatWasAsked`, `ClientFailsForAReason`, `NeitherWaitsInVain`, for any names, stream id,
versions, and numbers of streams asked for and of rounds of the bandwidth check. They are four arguments, each with an invariant
of its own, which **RtmpSession_invariants** defines.

- *On the right stream* (`IInv`). A play or publish on the wire carries the id the server gave, because in every call of the
  client such a command stands behind a wait for createStream's answer (*Covered*), no call of the server ever waits
  for one, and what is decoded as such an answer is one (*Gives*) although `_result`s of releaseStream and FCPublish arrive
  in front of it.
- *The refinement* (`JourneyInv`). The server finds out by the commands as they come what the client is, and client and
  server see each other's state only through messages that are still under way. The proof gives the server a place in a session -
  a *view*: waiting for connect, identifying, behind the first releaseStream, serving the third stream - and every message and
  every step of a plan a way from one view to the next (*Moves*, *Goes*, *Takes*). The messages on the wire lead from where the
  server's plan begins to where the client's plan begins (*ServerSide*, *ClientSide*), and the client's plan leads to where its
  user wants the server (*Home*). Taking a message, or dropping one that is not waited for, moves one end of the wire, saying
  one the other; a new call of the user appends a way to the end, a new plan of the server's begins where the old one ended. What the
  server serves is a step to the view of the next stream asked for, which names it (*Asked*). Every step but that and the
  user's asking is a stutter of `Session`.
- *The reasons* (`AnswersInv`). The client fails on a `_result` whose transaction id its table of requests does not know,
  or knows as a request with another layout of the answer. Every request under way, in the server's hand or in a
  `_result` is in the table with the response it stands for (*InTable*). That holds although the table is overwritten - transaction
  id 2 is releaseStream's and createStream's - because whoever asks for a stream waits for its answer, answers come in the order of
  the requests with nothing of a stream behind a createStream (*CreateIsLast*), and a client that does not wait for
  a stream id has no request of a stream open (*Settled*). Of the server, only that a plan says what it was asked matters; where it is
  comes from `JourneyInv`.
- *No mutual wait* (`WaitsInv`). That both wait with empty wires is excluded by an invariant about earlier states, when things are
  still on their way: if neither the messages that are to reach the server nor what the client does before its next wait takes the
  server on (*Reached*), then the packet that ends the wait is on its way, or the server is about to send it, or to decide whether it
  does (*ComesNow*, *Promised*). It holds after the client's own steps because a call begins with what does take the server on
  (*Departs*), so that its promise is due only when the server has read that, and then the server's view (`JourneyInv`) says what it
  plans. The one call that begins with a wait is the bandwidth check, whose start the server sends by itself behind the answer to
  connect (*CheckBegins*, *InTurn*): the wait for the answer must not swallow the start. What the client drops while it waits is by
  definition not what it waits for, and the server, when it has nothing to send, owes nothing (*OwesNothing*). A client that asks
  for a stream never waits for connect's answer again, and none leaves a stream before it asked for one (*Apart*). If both
  waited with empty wires, the server would have nothing on its way and nothing to send before its wait, so that nothing the
  client waits for could be promised.

**FlvFile_proofs**: `TagsAreReadAsWritten`, for any tags - of any time, with any data whose length fits three bytes -, one by one
or in groups, any base of the digits, and whatever a buffer held that a read did not fill. `FlvAssumption` says of a tag what the
callers give: one of three types, a time that is no negative number, data of cells that are numbers. `ReadAsWritten` says nothing of the
file; the invariant (`IInv`) says what lies in it. The whole tags lie one behind the other, each at its *offset*, which is the
offset of the tag before it and that tag's size (*Layout*); behind the last is what the first writes of the next tag
have put there, and the iovs still to write are the rest of that tag and the tags behind it (*Writing*). A reader that has had n tags
goes back to the offset of the next one when it meets the end of the file; before that it has read nothing of it, its header, or its header and
its data, and what it remembers is what that tag's header says (*AtTag*). A file passes through four phases: *NotBegun* until its
own headers are whole, *Growing*, and when a write fails or is short *Behind* while the reader still has whole tags before
it, and *Past* when it has not: from there nothing is promised. Two facts carry the steps. A tag's header is read back as its
type, size and time (`HeaderOfTag`): three digits and what is above them make up the number again (`NumberOfDigits`). And a part of a
tag ends before its last four bytes, so that the read of the previous tag size, the one that delivers, meets the end of
the file (`PartIsNotDelivered`): a reader never delivers a tag that is not whole while the file grows. TLC checked
`IInv` on the instance of *flv* before it was proved.

Five of the proof modules speak of sequences of records of several shapes (`ASeq`, in ASequence), and begin with the few lemmas on them that each needs.

Only model-checked: liveness (`AllArrives`, `QuietInTheEnd`, `PingsAnswered`, `EverythingIsRead`, `AskedIsServed`,
`AllIsRead`), which is out of the prover's reach;
everything of H264Raw, RawPublishing, TsStream and Packets. What a player shows or plays
and what a packet decodes to are folds and recursions over data, whose results for every input would need induction
over data; Amf0 and Packets are RECURSIVE besides.

## 6. What was found

A run that TLC ends with a counterexample, against an assertion of the code: *h264_raw_assert* - a PPS and a frame
without an SPS, or with one of less than four bytes, run into `srs_assert((int)sps.length() >= 4)` (`srs_raw_avc.cpp:171`).

The following go wrong too. The models have the behaviour, and the passing runs stay clear of it by a constant or an
exception that a property names; changing what is said in brackets shows the counterexample.

1. When a format 1 or 2 header has a time difference of 0xffffff or more, the extended timestamp is stored as the
   time of the message (`srs_rtmp_stack.cpp:1356`) [MCForeignPeer.cfg: `ExtendedDeltas = TRUE`; HeadersAreTheirOwn].
2. If the peer leaves the extended timestamp out of continued chunks, four bytes of payload that equal the time of the
   message, masked with 31 bits, are taken for it, and any four bytes when the time is a multiple of 2^31, which is kept
   as 0 (`:1351`); the peer conforms in both cases, and every byte behind is read four places too late
   [MCForeignPeer.cfg: `NeverDesynchronized` for OnlyLookalikesMisread, which names the two cases].
3. `read_fully()` counts what `read()` already counted, so every acknowledgement is too large by the size of the
   handshake (`srs_lib_simple_socket.cpp:249`) [ProtocolControl.cfg: `SequenceModulus = 32` and INVARIANT
   `AcknowledgesTheBytes`].
4. In an aggregate older than its first piece says, -1 as "not computed yet" meets a real negative difference, and
   all pieces get the same time (`srs_librtmp.cpp:873`) [the exception of TimesAreKept for `early` aggregates].
5. After a lost TS packet with the last counter, the packets behind it are dropped as late, until the counter comes round and
   the next one is taken for the one that is due: of a message of unknown length a part is missing, which the comment at `srs_kernel_ts.cpp:1397`
   means to exclude [the second case of WholeOrNotAtAll]. A repeated packet with the last counter loses its message.
6. After a write of PAT or PMT that fails, the codecs count as announced (`srs_kernel_ts.cpp:357`), and the next message
   fails `srs_assert(channel)` (`:453`) [`Aborts`].
7. An ADTS frame whose length is less than its header fails `srs_assert(required_size >= 0)` (`srs_kernel_stream.cpp:90`, from
   `srs_raw_avc.cpp:421`) [`UndersizedAdts`].

Observed in the models, where no document says otherwise or it is a matter of reading:

- `grow()` compares the free space with all of the required size, although some of it may be in the buffer already,
  and refuses what would fit (`srs_protocol_buffer.cpp:171`). Chunks of the sizes RTMP recommends are far smaller than the buffer;
  larger ones are accepted with a warning (`srs_rtmp_stack.cpp:1512`).
- `grow()` fails `srs_assert(nb_exists_bytes < nb_buffer)` (`srs_protocol_buffer.cpp:163`), where it should report the overflow,
  when the buffer is full from its first byte and more than the allocation is asked for [`GrowAborts`]. Only a chunk larger than the allocation asks for so much.
- `set_auto_response()` does not flush what waits in the queue (`srs_rtmp_stack.cpp:285`): turned on again, it lets an answer sent at
  once overtake an earlier one, which goes out with the user's next message only [the exception of PingsAnsweredInOrder].
- A window that is exactly full is not acknowledged (`srs_rtmp_stack.cpp:1462` has `>`; `srs_rtmp_stack.hpp:1841`
  speaks of bytes equal to the window).
- The context's comment "only send the ssp and pps when both changed" (`srs_librtmp.cpp:97`) is not what `:1283`
  does: one changed set is enough, so a header may go out with an empty PPS. `ShowsWhatWasGiven` therefore is about
  encoders that give the sets in pairs before a frame (`SetsInPairs`).
- A context that is connected again starts with a frame: the flags that say a sequence header was sent are set
  before it is written (`:1305`) and not reset by a handshake. The same holds for the AAC configuration (`:1103`), which is not
  sent again either when the encoder changes it; `PlaysTheAudioGiven` is about a first connection and one configuration.
- Script data packets always come with time 0; only audio and video bring theirs (`srs_rtmp_go_packet`).
- The answer to a call of the user's own is a `_result` to a request nobody remembers, and fails the next wait
  (`srs_rtmp_stack.cpp:728`). A client that is rejected is only told by an onStatus, which `connect_app()` drops.
- A client that does not send FCPublish behind releaseStream leaves both sides waiting (`start_fmle_publish()` waits for it).
- `expect_message()` drops media that arrives while it waits (`srs_rtmp_stack.hpp:411`).
- Strings of 32768 bytes and more are read as empty, and their bytes as what follows (`srs_rtmp_amf0.cpp:1800`); a number that
  begins with 00 09 where a property may end is taken for the end; an object that ends early at a property is accepted.
- A user's call packet without a command object is encoded and not decoded.
- An FLV tag without data is where a reader stays: reading nothing counts as the end of the file. A short read or
  write of a file counts as success (`srs_kernel_file.cpp:136`, `:248`). `srs_flv_tellg()` of a writer asks the
  reader, which is not open (`srs_librtmp.cpp:1598`).

## 7. What is not modelled

- Bytes, where nothing depends on them. H264Raw has bytes, where start codes are searched, and Packets, where sizes and layouts matter.
- Basic headers of two and three bytes, and the chunk stream ids of 64 and above they are for.
- A read that times out inside a chunk, and a call to `recv_message()` after it. The shipped socket does not apply
  its timeouts, so that reads do not time out there; a replaced io (`SRS_HIJACK_IO`) may.
- A `writev()` to a socket that takes less than it was given. The socket is blocking.
- Writes that fail inside `on_recv_message()` and `manual_response_flush()`: the connection is given up after them.
- Both directions full at once: ChunkLink is one direction, the transports of ProtocolControl and RtmpSession are unbounded.
- Aggregates within aggregates; the merged read, whose handler only waits.
- The complex handshake: it is compiled with `SRS_AUTO_SSL` only, and is cryptography over byte offsets.
- HTTP, RTSP, kbps and the message array: parts of SRS that no code of this library uses; the servers that drive them are
  not in the repository. The codec and the AAC and MP3 encoders are bit fields over one buffer, with no state
  to go wrong between calls; `SrsTsMuxer`, `SrsTsCache` and `SrsTsEncoder` stand on them.
- Clocks: the pacing of the bandwidth check, sampling of rates.

## 8. What is left

1. Theorems: what does not rest on folds in TsStream, such as the continuity counters.
2. **SimpleSocket**: short transfers and a replaced io that times out, with a ChunkReader whose reads fail inside a chunk.
3. **HttpMux**, **Rtsp**: the longest match, and RTP fragments put together.
