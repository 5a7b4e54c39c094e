----------------------------- MODULE SendMessages ----------------------------
(***************************************************************************)
(* SrsProtocol::do_send_messages() as it is built (SRS_PERF_COMPLEX_SEND): *)
(* a group of messages is cut to chunks, every chunk fills a pair of iovs  *)
(* - its header, generated in the cache out_c0c3_caches, and its piece of  *)
(* the payload -, and srs_write_large_iovs() writes the pairs collected,   *)
(* when the cache runs dry and once more at the end.  The iovs only point  *)
(* into the cache, so a header must not change before it is written.       *)
(* do_send_messages() has one caller at a time (the API is not             *)
(* thread-safe); FillPair is a round of its inner loop, WriteSlice one     *)
(* writev().                                                               *)
(***************************************************************************)
EXTENDS Integers, Sequences

CONSTANTS
    SRS_CONSTS_IOVS_MAX,        \* iovs allocated at first, and added when short
    SRS_CONSTS_C0C3_HEADERS_MAX,    \* the size of the header cache
    IovLimit,                   \* sysconf(_SC_IOV_MAX)
    ChunkSizes,                 \* what out_chunk_size may be at a call
    Groups,                     \* the groups of messages a user may send
    MaxMessages                 \* bound: messages sent in a behaviour

SRS_CONSTS_RTMP_MAX_FMT0_HEADER_SIZE == 16

\* The constructor of SrsProtocol asserts a pair of iovs, and 256 is even.
ASSUME CachesAssumption ==
    /\ SRS_CONSTS_IOVS_MAX \in Nat \ {0} /\ SRS_CONSTS_IOVS_MAX % 2 = 0
    /\ SRS_CONSTS_C0C3_HEADERS_MAX \in Nat
    /\ SRS_CONSTS_C0C3_HEADERS_MAX >= SRS_CONSTS_RTMP_MAX_FMT0_HEADER_SIZE
    /\ IovLimit \in Nat \ {0}
    /\ ChunkSizes \subseteq Nat \ {0}
    /\ Groups \subseteq Seq([size : Nat, extended : BOOLEAN])
    /\ MaxMessages \in Nat

VARIABLES
    given,          \* the messages of all the calls, the last ones of the call under way
    out_chunk_size,
    current,        \* the message do_send_messages() is at
    p,              \* what of its payload is in iovs
    iovs,           \* the first iov_index of out_iovs: what they point at
    nb_out_iovs,    \* the iovs allocated
    out_c0c3_caches,    \* for every byte of the cache the header it belongs to
    c0c3_cache_index,
    cur_iov,        \* the iovs srs_write_large_iovs() has written
    pc,
    written         \* what reached the transport, in iovs

vars == <<given, out_chunk_size, current, p, iovs, nb_out_iovs, out_c0c3_caches,
          c0c3_cache_index, cur_iov, pc, written>>

Cache == 0..(SRS_CONSTS_C0C3_HEADERS_MAX - 1)
NoHeader == [header |-> 0, from |-> 0]
Torn == [header |-> -1, from |-> 0]     \* bytes of more than one header

Min2(a, b) == IF a < b THEN a ELSE b

iov_index == Len(iovs)

Init ==
    /\ given = << >>
    /\ out_chunk_size \in ChunkSizes
    /\ current = 1 /\ p = 0
    /\ iovs = << >>
    /\ nb_out_iovs = SRS_CONSTS_IOVS_MAX
    /\ out_c0c3_caches = [b \in Cache |-> NoHeader]
    /\ c0c3_cache_index = 0
    /\ cur_iov = 0
    /\ pc = "idle"
    /\ written = << >>

\* Mutant: an empty message ends the loop instead of being skipped.
StopAtEmpty(messages, k) ==
    IF k <= Len(messages) /\ messages[k].size > 0 THEN k ELSE Len(messages) + 1

\* The first message from k on that is not empty, or none.
FirstToSend(messages, k) ==
    CHOOSE j \in k..(Len(messages) + 1) :
        /\ \A i \in k..(j - 1) : messages[i].size = 0
        /\ j <= Len(messages) => messages[j].size > 0

\* send_and_free_messages(): the loop finds its first message; a group of nothing
\* but empty messages is done with.
Send(group, chunk_size) ==
    /\ pc = "idle"
    /\ Len(given) + Len(group) <= MaxMessages
    /\ given' = given \o group
    /\ out_chunk_size' = chunk_size
    /\ current' = FirstToSend(given', current)
    /\ p' = 0
    /\ pc' = IF current' <= Len(given') THEN "filling" ELSE "idle"
    /\ UNCHANGED <<iovs, nb_out_iovs, out_c0c3_caches, c0c3_cache_index, cur_iov, written>>

\* What srs_chunk_header_c0() and srs_chunk_header_c3() generate: a basic header, the
\* message header in c0, and the extended timestamp in both.
HeaderSize(message, first) ==
    1 + (IF first THEN 11 ELSE 0) + (IF message.extended THEN 4 ELSE 0)

\* Mutant: the iovs grow one pair late.
GrownLate == IF iov_index >= nb_out_iovs THEN nb_out_iovs + SRS_CONSTS_IOVS_MAX
             ELSE nb_out_iovs

\* Room for the pair after this one; out_iovs is reallocated, the pointers in it stay.
Grown == IF iov_index >= nb_out_iovs - 2 THEN nb_out_iovs + SRS_CONSTS_IOVS_MAX
         ELSE nb_out_iovs

\* No header may be generated any more: the next one could be a c0.
Dry(index) ==
    SRS_CONSTS_C0C3_HEADERS_MAX - index < SRS_CONSTS_RTMP_MAX_FMT0_HEADER_SIZE

\* One round of the inner loop: the header goes to the cache, the pair of iovs points
\* at it and at the piece of payload.
FillPair ==
    /\ pc = "filling"
    /\ LET message == given[current]
           nbh == HeaderSize(message, p = 0)
           payload_size == Min2(out_chunk_size, message.size - p)
           done == p + payload_size = message.size
       IN  /\ out_c0c3_caches' =
                [b \in Cache |-> IF b \in c0c3_cache_index..(c0c3_cache_index + nbh - 1)
                                 THEN [header |-> current, from |-> p]
                                 ELSE out_c0c3_caches[b]]
           /\ iovs' = iovs \o <<[at |-> c0c3_cache_index, len |-> nbh],
                                [payload |-> current, from |-> p, size |-> payload_size]>>
           /\ c0c3_cache_index' = c0c3_cache_index + nbh
           /\ p' = IF done THEN 0 ELSE p + payload_size
           /\ current' = IF done THEN FirstToSend(given, current + 1) ELSE current
    /\ nb_out_iovs' = Grown
    /\ pc' = IF Dry(c0c3_cache_index') \/ current' > Len(given) THEN "writing" ELSE "filling"
    /\ UNCHANGED <<given, out_chunk_size, cur_iov, written>>

\* What an iov points at now.
Content(iov) ==
    IF "at" \notin DOMAIN iov THEN iov
    ELSE LET owner == out_c0c3_caches[iov.at]
         IN  IF \A b \in iov.at..(iov.at + iov.len - 1) : out_c0c3_caches[b] = owner
             THEN owner ELSE Torn

\* Mutant: the system's limit is not looked at.
AllAtOnce == iov_index

\* srs_write_large_iovs(): everything at once, or a slice of at most the limit.
SliceCount == IF iov_index < IovLimit THEN iov_index
              ELSE Min2(IovLimit, iov_index - cur_iov)

\* Mutant: the pairs written are kept, and written again with those to come.
KeptCaches == UNCHANGED <<iovs, c0c3_cache_index>>

\* The caches are used from their start again.
ResetCaches == iovs' = << >> /\ c0c3_cache_index' = 0

\* writev() wrote a slice: the transport is blocking and takes all of it.
WriteSlice ==
    /\ pc = "writing"
    /\ written' = written \o [k \in 1..SliceCount |-> Content(iovs[cur_iov + k])]
    /\ IF cur_iov + SliceCount < iov_index
       THEN /\ cur_iov' = cur_iov + SliceCount
            /\ UNCHANGED <<iovs, c0c3_cache_index, pc>>
       ELSE /\ cur_iov' = 0
            /\ ResetCaches
            /\ pc' = IF current <= Len(given) THEN "filling" ELSE "idle"
    /\ UNCHANGED <<given, out_chunk_size, current, p, nb_out_iovs, out_c0c3_caches>>

\* writev() failed and the call returns its error.  Part of a chunk may be on the way,
\* so the connection is of no use any more: the model stops here.
WriteFails ==
    /\ pc = "writing"
    /\ pc' = "failed"
    /\ UNCHANGED <<given, out_chunk_size, current, p, iovs, nb_out_iovs, out_c0c3_caches,
                   c0c3_cache_index, cur_iov, written>>

Next ==
    \/ \E group \in Groups, chunk_size \in ChunkSizes : Send(group, chunk_size)
    \/ FillPair
    \/ WriteSlice
    \/ WriteFails

Spec == Init /\ [][Next]_vars

------------------------------------------------------------------------------
\* Every variable keeps its type.
TypeOK ==
    /\ given \in Seq([size : Nat, extended : BOOLEAN])
    /\ out_chunk_size \in Nat \ {0}
    /\ current \in Nat /\ p \in Nat
    /\ nb_out_iovs \in Nat /\ iov_index \in 0..nb_out_iovs
    /\ c0c3_cache_index \in 0..SRS_CONSTS_C0C3_HEADERS_MAX
    /\ cur_iov \in 0..iov_index
    /\ pc \in {"idle", "filling", "writing", "failed"}

\* Whenever a pair is filled, its iovs lie inside out_iovs, and any header fits into
\* the rest of the cache (chunk_header() returns 0 otherwise, which asserts).
NextPairFits ==
    pc = "filling" =>
        /\ iov_index + 2 <= nb_out_iovs
        /\ c0c3_cache_index + SRS_CONSTS_RTMP_MAX_FMT0_HEADER_SIZE
              <= SRS_CONSTS_C0C3_HEADERS_MAX

\* What is written at k is the header of the chunk at k + 1: the message and the place
\* in it are the same.
Headed(k) ==
    /\ written[k].header = written[k + 1].payload
    /\ written[k].from = written[k + 1].from

\* The chunk after the one at k starts where that one ends, or the next message does.
Follows(k) ==
    LET c == written[k]
        next == IF c.from + c.size < given[c.payload].size
                THEN [header |-> c.payload, from |-> c.from + c.size]
                ELSE [header |-> FirstToSend(given, c.payload + 1), from |-> 0]
    IN  written[k + 1] = next

\* However the iovs are collected, flushed early and cut into slices, the transport
\* gets what it would get chunk by chunk: every message whole and in order, behind
\* each header its piece, no header overwritten before it was written.
WrittenChunkByChunk ==
    \A k \in 1..(Len(written) - 1) : IF k % 2 = 1 THEN Headed(k) ELSE Follows(k)

\* No writev() gets more iovs than the system takes or none at all.
SlicesWithinLimit ==
    [][pc = "writing" /\ written' # written
         => Len(written') - Len(written) \in 1..IovLimit]_vars

\* A call that returns success has written everything: the last piece written is the
\* end of the last message.
SuccessMeansWritten ==
    \A k \in 1..Len(given) : pc = "idle" /\ given[k].size > 0 =>
        LET c == written[Len(written)]
        IN  /\ written # << >> /\ k <= c.payload
            /\ c.from + c.size = given[c.payload].size
==============================================================================
