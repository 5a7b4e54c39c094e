------------------------------ MODULE PacketReader ----------------------------
(***************************************************************************)
(* srs_rtmp_read_packet(): the messages of the connection, returned to the *)
(* user one packet a call.  An aggregate message is taken to pieces, which *)
(* wait in the context's cache, their times moved to the time of the       *)
(* aggregate.                                                              *)
(*                                                                         *)
(* ChunkReader is how messages come about; here they arrive whole.  The    *)
(* pieces of an aggregate are no aggregates themselves and stand in it in  *)
(* the order of their times, and times stay below the 31 bits that are     *)
(* kept of them.  An aggregate may be older than its first piece says.     *)
(***************************************************************************)
EXTENDS Integers, Sequences, SequencesExt

CONSTANTS
    Types,          \* of a packet: some of "Audio", "Video", "AMF0Data", "Other"
    Times,
    MaxPieces,      \* bound: pieces of an aggregate
    MaxPackets      \* bound: packets in all messages

ASSUME PacketAssumption ==
    /\ Types \subseteq {"Audio", "Video", "AMF0Data", "Other"} /\ Times \subseteq Nat
    /\ MaxPieces \in Nat /\ MaxPackets \in Nat

VARIABLES
    incoming,   \* the messages recv_message() is going to return
    msgs,       \* the context's cache of pieces
    returned,   \* the packets the calls returned
    errors,     \* how many calls returned an error instead
    arrived     \* history: the packets of all messages

vars == <<incoming, msgs, returned, errors, arrived>>

Init == incoming = << >> /\ msgs = << >> /\ returned = << >> /\ errors = 0 /\ arrived = 0

\* The time a piece has on the stream: as far behind the aggregate's time as it is
\* behind the first piece.  Kept with the piece to be compared with what is returned, as
\* are the aggregate's time and whether the aggregate is the older one.
StreamTime(timestamp, times, k) == timestamp + times[k] - times[1]

\* A message of one packet.
ArrivePlain(type, timestamp) ==
    /\ arrived < MaxPackets
    /\ incoming' = Append(incoming, [type |-> type, timestamp |-> timestamp,
                                     id |-> arrived + 1, due |-> timestamp,
                                     brought |-> timestamp, early |-> FALSE])
    /\ arrived' = arrived + 1
    /\ UNCHANGED <<msgs, returned, errors>>

\* An aggregate whose pieces have these times.  When it is broken, what follows them in
\* the payload ends too early.
ArriveAggregate(type, timestamp, times, broken) ==
    /\ times # << >> /\ arrived + Len(times) <= MaxPackets
    /\ \A j, k \in 1..Len(times) : j <= k => times[j] <= times[k]
    /\ incoming' = Append(incoming,
         [type |-> "Aggregate", timestamp |-> timestamp, broken |-> broken,
          pieces |-> [k \in 1..Len(times) |->
                        [type |-> type, timestamp |-> times[k], id |-> arrived + k,
                         due |-> StreamTime(timestamp, times, k),
                         brought |-> timestamp, early |-> timestamp < times[1]]]])
    /\ arrived' = arrived + Len(times)
    /\ UNCHANGED <<msgs, returned, errors>>

------------------------------------------------------------------------------
\* Mutant: every piece is moved by a delta of its own.
OwnDelta(aggregate, k) == k

\* The piece whose delta the k-th one is moved by.  The delta is handed from piece to
\* piece, and a negative one stands for one that is not known yet: it is that of the
\* first piece that is not younger than the aggregate.
GivesDelta(aggregate, k) ==
    LET known == {j \in 1..k : aggregate.pieces[j].timestamp <= aggregate.timestamp}
    IN  IF known = {} THEN k ELSE CHOOSE j \in known : \A i \in known : j <= i

\* srs_rtmp_on_aggregate(): the pieces up to where the payload is broken, each moved by
\* its delta.
Pieces(aggregate) ==
    LET pieces == aggregate.pieces
        delta(k) == aggregate.timestamp - pieces[GivesDelta(aggregate, k)].timestamp
    IN  [k \in 1..Len(pieces) |-> [pieces[k] EXCEPT !.timestamp = @ + delta(k)]]

\* srs_rtmp_go_packet(): only audio and video bring their time with them.
Packet(msg) ==
    [type |-> msg.type, id |-> msg.id,
     due |-> msg.due, brought |-> msg.brought, early |-> msg.early,
     timestamp |-> IF msg.type \in {"Audio", "Video"} THEN msg.timestamp ELSE 0]

ReadCached ==
    /\ msgs # << >>
    /\ returned' = Append(returned, Packet(Head(msgs)))
    /\ msgs' = Tail(msgs)
    /\ UNCHANGED <<incoming, errors, arrived>>

\* Mutant: the connection is read although there are pieces left.
Impatient == incoming # << >>

CacheEmpty == msgs = << >> /\ incoming # << >>

ReadPlain ==
    /\ CacheEmpty /\ Head(incoming).type # "Aggregate"
    /\ returned' = Append(returned, Packet(Head(incoming)))
    /\ incoming' = Tail(incoming)
    /\ UNCHANGED <<msgs, errors, arrived>>

\* Mutant: nothing of a broken aggregate is kept.
AllOrNothing(aggregate) == IF aggregate.broken THEN << >> ELSE Pieces(aggregate)

Cached(aggregate) == Pieces(aggregate)

\* A broken aggregate is an error at once; the pieces before the break stay in the cache.
ReadAggregate ==
    /\ CacheEmpty /\ Head(incoming).type = "Aggregate"
    /\ msgs' = msgs \o Cached(Head(incoming))
    /\ errors' = errors + (IF Head(incoming).broken THEN 1 ELSE 0)
    /\ incoming' = Tail(incoming)
    /\ UNCHANGED <<returned, arrived>>

Read == ReadCached \/ ReadPlain \/ ReadAggregate

Next ==
    \/ \E type \in Types, timestamp \in Times :
           \/ ArrivePlain(type, timestamp)
           \/ \E times \in BoundedSeq(Times, MaxPieces), broken \in BOOLEAN :
                  ArriveAggregate(type, timestamp, times, broken)
    \/ ReadCached
    \/ ReadPlain
    \/ ReadAggregate

\* The user keeps calling srs_rtmp_read_packet(), after an error too.
Spec == Init /\ [][Next]_vars /\ WF_vars(Read)

------------------------------------------------------------------------------
\* Every variable keeps its type; no time gets negative, for it is returned unsigned.
TypeOK ==
    /\ arrived \in 0..MaxPackets /\ errors \in 0..MaxPackets
    /\ \A k \in 1..Len(msgs) : msgs[k].type \in Types /\ msgs[k].timestamp \in Nat
    /\ \A k \in 1..Len(returned) :
           returned[k].type \in Types /\ returned[k].timestamp \in Nat

Waiting(message) == IF message.type = "Aggregate" THEN message.pieces ELSE <<message>>
LastOf(message) == Waiting(message)[Len(Waiting(message))].id

\* The packets that follow the first n.
Following(packets, n) == \A k \in 1..Len(packets) : packets[k].id = n + k

\* The packets returned, those cached and those to be received are all packets, each
\* once and in order: neither the detour through the cache nor a broken aggregate loses,
\* repeats or reorders one.
PacketsInOrder ==
    LET n == Len(returned) + Len(msgs)
        before(k) == IF k = 1 THEN n ELSE LastOf(incoming[k - 1])
    IN  /\ Following(returned, 0) /\ Following(msgs, Len(returned))
        /\ \A k \in 1..Len(incoming) : Following(Waiting(incoming[k]), before(k))
        /\ before(Len(incoming) + 1) = arrived

\* A comment says "the aggregate message always use abs time": the audio and video
\* packets come with their time on the stream, those of an aggregate as far apart as
\* they are in it.  The exception is an aggregate that is older than its first piece: a
\* negative delta counts as not known, so each of its pieces is moved by its own, and all
\* of them come with the one time of the aggregate.
TimesAreKept ==
    \A k \in 1..Len(returned) :
        returned[k].type \in {"Audio", "Video"} =>
            returned[k].timestamp = IF returned[k].early THEN returned[k].brought
                                    ELSE returned[k].due

\* A user who keeps reading gets every packet, those before the break of a broken
\* aggregate too.
EverythingIsRead ==
    \A n \in 1..MaxPackets :
        arrived >= n ~> \E k \in 1..Len(returned) : returned[k].id = n
==============================================================================
