-------------------------------- MODULE TsStream -------------------------------
(***************************************************************************)
(* MPEG-TS: SrsTsContext::encode() cuts messages into packets of 188       *)
(* bytes, with the tables in front of them whenever a codec changed, and   *)
(* SrsTsContext::decode(), at the other side, puts them together again,    *)
(* packet by packet.  What is between the two may lose a packet, give it   *)
(* twice or give it late, and the writer of the encoder may fail in the    *)
(* middle of a message.                                                    *)
(*                                                                         *)
(* The bytes of a message are told apart by where they come from: a piece  *)
(* is a range of the bytes of one message.  The sizes are those of the     *)
(* code; the length that is too large for PES_packet_length, the counter   *)
(* of four bits and the time of 33 bits are constants.                     *)
(***************************************************************************)
EXTENDS Integers, Sequences, FiniteSets, SequencesExt, FiniteSetsExt

CONSTANTS
    Messages,       \* what is encoded: [sid, length, dts, pts, write_pcr]
    Codecs,         \* the codecs it is encoded with: [video, audio]
    MaxLength,      \* what PES_packet_length can hold: 0xFFFF
    Counters,       \* how many values continuity_counter has: 16
    Times,          \* how many values a time has: 2^33
    MaxMessages,    \* bound: messages encoded
    MaxFaults       \* bound: packets lost, repeated or late, and failed writes

ASSUME TsAssumption ==
    /\ \A m \in Messages : /\ m.sid \in {"video", "audio"} /\ m.length \in Nat
                           /\ m.dts \in Nat /\ m.pts \in Nat /\ m.write_pcr \in BOOLEAN
    /\ \A c \in Codecs : c.video \in {"H264", "none"} /\ c.audio \in {"AAC", "MP3", "none"}
    /\ MaxLength \in Nat /\ Counters \in Nat \ {0} /\ Times \in Nat \ {0}
    /\ MaxMessages \in Nat /\ MaxFaults \in Nat

VARIABLES
    codecs,         \* the encoder's vcodec and acodec
    counter,        \* the encoder's channels: the next continuity_counter of a pid
    aborted,        \* an srs_assert() failed
    wire,           \* the packets on their way
    applies,        \* the decoder's channels: what a pid is for
    channel,        \* the decoder's channels: the message of a pid
    delivered,      \* history: what the handler was given
    given,          \* history: what was encoded
    faults,         \* history: how many packets were lost, repeated, late, unwritten
    tables_harmed,  \* history: one of these was a table
    lost            \* history: the counters of the PES packets lost or unwritten

encoder == <<codecs, counter, aborted>>
decoder == <<applies, channel>>
vars == <<encoder, wire, decoder, delivered, given, faults, tables_harmed, lost>>

PatPid == 0
PmtPid == 4097
VideoPid == 256
AacPid == 257
Mp3Pid == 258
EsPids == {VideoPid, AacPid, Mp3Pid}

NoCodecs == [video |-> "reserved", audio |-> "reserved"]

\* No message, or one without payload yet: fresh() is the same for both.
NoMessage == [sid |-> "none", dts |-> 0, pts |-> 0, length |-> 0, counter |-> 0,
              payload |-> << >>]

Init ==
    /\ codecs = NoCodecs /\ counter = [p \in {} |-> 0] /\ aborted = FALSE
    /\ wire = << >>
    /\ applies = [p \in {} |-> "reserved"] /\ channel = [p \in EsPids |-> NoMessage]
    /\ delivered = << >> /\ given = << >> /\ faults = 0
    /\ tables_harmed = FALSE /\ lost = {}

------------------------------------------------------------------------------
\* The encoder.

PacketSize == 188
PacketHeader == 4

AudioPid(audio) == IF audio = "AAC" THEN AacPid ELSE Mp3Pid

\* The elementary streams of the tables: the audio, and then the video.
Streams(c) ==
    (IF c.audio = "none" THEN << >> ELSE <<[pid |-> AudioPid(c.audio), apply |-> "audio"]>>)
    \o (IF c.video = "none" THEN << >> ELSE <<[pid |-> VideoPid, apply |-> "video"]>>)

\* create_pat(), create_pmt().
Pat == [kind |-> "PAT", pid |-> PatPid, programs |-> <<PmtPid>>]
Pmt(c) == [kind |-> "PMT", pid |-> PmtPid, streams |-> Streams(c)]

\* SrsTsAdaptationField::size(): length and flags, and the PCR.
AdaptationSize(pcr) == 2 + (IF pcr THEN 6 ELSE 0)

\* SrsTsPayloadPES::size(): the fixed header, the flags, one time or two.
TimesSize(m) == IF m.dts = m.pts THEN 5 ELSE 10
PesSize(m) == 6 + 3 + TimesSize(m)

\* The PCR goes with a message that asks for it and, without video, with all audio.
WritesPcr(m, c) == m.write_pcr \/ (c.video = "none" /\ m.sid = "audio")

\* The bytes in front of the payload of a message's first packet, and of the others.
FirstSize(m, c) ==
    PacketHeader + PesSize(m) + (IF WritesPcr(m, c) THEN AdaptationSize(TRUE) ELSE 0)

\* How much payload a packet takes.  One that would not be filled is padded: an
\* adaptation field that it has takes all of the stuffing; a new one has two bytes at
\* least, and the payload is cut once more when there was a single byte to fill.
Left(size, adapted, rest) ==
    IF rest >= PacketSize - size THEN PacketSize - size
    ELSE IF adapted THEN rest
    ELSE Min({rest, PacketSize - size - AdaptationSize(FALSE)})

\* PES_packet_length as it is written: zero when it does not fit.
PesLength(m) ==
    LET written == m.length + 3 + TimesSize(m) IN
    IF m.length > MaxLength \/ written > MaxLength THEN 0 ELSE written

\* The times as they are written: 33 bits of each.
PesHead(m) ==
    [sid |-> m.sid, length |-> PesLength(m), header |-> 3 + TimesSize(m),
     dts |-> m.dts % Times, pts |-> m.pts % Times]

\* The pieces the payload of message id is cut into, from an offset on.
Pieces(id, m, c) ==
    LET pieces[from \in 0..m.length] ==
            IF from = m.length THEN << >>
            ELSE LET taken == IF from = 0 THEN Left(FirstSize(m, c), WritesPcr(m, c), m.length)
                              ELSE Left(PacketHeader, FALSE, m.length - from)
                 IN  <<[id |-> id, from |-> from, length |-> taken]>> \o pieces[from + taken]
    IN  pieces[0]

\* create_pes_first() and create_pes_continue().
PesPackets(id, m, c, pid, cc) ==
    LET pieces == Pieces(id, m, c) IN
    [k \in 1..Len(pieces) |->
        [kind |-> "PES", pid |-> pid, unit_start |-> k = 1, counter |-> (cc + k - 1) % Counters,
         head |-> IF k = 1 THEN PesHead(m) ELSE << >>, piece |-> pieces[k]]]

\* Mutant: the tables are written once.
TablesOnce(c) == IF codecs = NoCodecs THEN <<Pat, Pmt(c)>> ELSE << >>

\* encode_pat_pmt(), when any codec changed.
Tables(c) == IF c # codecs THEN <<Pat, Pmt(c)>> ELSE << >>

HasStream(m, c) == IF m.sid = "audio" THEN c.audio # "none" ELSE c.video # "none"
PidOf(m, c) == IF m.sid = "audio" THEN AudioPid(c.audio) ELSE VideoPid

\* The pids that psi_encode() of the PMT puts into the encoder's own context.
Known(c) == DOMAIN counter \cup (IF c # codecs THEN {s.pid : s \in Range(Streams(c))} ELSE {})
CounterOf(pid) == IF pid \in DOMAIN counter THEN counter[pid] ELSE 0

\* An empty message is no packet, and neither is one whose stream is unknown.
IsWritten(m, c) == HasStream(m, c) /\ m.length > 0

Packets(m, c) ==
    Tables(c) \o IF IsWritten(m, c)
                 THEN PesPackets(Len(given) + 1, m, c, PidOf(m, c), CounterOf(PidOf(m, c)))
                 ELSE << >>

\* The first n of the packets are written; the write of the next one, when there is
\* one, fails.  The codecs are set before the tables are written, a pid is in the
\* context once the PMT is encoded, and the counter moves with the packet that is
\* not written.
EncodeUpTo(m, c, n) ==
    LET packets == Packets(m, c)
        counted == Max({0, Min({n + 1, Len(packets)}) - Len(Tables(c))})
        known == IF n > 0 THEN Known(c) ELSE DOMAIN counter
    IN  /\ codecs' = c
        /\ counter' = [p \in known |->
                         (CounterOf(p) + IF p = PidOf(m, c) THEN counted ELSE 0) % Counters]
        /\ wire' = wire \o SubSeq(packets, 1, n)
        /\ IF n < Len(packets)
           THEN /\ faults < MaxFaults
                /\ faults' = faults + 1
                /\ tables_harmed' = (tables_harmed \/ n < Len(Tables(c)))
                /\ lost' = IF n < Len(Tables(c)) THEN lost ELSE lost \cup {packets[n + 1].counter}
           ELSE UNCHANGED <<faults, tables_harmed, lost>>
        /\ given' = IF IsWritten(m, c)
                    THEN Append(given, [message |-> m, pid |-> PidOf(m, c)]) ELSE given

\* The context has no channel for the message: srs_assert().
Aborts(m, c) ==
    /\ IsWritten(m, c)
    /\ c = codecs /\ PidOf(m, c) \notin DOMAIN counter

Encode(m, c) ==
    /\ ~aborted /\ Len(given) < MaxMessages
    /\ c.video # "none" \/ c.audio # "none"
    /\ IF Aborts(m, c)
       THEN /\ aborted' = TRUE
            /\ UNCHANGED <<codecs, counter, wire, given, faults, tables_harmed, lost>>
       ELSE /\ \E n \in 0..Len(Packets(m, c)) : EncodeUpTo(m, c, n)
            /\ UNCHANGED aborted
    /\ UNCHANGED <<decoder, delivered>>

------------------------------------------------------------------------------
\* What is between the encoder and the decoder.

Harm(packet) ==
    /\ faults < MaxFaults
    /\ faults' = faults + 1
    /\ tables_harmed' = (tables_harmed \/ packet.kind # "PES")
    /\ UNCHANGED <<encoder, decoder, delivered, given>>

Lose ==
    \E i \in 1..Len(wire) :
       /\ wire' = RemoveAt(wire, i)
       /\ Harm(wire[i])
       /\ lost' = IF wire[i].kind = "PES" THEN lost \cup {wire[i].counter} ELSE lost

Repeat ==
    \E i \in 1..Len(wire) :
       /\ wire' = InsertAt(wire, i, wire[i])
       /\ Harm(wire[i])
       /\ UNCHANGED lost

\* A packet comes behind the one that follows it.
Delay ==
    \E i \in 1..Len(wire) - 1 :
       /\ wire' = [wire EXCEPT ![i] = wire[i + 1], ![i + 1] = wire[i]]
       /\ Harm(wire[i])
       /\ UNCHANGED lost

------------------------------------------------------------------------------
\* The decoder: a stream holds one packet, and decode() goes on while there is
\* something left of it.

packet == Head(wire)
message == channel[packet.pid]

Receive == wire # << >> /\ wire' = Tail(wire)

AppliesTo(pid) == IF pid \in DOMAIN applies THEN applies[pid] ELSE "reserved"

Apply(changes) ==
    applies' = [p \in DOMAIN applies \cup DOMAIN changes |->
                   IF p \in DOMAIN changes THEN changes[p] ELSE applies[p]]

ReceivePat ==
    /\ Receive /\ packet.kind = "PAT"
    /\ Apply([p \in Range(packet.programs) \cup {PatPid} |-> IF p = PatPid THEN "PAT" ELSE "PMT"])
    /\ UNCHANGED <<encoder, channel, delivered, given, faults, tables_harmed, lost>>

ReceivePmt ==
    /\ Receive /\ packet.kind = "PMT" /\ AppliesTo(packet.pid) = "PMT"
    /\ Apply([p \in {s.pid : s \in Range(packet.streams)} \cup {packet.pid} |->
                 IF p = packet.pid THEN "PMT"
                 ELSE (CHOOSE s \in Range(packet.streams) : s.pid = p).apply])
    /\ UNCHANGED <<encoder, channel, delivered, given, faults, tables_harmed, lost>>

IsPes == packet.kind = "PES" /\ AppliesTo(packet.pid) \in {"audio", "video"}

\* The left bytes of a packet nobody knows are skipped.
ReceiveUnknown ==
    /\ Receive
    /\ \/ packet.kind = "PMT" /\ AppliesTo(packet.pid) # "PMT"
       \/ packet.kind = "PES" /\ ~IsPes
    /\ UNCHANGED <<encoder, decoder, delivered, given, faults, tables_harmed, lost>>

Got(msg) == FoldLeft(LAMBDA sum, piece : sum + piece.length, 0, msg.payload)
Fresh(msg) == Got(msg) = 0
Completed(msg) == IF msg.length = 0 THEN packet.unit_start ELSE Got(msg) >= msg.length

\* A packet that starts a unit although the message is not complete: the message is
\* given up, and the packet is parsed again.
CutShort == ~Fresh(message) /\ message.length > 0 /\ ~Completed(message) /\ packet.unit_start

\* A counter that was seen, or is late, unless it wraps: the packet is dropped.
Late ==
    /\ ~Fresh(message) /\ ~CutShort
    /\ message.counter >= packet.counter
    /\ (message.counter + 1) % Counters > packet.counter

\* Mutant: the counter is not looked at.
NoGap == FALSE

\* The counter must follow the message's; otherwise, the message is given up, and the
\* packet is parsed again.
Gap ==
    /\ ~Fresh(message) /\ ~CutShort /\ ~Late
    /\ (message.counter + 1) % Counters # packet.counter

\* A message of unknown length ends where the next one starts; that packet is parsed
\* again.
Reaped == ~Fresh(message) /\ ~CutShort /\ ~Late /\ ~Gap /\ Completed(message)

\* The message the packet is parsed for, the last time it is parsed.
Again == IF CutShort \/ Gap \/ Reaped THEN NoMessage ELSE message

\* SrsTsMessage::dump(): no more than the length says.
Dump(msg) ==
    LET size == IF msg.length = 0 THEN packet.piece.length
                ELSE Min({packet.piece.length, msg.length - Got(msg)})
    IN  IF size > 0 THEN [msg EXCEPT !.payload = Append(@, [packet.piece EXCEPT !.length = size])]
        ELSE msg

\* The header of a packet that starts a unit, and the payload.
Parse(msg) ==
    LET counted == [msg EXCEPT !.counter = packet.counter] IN
    IF ~packet.unit_start THEN Dump(counted)
    ELSE Dump([counted EXCEPT
                  !.sid = packet.head.sid, !.dts = packet.head.dts, !.pts = packet.head.pts,
                  !.length = IF packet.head.length = 0 THEN @
                             ELSE Max({0, packet.head.length - packet.head.header})])

Put(msg, pieces) ==
    /\ channel' = [channel EXCEPT ![packet.pid] = msg]
    /\ delivered' = delivered \o pieces
    /\ UNCHANGED <<encoder, applies, given, faults, tables_harmed, lost>>

ReceiveLate ==
    /\ Receive /\ IsPes /\ Late
    /\ Put(message, << >>)

\* A message cannot begin with a packet that does not start a unit: an error.
ReceiveStray ==
    /\ Receive /\ IsPes /\ ~Late
    /\ Fresh(Again) /\ ~packet.unit_start
    /\ Put(NoMessage, IF Reaped THEN <<message>> ELSE << >>)

\* The message is complete by its length; one of unknown length never is.
ReceivePes ==
    /\ Receive /\ IsPes /\ ~Late
    /\ ~Fresh(Again) \/ packet.unit_start
    /\ LET parsed == Parse(Again)
           before == IF Reaped THEN <<message>> ELSE << >>
       IN  IF parsed.length > 0 /\ Got(parsed) >= parsed.length
           THEN Put(NoMessage, Append(before, parsed))
           ELSE Put(parsed, before)

------------------------------------------------------------------------------
Decode == ReceivePat \/ ReceivePmt \/ ReceiveUnknown \/ ReceiveLate \/ ReceiveStray \/ ReceivePes

Next ==
    \/ \E m \in Messages, c \in Codecs : Encode(m, c)
    \/ Lose \/ Repeat \/ Delay
    \/ Decode

Spec == Init /\ [][Next]_vars

------------------------------------------------------------------------------
\* The given message that a delivered one is, whole and unchanged.
Is(msg, k) ==
    LET m == given[k].message IN
    /\ msg.payload # << >>
    /\ \A i \in 1..Len(msg.payload) :
          /\ msg.payload[i].id = k
          /\ msg.payload[i].from =
               IF i = 1 THEN 0 ELSE msg.payload[i - 1].from + msg.payload[i - 1].length
    /\ Got(msg) = m.length
    /\ msg.sid = m.sid /\ msg.dts = m.dts % Times /\ msg.pts = m.pts % Times

Unknown(k) == PesLength(given[k].message) = 0

\* What the handler is given is one of the messages, whole, whatever one fault does to
\* the packets: never a part of one, and never the parts of two.  The exception is a
\* message whose length is too large for its header, when the packet that was lost has
\* the last counter: the ones behind it are taken for late ones, until the counters
\* have gone round (SrsTsPayloadPES::decode()).
WholeOrNotAtAll ==
    \A i \in 1..Len(delivered) :
       \/ \E k \in 1..Len(given) : Is(delivered[i], k)
       \/ delivered[i].length = 0 /\ Counters - 1 \in lost

\* What is not there when all packets were received.
Missing == {k \in 1..Len(given) : \A i \in 1..Len(delivered) : ~Is(delivered[i], k)}
Awaited(k) == Unknown(k) /\ \A j \in k + 1..Len(given) : given[j].pid # given[k].pid

\* Without a fault everything arrives, but for the last message of unknown length; a
\* fault costs the messages of two packets at most, so long as the tables are there and
\* no message is of unknown length: the decoder is in step again where the next one starts.
\* (A message of unknown length only comes out when the next one starts, so that a fault in
\* that one, or none to follow, costs it too, and nothing is counted where there is one.)
FaultsCostLittle ==
    wire = << >> /\ ~tables_harmed =>
       /\ faults = 0 => \A k \in Missing : Awaited(k)
       /\ (\A k \in 1..Len(given) : ~Unknown(k)) => Cardinality(Missing) <= 2 * faults
==============================================================================
