-------------------------------- MODULE H264Raw -------------------------------
(***************************************************************************)
(* srs_h264_write_raw_frames(): the NAL units of an annexb stream, given   *)
(* call by call, are published as RTMP video packets.  SPS and PPS are     *)
(* kept in the context and go out, as one sequence header, in front of the *)
(* next frame; the errors a live encoder causes all the time do not stop   *)
(* the rest of a call.                                                     *)
(*                                                                         *)
(* A write fails when the connection does, and then all the later ones,    *)
(* until the user connects again with the same context.                    *)
(***************************************************************************)
EXTENDS AnnexB, SequencesExt

CONSTANTS
    Batches,        \* what one call may give: NAL units, each behind a start code of
                    \* some zeros and 00 00 01, and bytes in front of the first one
    MaxCalls,       \* bound: calls
    MaxConnections  \* bound: connections the context is used for

ASSUME RawAssumption ==
    /\ \A b \in Batches : /\ b.junk \in Seq(Nat)
                          /\ b.units \in Seq([zeros : Nat, nal : Seq(Nat)])
                          /\ b.units # << >> <=> b.junk = << >>
    /\ MaxCalls \in Nat /\ MaxConnections \in Nat \ {0}

VARIABLES
    h264_sps, h264_pps,     \* the context's parameter sets
    h264_sps_changed, h264_pps_changed,
    h264_sps_pps_sent,
    h264_raw_stream,        \* the data of the last call, and the place in it
    error_code_return,      \* what the call returns at the end of the data
    wire,                   \* the video packets sent on this connection
    connected, connections,
    aborted,                \* an srs_assert() failed
    given,                  \* history: all the NAL units given
    demuxed,                \* history: how many of them the calls went through
    taken, written,         \* history: Len(given) and Len(wire) at the last call
    calls                   \* how many calls there were

context == <<h264_sps, h264_pps, h264_sps_changed, h264_pps_changed, h264_sps_pps_sent>>
history == <<given, taken, written, calls>>
vars == <<context, h264_raw_stream, error_code_return, wire, connected, connections,
          aborted, demuxed, history>>

\* The empty string: no parameter set.
None == << >>

Init ==
    /\ h264_sps = None /\ h264_pps = None
    /\ h264_sps_changed = FALSE /\ h264_pps_changed = FALSE
    /\ h264_sps_pps_sent = FALSE
    /\ h264_raw_stream = [data |-> << >>, pos |-> 0]
    /\ error_code_return = "ERROR_SUCCESS"
    /\ wire = << >> /\ connected = TRUE /\ connections = 1 /\ aborted = FALSE
    /\ given = << >> /\ demuxed = 0 /\ taken = 0 /\ written = 0 /\ calls = 0

\* The five bits of nal_unit_type: 7 is an SPS, 8 a PPS; every other NAL unit is
\* published as a frame.
NalUnitType(nal) == nal[1] % 32
IsSps(nal) == nal # << >> /\ NalUnitType(nal) = 7
IsPps(nal) == nal # << >> /\ NalUnitType(nal) = 8
IsFrame(nal) == nal # << >> /\ ~IsSps(nal) /\ ~IsPps(nal)

\* sps_demux(): an SPS of less than four bytes is taken for the empty string.
SpsDemux(nal) == IF Len(nal) < 4 THEN None ELSE nal

------------------------------------------------------------------------------
empty == h264_raw_stream.pos = Len(h264_raw_stream.data)
Returned == empty /\ ~aborted

Call(batch) ==
    /\ Returned /\ calls < MaxCalls
    /\ h264_raw_stream' =
         [data |-> batch.junk \o FlattenSeq(
             [k \in 1..Len(batch.units) |->
                [z \in 1..batch.units[k].zeros |-> 0] \o <<0, 0, 1>> \o batch.units[k].nal]),
          pos |-> 0]
    /\ error_code_return' = "ERROR_SUCCESS"
    /\ given' = given \o [k \in 1..Len(batch.units) |-> batch.units[k].nal]
    /\ taken' = Len(given) /\ written' = Len(wire) /\ calls' = calls + 1
    /\ UNCHANGED <<context, wire, connected, connections, aborted, demuxed>>

Prefixed == StartsWithAnnexb(h264_raw_stream.data, h264_raw_stream.pos)
demux == AnnexbDemux(h264_raw_stream.data, h264_raw_stream.pos)
frame == demux.frame
Demuxing == ~empty /\ ~aborted /\ Prefixed

\* Mutant: the last result is returned, not the last error.
GoOnForgetting(ret) ==
    /\ h264_raw_stream' = [h264_raw_stream EXCEPT !.pos = demux.pos]
    /\ error_code_return' = ret
    /\ demuxed' = demuxed + 1
    /\ UNCHANGED <<connections, aborted, history>>

\* The loop goes on behind success and behind an error it knows, which it keeps.
GoOn(ret) ==
    /\ h264_raw_stream' = [h264_raw_stream EXCEPT !.pos = demux.pos]
    /\ error_code_return' = IF ret = "ERROR_SUCCESS" THEN error_code_return ELSE ret
    /\ demuxed' = demuxed + 1
    /\ UNCHANGED <<connections, aborted, history>>

\* Any other error ends the call, and the next one starts with data of its own.
Fail(ret) ==
    /\ h264_raw_stream' = [h264_raw_stream EXCEPT !.pos = Len(h264_raw_stream.data)]
    /\ error_code_return' = ret
    /\ demuxed' = Len(given)
    /\ UNCHANGED <<connections, aborted, history>>

NoPrefix ==
    /\ ~empty /\ ~aborted /\ ~Prefixed
    /\ Fail("ERROR_H264_API_NO_PREFIXED")
    /\ UNCHANGED <<context, wire, connected>>

\* Nothing between two start codes.
EmptyFrame ==
    /\ Demuxing /\ frame = << >>
    /\ GoOn("ERROR_SUCCESS")
    /\ UNCHANGED <<context, wire, connected>>

WriteSps ==
    /\ Demuxing /\ IsSps(frame)
    /\ IF h264_sps = SpsDemux(frame)
       THEN /\ GoOn("ERROR_H264_DUPLICATED_SPS")
            /\ UNCHANGED context
       ELSE /\ GoOn("ERROR_SUCCESS")
            /\ h264_sps' = SpsDemux(frame) /\ h264_sps_changed' = TRUE
            /\ UNCHANGED <<h264_pps, h264_pps_changed, h264_sps_pps_sent>>
    /\ UNCHANGED <<wire, connected>>

WritePps ==
    /\ Demuxing /\ IsPps(frame)
    /\ IF h264_pps = frame
       THEN /\ GoOn("ERROR_H264_DUPLICATED_PPS")
            /\ UNCHANGED context
       ELSE /\ GoOn("ERROR_SUCCESS")
            /\ h264_pps' = frame /\ h264_pps_changed' = TRUE
            /\ UNCHANGED <<h264_sps, h264_sps_changed, h264_sps_pps_sent>>
    /\ UNCHANGED <<wire, connected>>

Changed == h264_sps_changed \/ h264_pps_changed

SequenceHeader == [type |-> "SequenceHeader", sps |-> h264_sps, pps |-> h264_pps]
Nalu == [type |-> "NALU", nal |-> frame]

\* What srs_write_h264_sps_pps() and srs_write_h264_ipb_frame() write for a frame.
Due ==
    (IF Changed THEN <<SequenceHeader>> ELSE << >>)
        \o (IF Changed \/ h264_sps_pps_sent THEN <<Nalu>> ELSE << >>)

SentNow == h264_sps_pps_sent \/ Changed

\* The first n packets due are written; the write behind them, if any, fails.
WriteFrame(n) ==
    /\ Demuxing /\ IsFrame(frame)
    /\ Changed => h264_sps # None
    /\ n \in 0..Len(Due) /\ (connected \/ n = 0)
    /\ wire' = wire \o SubSeq(Due, 1, n)
    /\ connected' = (connected /\ n = Len(Due))
    /\ IF n < Len(Due) THEN Fail("ERROR_SOCKET_WRITE")
       ELSE GoOn(IF Due = << >> THEN "ERROR_H264_DROP_BEFORE_SPS_PPS" ELSE "ERROR_SUCCESS")
    \* before the sequence header is written
    /\ h264_sps_changed' = FALSE /\ h264_pps_changed' = FALSE
    /\ h264_sps_pps_sent' = SentNow
    /\ UNCHANGED <<h264_sps, h264_pps>>

\* mux_sequence_header() asserts that the SPS has four bytes.
Abort ==
    /\ Demuxing /\ IsFrame(frame)
    /\ Changed /\ h264_sps = None
    /\ aborted' = TRUE
    /\ UNCHANGED <<context, h264_raw_stream, error_code_return, wire, connected,
                   connections, demuxed, history>>

\* srs_rtmp_handshake() and what follows it.
Reconnect ==
    /\ Returned /\ ~connected /\ connections < MaxConnections
    /\ connected' = TRUE /\ connections' = connections + 1 /\ wire' = << >>
    /\ taken' = Len(given) /\ written' = 0
    /\ UNCHANGED <<context, h264_raw_stream, error_code_return, aborted, demuxed, given, calls>>

Next ==
    \/ \E batch \in Batches : Call(batch)
    \/ NoPrefix
    \/ EmptyFrame
    \/ WriteSps
    \/ WritePps
    \/ \E n \in 0..2 : WriteFrame(n)
    \/ Abort
    \/ Reconnect

Spec == Init /\ [][Next]_vars

------------------------------------------------------------------------------
\* Every variable keeps its type; a parameter set the context holds went out in a
\* sequence header or is going to.
TypeOK ==
    /\ (h264_sps # None \/ h264_pps # None) =>
           h264_sps_pps_sent \/ h264_sps_changed \/ h264_pps_changed
    /\ h264_sps \in Seq(Nat) /\ h264_pps \in Seq(Nat)
    /\ h264_raw_stream.pos \in 0..Len(h264_raw_stream.data)
    /\ demuxed \in 0..Len(given) /\ taken \in 0..Len(given) /\ written \in Nat
    /\ calls \in 0..MaxCalls /\ connections \in 1..MaxConnections

\* A decoder, of NAL units and of video packets: the frames it shows, each with the
\* parameter sets it uses for it.
Decoder == [sps |-> None, pps |-> None, shown |-> << >>]

Show(d, nal) ==
    IF d.sps = None \/ d.pps = None THEN d
    ELSE [d EXCEPT !.shown = Append(@, <<nal, d.sps, d.pps>>)]

DecodeNal(d, nal) ==
    CASE IsSps(nal) -> [d EXCEPT !.sps = SpsDemux(nal)]
      [] IsPps(nal) -> [d EXCEPT !.pps = nal]
      [] IsFrame(nal) -> Show(d, nal)
      [] OTHER -> d

DecodePacket(d, packet) ==
    CASE packet.type = "SequenceHeader" ->
           [d EXCEPT !.sps = packet.sps, !.pps = packet.pps]
      [] packet.type = "NALU" -> Show(d, packet.nal)
      [] OTHER -> d

OfNals(nals) == FoldLeft(DecodeNal, Decoder, nals)
OfPackets(packets) == FoldLeft(DecodePacket, Decoder, packets)

\* No frame is given while only one of the parameter sets is known.
SetsInPairs ==
    \A k \in 1..Len(given) :
        IsFrame(given[k]) =>
            LET d == OfNals(SubSeq(given, 1, k)) IN (d.sps = None) = (d.pps = None)

\* A player that decodes the packets shows what a decoder of the annexb stream shows:
\* the same frames with the same parameter sets, whatever the start codes, however the
\* stream is divided into calls, repeats its parameter sets and changes one of them.  A
\* connection that failed leaves a beginning of it.
ShowsWhatWasGiven ==
    connections = 1 /\ SetsInPairs =>
        LET input == OfNals(SubSeq(given, 1, demuxed)).shown
        IN  IF connected THEN OfPackets(wire).shown = input
            ELSE IsPrefix(OfPackets(wire).shown, input)

\* A call that returns success has written every frame it was given, on this connection.
SuccessMeansWritten ==
    Returned /\ error_code_return = "ERROR_SUCCESS" =>
        LET frames == SelectSeq(SubSeq(given, taken + 1, Len(given)), IsFrame)
            nalus == SelectSeq(SubSeq(wire, written + 1, Len(wire)),
                               LAMBDA packet : packet.type = "NALU")
        IN  [k \in 1..Len(nalus) |-> nalus[k].nal] = frames

\* mux_sequence_header() asserts "(int)sps.length() >= 4" of the SPS it is given.
SpsAssertHolds == ~aborted
==============================================================================
