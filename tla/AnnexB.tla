--------------------------------- MODULE AnnexB -------------------------------
(***************************************************************************)
(* The annexb byte stream of H.264: NAL units, each behind a start code    *)
(* N[00] 00 00 01.  SrsRawH264Stream::annexb_demux() takes the NAL unit at *)
(* pos off data, the bytes of an SrsStream, and goes behind it.            *)
(***************************************************************************)
EXTENDS Naturals, Sequences

\* n zeros and 00 00 01 are next.
IsStartCode(data, pos, n) ==
    /\ pos + n + 3 <= Len(data)
    /\ \A k \in 1..(n + 2) : data[pos + k] = 0
    /\ data[pos + n + 3] = 1

\* srs_avc_startswith_annexb() and the size it finds.
StartsWithAnnexb(data, pos) ==
    /\ pos < Len(data) /\ data[pos + 1] = 0
    /\ \E n \in 0..Len(data) : IsStartCode(data, pos, n)
StartCodeSize(data, pos) == 3 + CHOOSE n \in 0..Len(data) : IsStartCode(data, pos, n)

Least(set) == CHOOSE x \in set : \A y \in set : x <= y

\* Mutant: the search for the next start code stops a byte too soon.
EndsEarly(data, start) ==
    Least({end \in start..Len(data) : end + 1 >= Len(data) \/ StartsWithAnnexb(data, end)})

\* The next start code at start or behind it, or the end.
FrameEnd(data, start) ==
    Least({end \in start..Len(data) : end = Len(data) \/ StartsWithAnnexb(data, end)})

AnnexbDemux(data, pos) ==
    LET start == pos + StartCodeSize(data, pos)
        end == FrameEnd(data, start)
    IN  [frame |-> SubSeq(data, start + 1, end), pos |-> end]
==============================================================================
