------------------------------- MODULE Session -------------------------------
(***************************************************************************)
(* What a session promises to the two users of an RTMP connection: the     *)
(* client asks for streams, and the server serves what was asked, as the   *)
(* kind of client that asked, in that order, and nothing else.  A          *)
(* connection that ends leaves what was asked last unserved.               *)
(***************************************************************************)
EXTENDS Naturals, Sequences

CONSTANTS
    Kinds,      \* "play", "fmle" and "flash": what SrsRtmpConnType tells apart
    StreamNames

VARIABLES asked, served     \* sequences of [kind, name]

Streams == [kind : Kinds, name : StreamNames]

Init == asked = << >> /\ served = << >>

Ask ==
    /\ \E stream \in Streams : asked' = Append(asked, stream)
    /\ UNCHANGED served

Serve ==
    /\ Len(served) < Len(asked)
    /\ served' = Append(served, asked[Len(served) + 1])
    /\ UNCHANGED asked

Next == Ask \/ Serve

Spec == Init /\ [][Next]_<<asked, served>>
==============================================================================
