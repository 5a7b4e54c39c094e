---------------------------- MODULE MessageChannel ---------------------------
(***************************************************************************)
(* What one direction of an RTMP connection promises to its users: the     *)
(* messages handed to the sending SrsProtocol come out of the receiving    *)
(* one, each once, in order and unchanged.  A message is its number in the *)
(* order of sending.                                                       *)
(***************************************************************************)
EXTENDS Integers, Sequences

VARIABLES
    accepted,   \* how many messages the sender took
    received    \* the messages the receiver got, oldest first

channelVars == <<accepted, received>>

ChannelInit == accepted = 0 /\ received = << >>

Accept == accepted' = accepted + 1 /\ UNCHANGED received

Deliver ==
    /\ Len(received) < accepted
    /\ received' = Append(received, Len(received) + 1)
    /\ UNCHANGED accepted

ChannelSpec == ChannelInit /\ [][Accept \/ Deliver]_channelVars
==============================================================================
