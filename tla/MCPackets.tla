------------------------------ MODULE MCPackets -------------------------------
(* SrsPacket and its kinds, for TLC. *)
EXTENDS Packets

\* A name, none, and one whose length is negative as an int16_t of base 8.
MCNames == {<<>>, <<33>>, [i \in 1..33 |-> 34]}

MCPropertyNames == {<<>>, <<33>>}

MCNumbers == {Zero, One}
===============================================================================
