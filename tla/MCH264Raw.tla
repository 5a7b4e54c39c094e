------------------------------- MODULE MCH264Raw ------------------------------
(***************************************************************************)
(* H264Raw with calls that hold parameter sets alone, in pairs, repeated   *)
(* and changed, frames alone, before and behind them, start codes of three *)
(* to five bytes, zeros in the NAL units, and what is no NAL unit.         *)
(***************************************************************************)
EXTENDS H264Raw

Unit(zeros, nal) == [zeros |-> zeros, nal |-> nal]
SPS(z, b) == Unit(z, <<103, 0, 0, b>>)
PPS(z, b) == Unit(z, <<104, b>>)
IDR == Unit(1, <<101, 0, 1>>)
NonIDR == Unit(0, <<65, 1>>)
Short == Unit(1, <<103, 2>>)
Gap == Unit(2, << >>)

MCBatches ==
    {[junk |-> << >>, units |-> units] : units \in
        {<<SPS(1, 2)>>, <<PPS(0, 2)>>, <<IDR>>, <<Short>>, <<SPS(1, 2), PPS(0, 2), IDR>>,
         <<PPS(2, 3), SPS(1, 2), NonIDR>>, <<IDR, SPS(0, 3), NonIDR>>, <<Gap, PPS(1, 2), IDR>>}}
    \cup {[junk |-> <<0, 1, 65>>, units |-> << >>]}
==============================================================================
