------------------------------ MODULE MCTsStream -------------------------------
(* MPEG-TS over a line that loses, repeats and delays packets, for TLC. *)
EXTENDS TsStream

\* One packet; two, the first of which has the PCR, and a single byte to pad in the
\* second; four of unknown length.
MCMessages ==
    { [sid |-> "audio", length |-> 100, dts |-> 3, pts |-> 3, write_pcr |-> FALSE],
      [sid |-> "video", length |-> 162 + 183, dts |-> 9, pts |-> 9, write_pcr |-> TRUE],
      [sid |-> "video", length |-> 700, dts |-> 1, pts |-> 1, write_pcr |-> FALSE] }

MCCodecs ==
    { [video |-> "H264", audio |-> "AAC"], [video |-> "none", audio |-> "MP3"] }
==============================================================================
