------------------------------- MODULE MCFlvFile -------------------------------
(* An FLV file that grows while it is read, for TLC. *)
EXTENDS FlvFile

\* Times at the border of the 31 bits (128 for base 4), a time of all 32, and a tag
\* without data.
MCTags ==
    { [type |-> Video, time |-> 255, data |-> <<5, 6>>],
      [type |-> Audio, time |-> 129, data |-> <<7>>],
      [type |-> Script, time |-> 1, data |-> <<8>>],
      [type |-> Audio, time |-> 2, data |-> << >>] }

MCGroups ==
    { <<[type |-> Script, time |-> 1, data |-> <<8>>],
        [type |-> Video, time |-> 255, data |-> <<5, 6>>]>> }
==============================================================================
