----------------------------- MODULE MCRawPublishing ----------------------------
(***************************************************************************)
(* RawPublishing with the video of MCH264Raw, and audio of one and of two  *)
(* configurations, with frames that cannot be described, are cut, too      *)
(* short or no ADTS, and MP3.                                              *)
(***************************************************************************)
EXTENDS RawPublishing, MCH264Raw

Adts(object, index, channels, data) ==
    [kind |-> "frame", object |-> object, index |-> index, channels |-> channels, data |-> data]
Broken(kind) == [kind |-> kind]
LC(data) == Adts("LC", 4, 2, data)
Aac(sound_rate, frames) ==
    [sound_format |-> "AAC", sound_rate |-> sound_rate, frames |-> frames]

MCAudioCalls ==
    {Aac(44100, <<LC(1), LC(2)>>),
     Aac(5512, <<Adts("Reserved", 4, 2, 3), Broken("undersized")>>),
     Aac(5512, <<LC(4), Broken("cut")>>),
     Aac(44100, <<Adts("LC", 4, 1, 5), Broken("junk")>>),
     [sound_format |-> "MP3", sound_rate |-> 44100, frames |-> <<LC(6)>>]}
==============================================================================
