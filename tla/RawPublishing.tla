----------------------------- MODULE RawPublishing -----------------------------
(***************************************************************************)
(* srs_audio_write_raw_frame() beside srs_h264_write_raw_frames(), on one  *)
(* context and one connection.  The AAC frames come in ADTS, several in a  *)
(* call, and the first one decides the sequence header, which is kept in   *)
(* the context; audio of another format is published as it is.  The first  *)
(* error ends the call.                                                    *)
(***************************************************************************)
EXTENDS H264Raw

CONSTANTS
    AudioCalls,     \* what a call may give: the sound's format and rate, and frames
    MaxAudioCalls   \* bound: calls that give audio

AdtsKinds ==
    {"frame",       \* of an object type, a sampling frequency index, channels, and data
     "junk",        \* it does not begin with the syncword
     "cut",         \* there is less of it than its frame_length
     "undersized"}  \* its frame_length is less than the header's size

ASSUME AudioAssumption ==
    /\ \A call \in AudioCalls :
         /\ call.sound_format \in {"AAC", "MP3"}
         /\ call.sound_rate \in {5512, 11025, 22050, 44100}
         /\ \A k \in 1..Len(call.frames) :
              /\ call.frames[k].kind \in AdtsKinds
              /\ call.frames[k].kind # "frame" => k = Len(call.frames)
         /\ call.sound_format = "MP3" => Len(call.frames) = 1
    /\ MaxAudioCalls \in Nat

VARIABLES
    aac_specific_config,    \* the context's sequence header
    audio,                  \* the last call that gave audio
    aac_raw_stream,         \* what is left of its frames
    audio_ret,              \* what it returned
    sounded,                \* history: Len(wire) when it was made
    sounds                  \* history: all the calls that gave audio

audio_vars == <<aac_specific_config, audio, aac_raw_stream, audio_ret, sounded, sounds>>
all_vars == <<vars, audio_vars>>
video_vars == <<context, h264_raw_stream, error_code_return, connections, demuxed, history>>

RawInit ==
    /\ Init
    /\ aac_specific_config = None
    /\ audio = [sound_format |-> "MP3", sound_rate |-> 44100, frames |-> << >>]
    /\ aac_raw_stream = << >> /\ audio_ret = "ERROR_SUCCESS" /\ sounded = 0 /\ sounds = << >>

\* A user makes one call at a time.
Idle == Returned /\ aac_raw_stream = << >>

AudioCall(call) ==
    /\ Idle /\ Len(sounds) < MaxAudioCalls /\ Len(sounds) + calls < MaxCalls
    /\ audio' = call /\ aac_raw_stream' = call.frames /\ audio_ret' = "ERROR_SUCCESS"
    /\ sounded' = Len(wire) /\ sounds' = Append(sounds, call)
    /\ UNCHANGED <<aac_specific_config, wire, connected, aborted, video_vars>>

------------------------------------------------------------------------------
ThisFrame == Head(aac_raw_stream)
Next1(kind) == aac_raw_stream # << >> /\ ~aborted /\ ThisFrame.kind = kind

AudioFails(ret) ==
    /\ audio_ret' = ret /\ aac_raw_stream' = << >>
    /\ UNCHANGED <<audio, sounded, sounds, aborted, video_vars>>

\* adts_demux() and the test before the first frame.
NotAdts ==
    /\ Next1("junk") /\ AudioFails("ERROR_AAC_REQUIRED_ADTS")
    /\ UNCHANGED <<aac_specific_config, wire, connected>>

CutAdts ==
    /\ Next1("cut") /\ AudioFails("ERROR_AAC_ADTS_HEADER")
    /\ UNCHANGED <<aac_specific_config, wire, connected>>

\* SrsStream::require() asserts that it is asked for no negative size.
UndersizedAdts ==
    /\ Next1("undersized") /\ aborted' = TRUE
    /\ UNCHANGED <<wire, connected, audio_vars, video_vars>>

------------------------------------------------------------------------------
\* mux_sequence_header(): the user's sound rate overrides the frame's own, except 5512.
SamplingFrequencyIndex(adts, sound_rate) ==
    CASE sound_rate = 11025 -> 10
      [] sound_rate = 22050 -> 7
      [] sound_rate = 44100 -> 4
      [] OTHER -> adts.index

SpecificConfig(adts, sound_rate) ==
    <<adts.object, SamplingFrequencyIndex(adts, sound_rate), adts.channels>>

CanBeMuxed(adts, sound_rate) ==
    adts.object # "Reserved" /\ SamplingFrequencyIndex(adts, sound_rate) # 15

AudioHeader(config) == [type |-> "AudioSequenceHeader", config |-> config]
AudioRaw(adts) ==
    [type |-> "Audio", sound_format |-> audio.sound_format, data |-> adts.data]

NeedsConfig == audio.sound_format = "AAC" /\ aac_specific_config = None
Config == SpecificConfig(ThisFrame, audio.sound_rate)

CannotBeMuxed ==
    /\ Next1("frame") /\ NeedsConfig
    /\ ~CanBeMuxed(ThisFrame, audio.sound_rate)
    /\ AudioFails("ERROR_AAC_DATA_INVALID")
    /\ UNCHANGED <<aac_specific_config, wire, connected>>

\* Mutant: the sequence header goes out behind its frame.
HeaderBehind == <<AudioRaw(ThisFrame)>> \o (IF NeedsConfig THEN <<AudioHeader(Config)>> ELSE << >>)

AudioDue ==
    (IF NeedsConfig THEN <<AudioHeader(Config)>> ELSE << >>) \o <<AudioRaw(ThisFrame)>>

\* The first n packets due are written; the write behind them, if any, fails.
WriteAudioFrame(n) ==
    /\ Next1("frame")
    /\ NeedsConfig => CanBeMuxed(ThisFrame, audio.sound_rate)
    /\ n \in 0..Len(AudioDue) /\ (connected \/ n = 0)
    /\ wire' = wire \o SubSeq(AudioDue, 1, n)
    /\ connected' = (connected /\ n = Len(AudioDue))
    \* before the sequence header is written
    /\ aac_specific_config' = IF NeedsConfig THEN Config ELSE aac_specific_config
    /\ IF n < Len(AudioDue)
       THEN AudioFails("ERROR_SOCKET_WRITE")
       ELSE /\ aac_raw_stream' = Tail(aac_raw_stream)
            /\ UNCHANGED <<audio, audio_ret, sounded, sounds, aborted, video_vars>>

AudioStep ==
    \/ NotAdts \/ CutAdts \/ UndersizedAdts \/ CannotBeMuxed
    \/ \E n \in 0..2 : WriteAudioFrame(n)

VideoCall(batch) ==
    Idle /\ Len(sounds) + calls < MaxCalls /\ Call(batch) /\ UNCHANGED audio_vars

\* A step of srs_h264_write_raw_frames().
VideoStep ==
    \/ NoPrefix /\ UNCHANGED audio_vars
    \/ EmptyFrame /\ UNCHANGED audio_vars
    \/ WriteSps /\ UNCHANGED audio_vars
    \/ WritePps /\ UNCHANGED audio_vars
    \/ \E n \in 0..2 : WriteFrame(n) /\ UNCHANGED audio_vars
    \/ Abort /\ UNCHANGED audio_vars

ReconnectContext == Idle /\ Reconnect /\ UNCHANGED audio_vars

RawNext ==
    \/ \E call \in AudioCalls : AudioCall(call)
    \/ \E batch \in Batches : VideoCall(batch)
    \/ AudioStep
    \/ VideoStep
    \/ ReconnectContext

RawSpec == RawInit /\ [][RawNext]_all_vars

------------------------------------------------------------------------------
\* What a player that decodes the packets plays: an AAC frame with the configuration of the
\* last sequence header, if there was one, and any other sound without.
Played(packets) ==
    LET Play(p, packet) ==
          CASE packet.type = "AudioSequenceHeader" -> [p EXCEPT !.config = packet.config]
            [] packet.type = "Audio" /\ packet.sound_format # "AAC" ->
                 [p EXCEPT !.played = Append(@, <<packet.data, None>>)]
            [] packet.type = "Audio" /\ packet.sound_format = "AAC" /\ p.config # None ->
                 [p EXCEPT !.played = Append(@, <<packet.data, p.config>>)]
            [] OTHER -> p
    IN  FoldLeft(Play, [config |-> None, played |-> << >>], packets).played

\* The frames of a call, each with the configuration it is made for.
Frames(call) ==
    LET frames == SelectSeq(call.frames, LAMBDA f : f.kind = "frame")
    IN  [k \in 1..Len(frames) |->
           <<frames[k].data, IF call.sound_format = "AAC"
                             THEN SpecificConfig(frames[k], call.sound_rate) ELSE None>>]

OneConfiguration ==
    LET configs == UNION {{f[2] : f \in Range(Frames(sounds[i]))} : i \in 1..Len(sounds)}
    IN  \A c, d \in configs \ {None} : c = d

\* On the first connection of a context, and from an encoder that stays with one
\* configuration, a player plays the frames of a call in their order, each with the
\* configuration it was made for - a beginning of them when the call failed, and all of
\* them when it returned success - whatever earlier calls failed on, and whatever video
\* and sound of other formats is published in between on the same connection.
PlaysTheAudioGiven ==
    connections = 1 /\ OneConfiguration /\ sounds # << >> =>
        LET before == Len(Played(SubSeq(wire, 1, sounded)))
            all == Played(wire)
            now == SubSeq(all, before + 1, Len(all))
        IN  /\ IsPrefix(now, Frames(audio))
            /\ aac_raw_stream = << >> /\ audio_ret = "ERROR_SUCCESS" => now = Frames(audio)
==============================================================================
