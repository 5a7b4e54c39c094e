-------------------------------- MODULE Packets --------------------------------
(***************************************************************************)
(* The packets of RTMP: SrsPacket and its kinds, from the endpoint that    *)
(* encodes one into a message to the endpoint that decodes the message.    *)
(*                                                                         *)
(* A kind of packet says three times what its payload is: in get_size(),   *)
(* which the payload is allocated by, in encode_packet(), and in decode(). *)
(* do_decode_message() chooses the kind from the message's type, from the  *)
(* command's name and, for a _result, from the request it answers.         *)
(***************************************************************************)
EXTENDS Amf0

CONSTANTS
    Names,          \* strings the user gives
    PropertyNames,  \* names of properties the user gives
    Numbers,        \* doubles, as eight bytes
    Integers4,      \* values of the integers of the protocol control packets
    MaxProperties   \* bound: properties of the user's object

VARIABLES
    properties,     \* of the object that the sender's user builds
    packet,         \* the packet that is sent
    message_type,   \* of its message
    payload,        \* of its message
    whole,          \* the payload has all that was encoded
    request,        \* what the receiver asked with the packet's transaction id
    received        \* what the receiver's do_decode_message() made of it

vars == <<properties, packet, message_type, payload, whole, request, received>>

(***************************************************************************)
(* Names: a string of one character each, since they are only compared.    *)
(***************************************************************************)
Commands ==
    <<"connect", "_result", "_error", "createStream", "closeStream", "releaseStream",
      "FCPublish", "FCUnpublish", "publish", "play", "pause", "onBWDone", "onStatus",
      "@setDataFrame", "onMetaData", "|RtmpSampleAccess", "live",
      "onSrsBandCheckStartPlayBytes", "onSrsBandCheckStartingPlayBytes",
      "onSrsBandCheckPlaying", "onSrsBandCheckStopPlayBytes",
      "onSrsBandCheckStoppedPlayBytes", "onSrsBandCheckStartPublishBytes",
      "onSrsBandCheckStartingPublishBytes", "onSrsBandCheckPublishing",
      "onSrsBandCheckStopPublishBytes", "onSrsBandCheckStoppedPublishBytes",
      "onSrsBandCheckFinished", "finalClientPacket">>
Name(command) == <<64 + CHOOSE i \in DOMAIN Commands: Commands[i] = command>>

IsNamed(value, commands) == \E c \in commands: value = Name(c)

ResponseNames == {"_result", "_error"}
FMLENames == {"releaseStream", "FCPublish", "FCUnpublish"}
MetadataNames == {"@setDataFrame", "onMetaData"}
BandwidthNames == {Commands[i]: i \in 18..29}
\* is_stop_play(), is_start_publish(), is_finish().
BandwidthWithData ==
    {"onSrsBandCheckStopPlayBytes", "onSrsBandCheckStartPublishBytes", "onSrsBandCheckFinished"}

\* Doubles of the constructors.
Minus1 == <<191, 240, 0, 0, 0, 0, 0, 0>>
Minus2 == <<192, 0, 0, 0, 0, 0, 0, 0>>
Zero == <<0, 0, 0, 0, 0, 0, 0, 0>>
One == <<63, 240, 0, 0, 0, 0, 0, 0>>

SrsPCUCFmsEvent0 == 26
SrcPCUCSetBufferLength == 3

(***************************************************************************)
(* The kinds and their fields.                                             *)
(***************************************************************************)
Command(kind, name, tid) == [kind |-> kind, command_name |-> Name(name), transaction_id |-> tid]
With(p, fields) == fields @@ p

ConnectApp(command_object, args) ==
    With(Command("ConnectApp", "connect", One), [command_object |-> command_object, args |-> args])
ConnectAppRes(tid, props, info) ==
    With(Command("ConnectAppRes", "_result", tid), [props |-> props, info |-> info])
Call(name, tid, command_object, arguments) ==
    With([Command("Call", "connect", tid) EXCEPT !.command_name = name],
         [command_object |-> command_object, arguments |-> arguments])
CallRes(tid, command_object, response) ==
    With(Command("CallRes", "_result", tid), [command_object |-> command_object, response |-> response])
CreateStream(tid) == Command("CreateStream", "createStream", tid)
CreateStreamRes(tid, stream_id) ==
    With(Command("CreateStreamRes", "_result", tid), [stream_id |-> stream_id])
CloseStream == Command("CloseStream", "closeStream", Zero)
FMLEStart(name, tid, stream_name) ==
    With(Command("FMLEStart", name, tid), [stream_name |-> stream_name])
FMLEStartRes(tid) == Command("FMLEStartRes", "_result", tid)
Publish(stream_name, type) ==
    With(Command("Publish", "publish", Zero), [stream_name |-> stream_name, type |-> type])
Pause(is_pause, time_ms) ==
    With(Command("Pause", "pause", Zero), [is_pause |-> is_pause, time_ms |-> time_ms])
Play(stream_name, start, duration, reset) ==
    With(Command("Play", "play", Zero),
         [stream_name |-> stream_name, start |-> start, duration |-> duration, reset |-> reset])
PlayRes(desc) == With(Command("PlayRes", "_result", Zero), [desc |-> desc])
OnBWDone == Command("OnBWDone", "onBWDone", Zero)
OnStatusCall(data) == With(Command("OnStatusCall", "onStatus", Zero), [data |-> data])
Bandwidth(name, data) == With(Command("Bandwidth", name, Zero), [data |-> data])
OnStatusData(data) == [kind |-> "OnStatusData", command_name |-> Name("onStatus"), data |-> data]
SampleAccess(video, audio) ==
    [kind |-> "SampleAccess", command_name |-> Name("|RtmpSampleAccess"),
     video_sample_access |-> video, audio_sample_access |-> audio]
OnMetaData(name, metadata) == [kind |-> "OnMetaData", name |-> Name(name), metadata |-> metadata]
Control(kind, value) == [kind |-> kind, value |-> value]
SetPeerBandwidth(bandwidth, type) ==
    [kind |-> "SetPeerBandwidth", bandwidth |-> bandwidth, type |-> type]
UserControl(event_type, event_data, extra_data) ==
    [kind |-> "UserControl", event_type |-> event_type, event_data |-> event_data,
     extra_data |-> extra_data]

(***************************************************************************)
(* get_size(), kind by kind: the values whose sizes are summed.            *)
(***************************************************************************)
Head2(p) == <<str(p.command_name), number(p.transaction_id)>>
Head3(p) == Append(Head2(p), null)
If(condition, any) == IF condition THEN <<any>> ELSE <<>>

SizeConnectApp(p) == Head2(p) \o <<p.command_object, p.args>>
SizeConnectAppRes(p) == Head2(p) \o <<p.props, p.info>>
SizeCall(p) == Head2(p) \o <<p.command_object, p.arguments>>
SizeCallRes(p) == Head2(p) \o <<p.command_object, p.response>>
SizeCreateStream(p) == Head3(p)
SizeCreateStreamRes(p) == Append(Head3(p), number(p.stream_id))
SizeFMLEStart(p) == Append(Head3(p), str(p.stream_name))
SizeFMLEStartRes(p) == Append(Head3(p), undefined)
SizePublish(p) == Head3(p) \o <<str(p.stream_name), str(p.type)>>

\* Mutant: the duration is only counted when it is not the default.
SizePlayShort(p) ==
    Append(Head3(p), str(p.stream_name))
        \o If(p.start # Minus2 \/ p.duration # Minus1 \/ ~p.reset, number(p.start))
        \o If(p.duration # Minus1, number(p.duration))
        \o If(~p.reset, boolean(p.reset))

SizePlay(p) ==
    Append(Head3(p), str(p.stream_name))
        \o If(p.start # Minus2 \/ p.duration # Minus1 \/ ~p.reset, number(p.start))
        \o If(p.duration # Minus1 \/ ~p.reset, number(p.duration))
        \o If(~p.reset, boolean(p.reset))

SizePlayRes(p) == Append(Head3(p), p.desc)
SizeOnBWDone(p) == Head3(p)
SizeOnStatusCall(p) == Append(Head3(p), p.data)
SizeBandwidth(p) == Append(Head3(p), p.data)
SizeOnStatusData(p) == <<str(p.command_name), p.data>>
SizeSampleAccess(p) == <<str(p.command_name), boolean(TRUE), boolean(TRUE)>>
SizeOnMetaData(p) == <<str(p.name), p.metadata>>
SizeUserControl(p) ==
    2 + (IF p.event_type = SrsPCUCFmsEvent0 THEN 1 ELSE 4)
      + (IF p.event_type = SrcPCUCSetBufferLength THEN 4 ELSE 0)

SizeParts(p) ==
    CASE p.kind = "ConnectApp" -> SizeConnectApp(p)
      [] p.kind = "ConnectAppRes" -> SizeConnectAppRes(p)
      [] p.kind = "Call" -> SizeCall(p)
      [] p.kind = "CallRes" -> SizeCallRes(p)
      [] p.kind = "CreateStream" -> SizeCreateStream(p)
      [] p.kind = "CreateStreamRes" -> SizeCreateStreamRes(p)
      [] p.kind = "FMLEStart" -> SizeFMLEStart(p)
      [] p.kind = "FMLEStartRes" -> SizeFMLEStartRes(p)
      [] p.kind = "Publish" -> SizePublish(p)
      [] p.kind = "Play" -> SizePlay(p)
      [] p.kind = "PlayRes" -> SizePlayRes(p)
      [] p.kind = "OnBWDone" -> SizeOnBWDone(p)
      [] p.kind = "OnStatusCall" -> SizeOnStatusCall(p)
      [] p.kind = "Bandwidth" -> SizeBandwidth(p)
      [] p.kind = "OnStatusData" -> SizeOnStatusData(p)
      [] p.kind = "SampleAccess" -> SizeSampleAccess(p)
      [] p.kind = "OnMetaData" -> SizeOnMetaData(p)

GetSize(p) ==
    CASE p.kind = "UserControl" -> SizeUserControl(p)
      [] p.kind \in {"SetWindowAckSize", "Acknowledgement", "SetChunkSize"} -> 4
      [] p.kind = "SetPeerBandwidth" -> 5
      [] OTHER -> FoldLeft(LAMBDA size, any: size + SizeAny(any), 0, SizeParts(p))

(***************************************************************************)
(* encode_packet(), kind by kind: the values that are written.             *)
(***************************************************************************)
EncodeConnectApp(p) == Head2(p) \o <<p.command_object, p.args>>
EncodeConnectAppRes(p) == Head2(p) \o <<p.props, p.info>>
EncodeCall(p) == Head2(p) \o <<p.command_object, p.arguments>>
EncodeCallRes(p) == Head2(p) \o <<p.command_object, p.response>>
EncodeCreateStream(p) == Head3(p)
EncodeCreateStreamRes(p) == Append(Head3(p), number(p.stream_id))
EncodeFMLEStart(p) == Append(Head3(p), str(p.stream_name))
EncodeFMLEStartRes(p) == Append(Head3(p), undefined)
EncodePublish(p) == Head3(p) \o <<str(p.stream_name), str(p.type)>>

\* Mutant: the start is left out where only the duration is given.
EncodePlayNoStart(p) ==
    Append(Head3(p), str(p.stream_name))
        \o If(p.start # Minus2 \/ ~p.reset, number(p.start))
        \o If(p.duration # Minus1 \/ ~p.reset, number(p.duration))
        \o If(~p.reset, boolean(p.reset))

EncodePlay(p) ==
    Append(Head3(p), str(p.stream_name))
        \o If(p.start # Minus2 \/ p.duration # Minus1 \/ ~p.reset, number(p.start))
        \o If(p.duration # Minus1 \/ ~p.reset, number(p.duration))
        \o If(~p.reset, boolean(p.reset))

EncodePlayRes(p) == Append(Head3(p), p.desc)
EncodeOnBWDone(p) == Head3(p)
EncodeOnStatusCall(p) == Append(Head3(p), p.data)
EncodeBandwidth(p) == Append(Head3(p), p.data)
EncodeOnStatusData(p) == <<str(p.command_name), p.data>>
EncodeSampleAccess(p) ==
    <<str(p.command_name), boolean(p.video_sample_access), boolean(p.audio_sample_access)>>
EncodeOnMetaData(p) == <<str(p.name), p.metadata>>
EncodeSetPeerBandwidth(p) == Bytes(p.bandwidth, 4) \o Bytes(p.type, 1)
EncodeUserControl(p) ==
    Bytes(p.event_type, 2)
      \o Bytes(p.event_data, IF p.event_type = SrsPCUCFmsEvent0 THEN 1 ELSE 4)
      \o (IF p.event_type = SrcPCUCSetBufferLength THEN Bytes(p.extra_data, 4) ELSE <<>>)

EncodeParts(p) ==
    CASE p.kind = "ConnectApp" -> EncodeConnectApp(p)
      [] p.kind = "ConnectAppRes" -> EncodeConnectAppRes(p)
      [] p.kind = "Call" -> EncodeCall(p)
      [] p.kind = "CallRes" -> EncodeCallRes(p)
      [] p.kind = "CreateStream" -> EncodeCreateStream(p)
      [] p.kind = "CreateStreamRes" -> EncodeCreateStreamRes(p)
      [] p.kind = "FMLEStart" -> EncodeFMLEStart(p)
      [] p.kind = "FMLEStartRes" -> EncodeFMLEStartRes(p)
      [] p.kind = "Publish" -> EncodePublish(p)
      [] p.kind = "Play" -> EncodePlay(p)
      [] p.kind = "PlayRes" -> EncodePlayRes(p)
      [] p.kind = "OnBWDone" -> EncodeOnBWDone(p)
      [] p.kind = "OnStatusCall" -> EncodeOnStatusCall(p)
      [] p.kind = "Bandwidth" -> EncodeBandwidth(p)
      [] p.kind = "OnStatusData" -> EncodeOnStatusData(p)
      [] p.kind = "SampleAccess" -> EncodeSampleAccess(p)
      [] p.kind = "OnMetaData" -> EncodeOnMetaData(p)

WriteAll(parts) == FoldLeft(LAMBDA bytes, any: bytes \o Write(any), <<>>, parts)

EncodePacket(p) ==
    CASE p.kind = "UserControl" -> EncodeUserControl(p)
      [] p.kind \in {"SetWindowAckSize", "Acknowledgement", "SetChunkSize"} -> Bytes(p.value, 4)
      [] p.kind = "SetPeerBandwidth" -> EncodeSetPeerBandwidth(p)
      [] OTHER -> WriteAll(EncodeParts(p))

MessageType(p) ==
    CASE p.kind \in {"OnStatusData", "SampleAccess", "OnMetaData"} -> "AMF0Data"
      [] p.kind \in {"SetWindowAckSize", "Acknowledgement", "SetChunkSize", "SetPeerBandwidth",
                     "UserControl"} -> p.kind
      [] OTHER -> "AMF0Command"

(***************************************************************************)
(* decode(), kind by kind: what its constructor gives, the fields in the   *)
(* order they are read, and the names that are accepted.                   *)
(***************************************************************************)
Must(field, marker) == [field |-> field, marker |-> marker, optional |-> FALSE, after |-> {}]
May(field, marker) == [Must(field, marker) EXCEPT !.optional = TRUE]
Skip(marker) == Must("", marker)
\* A field that only follows some of the names.
Only(names, f) == [f EXCEPT !.after = names]

AnyName == {}
Decoder(new, names, fields) == [new |-> new, names |-> names, fields |-> fields]
CommandDecoder(new, names, fields) ==
    Decoder(new, names,
            <<Must("command_name", String), Must("transaction_id", Number)>> \o fields)

NameField(p) == IF p.kind = "OnMetaData" THEN p.name ELSE p.command_name

Store(p, f, any) ==
    IF f.field = "" THEN p
    ELSE IF f.marker = String /\ any = str(<<>>) THEN p     \* an empty string is not assigned
    ELSE IF f.marker \in {AnyMarker, Object} THEN [p EXCEPT ![f.field] = any]
    ELSE [p EXCEPT ![f.field] = any[2]]

ReadField(so_far, f) ==
    IF \/ ~so_far.ok
       \/ f.optional /\ so_far.rest = <<>>
       \/ f.after # {} /\ ~IsNamed(NameField(so_far.value), f.after)
    THEN so_far
    ELSE LET any == ReadMarked[f.marker, so_far.rest]
         IN  IF any.ok THEN Got(Store(so_far.value, f, any.value), any.rest) ELSE Failed

ReadFields(new, bytes, fields) ==
    LET read[i \in 0..Len(fields)] ==
            IF i = 0 THEN Got(new, bytes) ELSE ReadField(read[i - 1], fields[i])
    IN  read[Len(fields)]

Error == [kind |-> "error"]     \* decode() fails

DecodeConnectApp ==
    CommandDecoder(ConnectApp(object(<<>>), NULL), {"connect"},
                   <<Must("command_object", Object), May("args", AnyMarker)>>)
DecodeConnectAppRes ==
    CommandDecoder(ConnectAppRes(One, object(<<>>), object(<<>>)), {"_result"},
                   <<Must("props", Object), Must("info", Object)>>)
DecodeCall ==
    CommandDecoder(Call(<<>>, Zero, NULL, NULL), AnyName,
                   <<Must("command_object", AnyMarker), May("arguments", AnyMarker)>>)
DecodeCreateStream ==
    CommandDecoder(CreateStream(Zero), {"createStream"}, <<Skip(Null)>>)

\* Mutant: the null before the stream is taken for any value.
DecodeCreateStreamResLoose ==
    CommandDecoder(CreateStreamRes(Zero, Zero), {"_result"},
                   <<Skip(AnyMarker), May("stream_id", Number)>>)

DecodeCreateStreamRes ==
    CommandDecoder(CreateStreamRes(Zero, Zero), {"_result"},
                   <<Skip(Null), Must("stream_id", Number)>>)

DecodeCloseStream == CommandDecoder(CloseStream, AnyName, <<Skip(Null)>>)
DecodeFMLEStart ==
    CommandDecoder(FMLEStart("releaseStream", Zero, <<>>), FMLENames,
                   <<Skip(Null), Must("stream_name", String)>>)
DecodeFMLEStartRes ==
    CommandDecoder(FMLEStartRes(Zero), {"_result"}, <<Skip(Null), Skip(Undefined)>>)
DecodePublish ==
    CommandDecoder(Publish(<<>>, Name("live")), {"publish"},
                   <<Skip(Null), Must("stream_name", String), May("type", String)>>)
DecodePause ==
    CommandDecoder(Pause(TRUE, Zero), {"pause"},
                   <<Skip(Null), Must("is_pause", Boolean), Must("time_ms", Number)>>)
DecodePlay ==
    CommandDecoder(Play(<<>>, Minus2, Minus1, boolean(TRUE)), {"play"},
                   <<Skip(Null), Must("stream_name", String), May("start", Number),
                     May("duration", Number), May("reset", AnyMarker)>>)
DecodeBandwidth ==
    CommandDecoder(Bandwidth("onStatus", object(<<>>)), AnyName,
                   <<Skip(Null), Only(BandwidthWithData, Must("data", Object))>>)
DecodeOnMetaData ==
    Decoder(OnMetaData("onMetaData", object(<<>>)), AnyName,
            <<Must("name", String), Only({"@setDataFrame"}, Must("name", String)),
              Must("metadata", AnyMarker)>>)
DecodeControl(kind, bytes) ==
    IF Len(bytes) >= 4 THEN Control(kind, Signed[SubSeq(bytes, 1, 4)]) ELSE Error
DecodeUserControl(bytes) ==
    LET event_type == Signed[SubSeq(bytes, 1, 2)]
        size == IF event_type = SrsPCUCFmsEvent0 THEN 1 ELSE 4
        extra == IF event_type = SrcPCUCSetBufferLength THEN 4 ELSE 0
    IN  IF Len(bytes) < 2 \/ Len(bytes) < 2 + size + extra THEN Error
        ELSE UserControl(event_type, Signed[SubSeq(bytes, 3, 2 + size)],
                 IF extra = 0 THEN 0 ELSE Signed[SubSeq(bytes, 3 + size, 2 + size + extra)])

\* What decode() does with a field once it is read: arguments of connect that are no object
\* are freed, reset may be a number, an array of metadata becomes an object, and metadata of
\* another type is left aside.
Converted(p, new) ==
    CASE p.kind = "ConnectApp" -> IF is_object(p.args) THEN p ELSE [p EXCEPT !.args = NULL]
      [] p.kind = "Call" -> IF p.command_name = <<>> THEN Error ELSE p
      [] p.kind = "Play" ->
            CASE p.reset[1] = Boolean -> [p EXCEPT !.reset = p.reset[2]]
              [] p.reset[1] = Number -> [p EXCEPT !.reset = p.reset[2] # Zero]
              [] OTHER -> Error
      [] p.kind = "OnMetaData" ->
            CASE is_object(p.metadata) -> p
              [] p.metadata[1] = EcmaArray -> [p EXCEPT !.metadata = EcmaArrayToObject(p.metadata)]
              [] OTHER -> [p EXCEPT !.metadata = new.metadata]
      [] OTHER -> p

\* The packet that decode() is called on, or what do_decode_message() returns without.
Returns(p) == Decoder(p, AnyName, <<>>)
Dropped == [kind |-> "SrsPacket"]       \* the packet that carries nothing
Ignored == [kind |-> "NULL"]            \* no packet at all

\* do_decode_message() of a command or data, where asked is what was asked with its
\* transaction id.
DecodeCommand(type, bytes, asked) ==
    LET command == ReadMarked[String, bytes]
        name == IF command.ok THEN command.value[2] ELSE <<>>
    IN CASE ~command.ok -> Returns(Error)
         [] IsNamed(name, ResponseNames) ->
                CASE ~ReadMarked[Number, command.rest].ok -> Returns(Error)
                  [] asked = "connect" -> DecodeConnectAppRes
                  [] asked = "createStream" -> DecodeCreateStreamRes
                  [] asked \in FMLENames -> DecodeFMLEStartRes
                  [] OTHER -> Returns(Error)            \* ERROR_RTMP_NO_REQUEST
         [] IsNamed(name, {"connect"}) -> DecodeConnectApp
         [] IsNamed(name, {"createStream"}) -> DecodeCreateStream
         [] IsNamed(name, {"play"}) -> DecodePlay
         [] IsNamed(name, {"pause"}) -> DecodePause
         [] IsNamed(name, FMLENames) -> DecodeFMLEStart
         [] IsNamed(name, {"publish"}) -> DecodePublish
         [] IsNamed(name, MetadataNames) -> DecodeOnMetaData
         [] IsNamed(name, BandwidthNames) -> DecodeBandwidth
         [] IsNamed(name, {"closeStream"}) -> DecodeCloseStream
         [] type \in {"AMF0Command", "AMF3Command"} -> DecodeCall
         [] OTHER -> Returns(Dropped)

DoDecodeMessage(type, bytes, asked) ==
    CASE type \in {"AMF0Command", "AMF0Data", "AMF3Command", "AMF3Data"} ->
            DecodeCommand(type, bytes, asked)
      [] type = "UserControl" -> Returns(DecodeUserControl(bytes))
      [] type \in {"SetWindowAckSize", "SetChunkSize"} -> Returns(DecodeControl(type, bytes))
      [] OTHER -> Returns(Ignored)

\* A command of AMF3 begins with a byte that is skipped.
Body(type, bytes) == IF type = "AMF3Command" /\ bytes # <<>> THEN Tail(bytes) ELSE bytes

Accepted(decoder, read) ==
    IF ~read.ok THEN Error
    ELSE IF decoder.names # AnyName /\ ~IsNamed(read.value.command_name, decoder.names) THEN Error
    ELSE Converted(read.value, decoder.new)

(***************************************************************************)
(* Both endpoints.                                                         *)
(***************************************************************************)
None == [kind |-> "none"]
user_object == object(properties)

\* What the user puts into an object: one value of each marker, nested ones too.
UserValues ==
    {number(n): n \in Numbers} \union {str(s): s \in Names} \union
    {boolean(TRUE), null, undefined, object(<<<<Name("live"), number(One)>>>>), object(<<>>),
     date(Zero, <<0, 0>>),
     EcmaArraySet(ecma_array(<<>>, 0), Name("live"), str(<<>>)),
     StrictArrayAppend(StrictArrayAppend(strict_array(<<>>, 0), number(Zero)), boolean(FALSE))}

\* What the endpoints of this library send, with an object of the user's and without.
ObjectPackets ==
    {ConnectApp(user_object, args): args \in {NULL, user_object}} \union
    {ConnectAppRes(One, object(<<>>), user_object), PlayRes(user_object),
     OnStatusCall(user_object), OnStatusData(user_object), OnMetaData("onMetaData", user_object),
     Call(Name("onStatus"), Zero, user_object, NULL),
     Call(Name("onStatus"), Zero, null, user_object),
     CallRes(One, user_object, user_object)} \union
    {Bandwidth(name, user_object): name \in BandwidthNames}

PlainPackets ==
    {Call(Name("onStatus"), Zero, null, NULL), CallRes(One, null, number(One)), OnBWDone,
     SampleAccess(TRUE, FALSE)} \union
    {CreateStream(tid): tid \in Numbers} \union
    {CreateStreamRes(tid, id): tid \in Numbers, id \in Numbers} \union
    {FMLEStart(name, tid, stream): name \in FMLENames, tid \in Numbers, stream \in Names} \union
    {FMLEStartRes(tid): tid \in Numbers} \union
    {Publish(stream, type): stream \in Names, type \in {Name("live"), <<>>}} \union
    {Play(stream, start, duration, reset): stream \in Names, start \in {Minus2, Zero},
        duration \in {Minus1, One}, reset \in BOOLEAN} \union
    {Control(kind, value): kind \in {"SetWindowAckSize", "Acknowledgement", "SetChunkSize"},
        value \in Integers4} \union
    {SetPeerBandwidth(value, 2): value \in Integers4} \union
    {UserControl(event, value, extra): event \in {0, SrcPCUCSetBufferLength}, value \in Integers4,
        extra \in Integers4} \union
    {UserControl(SrsPCUCFmsEvent0, value, 0): value \in {0, 1}}

\* What only other clients send: the packet it stands for, and the values it is made of.
Foreign(p, type, parts) == [packet |-> p, type |-> type, parts |-> parts]
ForeignMessages ==
    {Foreign(CloseStream, "AMF0Command", Head3(CloseStream)),
     Foreign(ConnectApp(user_object, NULL), "AMF0Command",
             EncodeConnectApp(ConnectApp(user_object, str(Name("live"))))),
     Foreign(OnMetaData("onMetaData", user_object), "AMF0Data",
             <<str(Name("@setDataFrame")), str(Name("onMetaData")),
               ecma_array(properties, Len(properties))>>),
     Foreign(Publish(Name("live"), Name("live")), "AMF0Command",
             Append(Head3(Publish(<<>>, <<>>)), str(Name("live"))))} \union
    {Foreign(Pause(b, n), "AMF0Command", Head3(Pause(b, n)) \o <<boolean(b), number(n)>>):
        b \in BOOLEAN, n \in Numbers} \union
    {Foreign(p, "AMF3Command", EncodeParts(p)):
        p \in {CreateStream(One), Play(Name("live"), Zero, One, FALSE), CreateStreamRes(One, One)}}

SetUserProperty ==
    /\ packet = None
    /\ \E name \in PropertyNames, value \in UserValues \union {NULL}:
          properties' = SetProperty(properties, name, value)
    /\ Len(properties') <= MaxProperties
    /\ UNCHANGED <<packet, message_type, payload, whole, request, received>>

\* SrsPacket::encode(): what is written past the payload fails, what is not written is
\* whatever was there.
Encode ==
    /\ packet = None
    /\ \E p \in ObjectPackets \union (IF properties = <<>> THEN PlainPackets ELSE {}):
          LET bytes == EncodePacket(p)
              size == GetSize(p)
          IN  /\ packet' = p
              /\ message_type' = MessageType(p)
              /\ payload' = IF Len(bytes) > size THEN <<>>
                            ELSE bytes \o [i \in 1..size - Len(bytes) |-> 0]
    /\ UNCHANGED <<properties, whole, request, received>>

EncodeForeign ==
    /\ packet = None
    /\ \E m \in ForeignMessages:
          /\ packet' = m.packet /\ message_type' = m.type
          \* An AMF3 command begins with a byte that is skipped.
          /\ payload' = (IF m.type = "AMF3Command" THEN <<0>> ELSE <<>>) \o WriteAll(m.parts)
    /\ UNCHANGED <<properties, whole, request, received>>

\* A peer that says less: the payload ends earlier.
EndEarlier ==
    /\ packet # None /\ received = None /\ whole
    /\ Len(properties) < MaxProperties     \* bound
    /\ \E n \in 0..Len(payload) - 1: payload' = SubSeq(payload, 1, n)
    /\ whole' = FALSE
    /\ UNCHANGED <<properties, packet, message_type, request, received>>

Requests == {"connect", "createStream", "releaseStream", "call", "none"}
ResponseKinds == {"ConnectAppRes", "CreateStreamRes", "FMLEStartRes", "PlayRes", "CallRes"}

Decode ==
    /\ packet # None /\ received = None
    /\ \E asked \in IF packet.kind \in ResponseKinds THEN Requests ELSE {"none"}:
          /\ request' = asked
          /\ \E bytes \in {Body(message_type, payload)}:
             \E decoder \in {DoDecodeMessage(message_type, bytes, asked)}:
             \E read \in {ReadFields(decoder.new, bytes, decoder.fields)}:
                received' = Accepted(decoder, read)
    /\ UNCHANGED <<properties, packet, message_type, payload, whole>>

\* The next packet.
Again ==
    /\ received # None
    /\ packet' = None /\ message_type' = "" /\ payload' = <<>> /\ whole' = TRUE
    /\ request' = "none" /\ received' = None
    /\ UNCHANGED properties

Init ==
    /\ properties = <<>>
    /\ packet = None /\ message_type = "" /\ payload = <<>> /\ whole = TRUE
    /\ request = "none" /\ received = None

Next == SetUserProperty \/ Encode \/ EncodeForeign \/ EndEarlier \/ Decode \/ Again

Spec == Init /\ [][Next]_vars

(***************************************************************************)
(* Properties.                                                             *)
(***************************************************************************)
\* The payload that get_size() allocates is the one that encode_packet() fills: nothing is
\* written past it, and no byte of it is left as it was.
SizeAgreesWithEncoding == packet.kind \in {"none", "CloseStream", "Pause"}
                          \/ GetSize(packet) = Len(EncodePacket(packet))

\* A string whose length is an int16_t.
Short(value) == Len(value) < LengthBase^2 \div 2
AllShort ==
    /\ \A i \in DOMAIN properties:
          /\ Short(properties[i][1])
          /\ properties[i][2][1] = String => Short(properties[i][2][2])
    /\ "stream_name" \in DOMAIN packet => Short(packet.stream_name)

\* The kind of packet that a request is answered with.
ResponseKind(asked) ==
    CASE asked = "connect" -> "ConnectAppRes"
      [] asked = "createStream" -> "CreateStreamRes"
      [] asked = "releaseStream" -> "FMLEStartRes"
      [] OTHER -> "none"

IsResponse == packet.kind \in {"ConnectAppRes", "CreateStreamRes", "FMLEStartRes"}

\* What a packet means to its receiver.
Meant ==
    CASE packet.kind = "OnStatusCall" -> Call(Name("onStatus"), Zero, null, packet.data)
      [] packet.kind = "OnBWDone" -> Call(Name("onBWDone"), Zero, null, NULL)
      [] packet.kind \in {"OnStatusData", "SampleAccess"} -> Dropped
      [] packet.kind \in {"Acknowledgement", "SetPeerBandwidth"} -> Ignored
      [] packet.kind = "Publish" ->
            [packet EXCEPT !.type = IF packet.type = <<>> THEN Name("live") ELSE packet.type]
      [] packet.kind = "Bandwidth" /\ ~IsNamed(packet.command_name, BandwidthWithData) ->
            [packet EXCEPT !.data = object(<<>>)]
      [] packet.kind = "UserControl" /\ packet.event_type # SrcPCUCSetBufferLength ->
            [packet EXCEPT !.extra_data = 0]
      [] OTHER -> packet

\* A packet that arrives whole is what was sent, every field and every property of its
\* objects in their order, when its strings are short enough: what decode() reads is what
\* encode_packet() writes, optional fields included, and do_decode_message() finds its kind.
ArrivesAsSent ==
    (received # None /\ whole /\ AllShort /\ packet.kind \notin {"CallRes", "PlayRes"}
        /\ (IsResponse => packet.kind = ResponseKind(request)))
    => received = Meant

\* The answer to one request is not decoded as the answer to another of a different kind, cut
\* short or not: a client that takes a _result for the wrong one sees an error.
AnotherAnswerIsRefused ==
    (received # None /\ IsResponse /\ packet.kind # ResponseKind(request)) => received = Error

\* What is left of a value that ends earlier: an object has the first of its properties, and
\* only the last of them may end earlier itself.
RECURSIVE BeginningOf(_, _)
BeginningOf(a, b) ==
    \/ a = b
    \/ /\ a[1] = b[1] /\ a[1] \in {Object, EcmaArray, StrictArray}
       /\ Len(a[2]) <= Len(b[2])
       /\ \A i \in DOMAIN a[2]:
             \/ a[2][i] = b[2][i]
             \/ /\ i = Len(a[2]) /\ a[1] # StrictArray
                /\ a[2][i][1] = b[2][i][1] /\ BeginningOf(a[2][i][2], b[2][i][2])

\* What the constructors give to the fields that may be left out.
Defaults == [args |-> NULL, arguments |-> NULL, type |-> Name("live"),
             start |-> Minus2, duration |-> Minus1, reset |-> TRUE]

\* A message that ends early is decoded only as a beginning of the packet: a field that has
\* arrived is as it was sent, and one that has not has its default or is the rest of an object.
EndsAtAField ==
    (received # None /\ ~whole /\ AllShort /\ received.kind = Meant.kind)
    => \A f \in DOMAIN received:
          \/ received[f] = Meant[f]
          \/ f \in DOMAIN Defaults /\ received[f] = Defaults[f]
          \/ f \in {"command_object", "args", "arguments", "props", "info", "data", "metadata"}
                /\ BeginningOf(received[f], Meant[f])
=============================================================================
