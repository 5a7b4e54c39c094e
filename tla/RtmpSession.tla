----------------------------- MODULE RtmpSession -----------------------------
(***************************************************************************)
(* SrsRtmpClient and SrsRtmpServer over the messages of one connection.    *)
(*                                                                         *)
(* Every call of theirs is a list of packets to send and packets to wait   *)
(* for, and each is one step here: plan[e] is what is left of the calls    *)
(* that endpoint e is in.  A wait is expect_message(): it decodes whatever *)
(* comes, drops what it does not wait for, and fails when decoding fails.  *)
(* What a _result answers is only known from the table of requests that    *)
(* on_send_packet() keeps by transaction id.                               *)
(*                                                                         *)
(* SrsRtmpServer's caller is not in this repository: the order in which it *)
(* makes the calls is marked external, as is the server of the bandwidth   *)
(* check.  SSL is not compiled in, so that the handshake is the simple one.*)
(***************************************************************************)
EXTENDS Integers, Sequences, SequencesExt

CONSTANTS
    StreamNames,
    StreamId,       \* the stream id the server gives
    UnpublishTid,   \* transaction id a client gives to its FCUnpublish
    Versions,       \* first byte of c0: 3 is plain RTMP
    MaxAsked,       \* bound: streams a client asks for
    MaxPublishing   \* bound: messages of the bandwidth check's publishing

ASSUME SessionAssumption ==
    /\ StreamId \in Nat \ {0} /\ UnpublishTid \in Nat /\ UnpublishTid \notin {1, 2, 4}
    /\ 3 \in Versions /\ MaxAsked \in Nat /\ MaxPublishing \in Nat

VARIABLES
    plan,           \* per endpoint, the steps that are left of its calls
    wire,           \* per endpoint, the messages on their way to it
    requests,       \* per endpoint, transaction id -> command it sent
    received,       \* per endpoint, the message its last wait returned
    stream_id,      \* per endpoint
    status,         \* per endpoint: "open", or why its calls failed
    phase,          \* what the client's user has got to
    called,         \* the client's user sent a call of its own
    lost,           \* the connection is gone
    asked, served   \* history: what the client asked for, and the server served

vars == <<plan, wire, requests, received, stream_id, status, phase, called, lost,
          asked, served>>

Endpoints == {"client", "server"}
Peer(e) == IF e = "client" THEN "server" ELSE "client"

(***************************************************************************)
(* Packets, and what a message is decoded to.                              *)
(***************************************************************************)
Message(command, tid, name, of, sid) ==
    [command |-> command,   \* its name, or its type when it is no command
     tid |-> tid, name |-> name,
     of |-> of,             \* of a _result: the command it answers
     sid |-> sid]           \* the stream id it travels on, or that it answers with

Commands == {"connect", "createStream", "releaseStream", "FCPublish", "FCUnpublish"}

\* The packet a _result is decoded to, by the command that was asked.
ResponseTo(command) ==
    CASE command = "connect" -> "ConnectAppRes"
      [] command = "createStream" -> "CreateStreamRes"
      [] command \in {"releaseStream", "FCPublish", "FCUnpublish"} -> "FMLEStartRes"
      [] OTHER -> "CallRes"

\* The packet any other message is decoded to.
PacketOf(command) ==
    CASE command = "connect" -> "ConnectApp"
      [] command = "createStream" -> "CreateStream"
      [] command \in {"releaseStream", "FCPublish", "FCUnpublish"} -> "FMLEStart"
      [] command = "publish" -> "Publish"
      [] command = "play" -> "Play"
      [] command \in {"call", "onStatus", "onFCPublish", "onFCUnpublish", "onBWDone"} -> "Call"
      [] command \in {"Acknowledgement", "SetPeerBandwidth"} -> "NULL"
      [] OTHER -> command

Errors == {"NO_REQUEST", "AMF0_DECODE"}

\* do_decode_message(): the layouts of the responses differ, so that the one of another
\* request is not decoded.
Decode(e, m) ==
    IF m.command # "_result" THEN PacketOf(m.command)
    ELSE IF m.tid \notin DOMAIN requests[e] THEN "NO_REQUEST"
    ELSE IF ResponseTo(requests[e][m.tid]) = ResponseTo(m.of) THEN ResponseTo(m.of)
    ELSE "AMF0_DECODE"

(***************************************************************************)
(* Steps of calls.                                                         *)
(***************************************************************************)
Request(command, tid, name) ==
    [do |-> "send", command |-> command, tid |-> tid, name |-> name, of |-> ""]
Send(command) == Request(command, 0, "")
Result(tid, of) == [do |-> "send", command |-> "_result", tid |-> tid, name |-> "", of |-> of]
Expect(packet) == [do |-> "expect", packet |-> packet]
Read(bytes) == [do |-> "read", packet |-> bytes]
Step(do) == [do |-> do]

\* SrsRtmpClient.
ClientHandshake(version) ==
    <<[Send("c0c1") EXCEPT !.tid = version], Read("s0s1s2"), Send("c2")>>
ConnectApp(app) ==
    <<Request("connect", 1, app), Send("SetWindowAckSize"), Expect("ConnectAppRes")>>
CreateStream == <<Request("createStream", 2, ""), Expect("CreateStreamRes")>>
Play(name) == <<Request("play", 0, name), Send("UserControl"), Send("SetChunkSize")>>
Publish(name) == <<Send("SetChunkSize"), Request("publish", 0, name)>>

\* Mutant: createStream with its usual transaction id, which releaseStream has.
FmlePublishSameTid(name) ==
    <<Request("releaseStream", 2, name), Request("FCPublish", 3, name),
      Request("createStream", 2, ""), Expect("CreateStreamRes"), Request("publish", 0, name)>>
\* Mutant: FCPublish is left out, as some clients do.
FmlePublishShort(name) ==
    <<Request("releaseStream", 2, name), Request("createStream", 4, ""),
      Expect("CreateStreamRes"), Request("publish", 0, name)>>

FmlePublish(name) ==
    <<Request("releaseStream", 2, name), Request("FCPublish", 3, name),
      Request("createStream", 4, ""), Expect("CreateStreamRes"), Request("publish", 0, name)>>

\* SrsBandwidthClient::bandwidth_check().
BandwidthCheck ==
    <<Expect("startPlay"), Send("startingPlay"), Expect("stopPlay"), Send("stoppedPlay"),
      Expect("startPublish"), Send("startingPublish"), Step("publishing"),
      Send("stopPublish"), Expect("stopPublish"), Send("stoppedPublish"),
      Expect("finished"), Send("final")>>

\* SrsRtmpServer.
ServerHandshake == <<Read("c0c1"), Send("s0s1s2"), Read("c2")>>
ResponseConnectApp == <<Result(1, "connect")>>
ResponseConnectReject == <<Send("onStatus")>>
StartPlay ==
    <<Send("UserControl"), Send("onStatus"), Send("onStatus"), Send("SampleAccess"),
      Send("onStatusData")>>
StartFmlePublish ==
    <<Expect("FMLEStart"), Step("reply"), Expect("CreateStream"), Step("reply"),
      Expect("Publish"), Send("onFCPublish"), Send("onStatus")>>
StartFlashPublish == <<Send("onStatus")>>
FmleUnpublish(tid) == <<Send("onFCUnpublish"), Result(tid, "FCUnpublish"), Send("onStatus")>>

\* The server's caller (external).
Accept ==
    <<Send("SetWindowAckSize"), Send("SetPeerBandwidth")>> \o ResponseConnectApp
        \o <<Send("onBWDone"), Step("identify")>>
Serving(kind, name) == [do |-> "serve", kind |-> kind, name |-> name]
ServerCheck(data) ==
    ResponseConnectApp
        \o <<Send("startPlay"), Expect("startingPlay"), Send("playing"), Send("stopPlay"),
             Expect("stoppedPlay"), Request("startPublish", 0, data),
             Expect("startingPublish"), Send("stopPublish"), Expect("stoppedPublish"),
             Send("finished"), Expect("final")>>

Init ==
    /\ plan = [e \in Endpoints |-> IF e = "server"
                                   THEN ServerHandshake \o <<Expect("ConnectApp"), Step("decide")>>
                                   ELSE << >>]
    /\ wire = [e \in Endpoints |-> << >>]
    /\ requests = [e \in Endpoints |-> << >>]
    /\ received = [e \in Endpoints |-> Message("", 0, "", "", 0)]
    /\ stream_id = [e \in Endpoints |-> IF e = "server" THEN StreamId ELSE 0]
    /\ status = [e \in Endpoints |-> "open"]
    /\ phase = "new" /\ called = FALSE /\ lost = FALSE
    /\ asked = << >> /\ served = << >>

Next1(e) == Head(plan[e])
In(e, do) == plan[e] # << >> /\ Next1(e).do = do
Advance(e) == plan' = [plan EXCEPT ![e] = Tail(@)]
Fail(e, why) ==
    /\ status' = [status EXCEPT ![e] = why]
    /\ plan' = [plan EXCEPT ![e] = << >>]

\* createStream is answered with a stream id, and a stream's commands travel on it; the
\* other packets do not depend on it.
StreamIdOf(e, command, of) ==
    IF command \in {"play", "publish"} \/ of = "createStream" THEN stream_id[e] ELSE 0

\* send_and_free_packet() with on_send_packet().
Write(e, command, tid, name, of) ==
    IF lost
    THEN Fail(e, "SOCKET_WRITE") /\ UNCHANGED <<wire, requests>>
    ELSE /\ Advance(e)
         /\ wire' = [wire EXCEPT ![Peer(e)] =
                        Append(@, Message(command, tid, name, of, StreamIdOf(e, command, of)))]
         /\ requests' = [requests EXCEPT ![e] =
                           IF command \in Commands
                           THEN [t \in DOMAIN @ \cup {tid} |-> IF t = tid THEN command ELSE @[t]]
                           ELSE @]
         /\ UNCHANGED status

SendPacket(e) ==
    /\ In(e, "send")
    /\ Write(e, Next1(e).command, Next1(e).tid, Next1(e).name, Next1(e).of)
    /\ UNCHANGED <<received, stream_id, phase, called, lost, asked, served>>

\* The result of the packet that the last wait returned.
SendReply(e) ==
    /\ In(e, "reply")
    /\ Write(e, "_result", received[e].tid, "", received[e].command)
    /\ UNCHANGED <<received, stream_id, phase, called, lost, asked, served>>

\* recv_message() fails when the other end is gone and its last message was read.
Waits(e) == plan[e] # << >> /\ Next1(e).do \in {"expect", "read", "identify", "level1"}
ReadFails(e) ==
    /\ Waits(e) /\ wire[e] = << >> /\ (lost \/ status[Peer(e)] # "open")
    /\ Fail(e, "SOCKET_READ")
    /\ UNCHANGED <<wire, requests, received, stream_id, phase, called, lost, asked, served>>

\* read_c0c1(), read_s0s1s2(), read_c2(): so many bytes; the first must be 3.
ReadBytes(e) ==
    /\ In(e, "read") /\ wire[e] # << >>
    /\ wire' = [wire EXCEPT ![e] = Tail(@)]
    /\ IF Head(wire[e]).command = "c0c1" /\ Head(wire[e]).tid # 3
       THEN Fail(e, "PLAIN_REQUIRED")
       ELSE Advance(e) /\ UNCHANGED status
    /\ UNCHANGED <<requests, received, stream_id, phase, called, lost, asked, served>>

\* Mutant: any response is the one that was waited for.
AnyResponse(packet, wanted) ==
    packet = wanted \/ ({packet, wanted} \subseteq {"ConnectAppRes", "CreateStreamRes", "FMLEStartRes"})

\* dynamic_cast<T*>(packet) of expect_message(), and the test of a bandwidth packet's name.
Wanted(packet, wanted) == packet = wanted

\* A round of expect_message().
ExpectMessage(e) ==
    /\ In(e, "expect") /\ wire[e] # << >>
    /\ LET m == Head(wire[e])
           packet == Decode(e, m)
       IN  IF packet \in Errors
           THEN Fail(e, packet) /\ UNCHANGED <<received, stream_id>>
           ELSE IF Wanted(packet, Next1(e).packet)
           THEN /\ Advance(e)
                /\ received' = [received EXCEPT ![e] = m]
                /\ stream_id' = [stream_id EXCEPT ![e] = IF packet = "CreateStreamRes"
                                                         THEN m.sid ELSE @]
                /\ UNCHANGED status
           ELSE UNCHANGED <<plan, received, stream_id, status>>     \* dropped
    /\ wire' = [wire EXCEPT ![e] = Tail(@)]
    /\ UNCHANGED <<requests, phase, called, lost, asked, served>>

\* publish_checking(): for as long as the server said, which it has to say.
Publishing ==
    /\ In("client", "publishing")
    /\ IF received["client"].name = "no duration"
       THEN Fail("client", "BWTC_DATA")
       ELSE /\ \E n \in 0..MaxPublishing :
                 plan' = [plan EXCEPT !["client"] = [k \in 1..n |-> Send("publishing")] \o Tail(@)]
            /\ UNCHANGED status
    /\ UNCHANGED <<wire, requests, received, stream_id, phase, called, lost, asked, served>>

(***************************************************************************)
(* Server: identification.                                                 *)
(***************************************************************************)
IgnoredByIdentify ==    \* by type, before they are decoded
    {"Acknowledgement", "SetChunkSize", "SetWindowAckSize", "UserControl",
     "SetPeerBandwidth", "SampleAccess", "onStatusData"}

\* What follows in the calls once the client is known: its caller's set_chunk_size() and
\* start_*() (external), and then it serves.
Identified(kind, name) ==
    <<Send("SetChunkSize")>>
        \o (CASE kind = "play" -> StartPlay
              [] kind = "fmle" -> StartFmlePublish
              [] kind = "flash" -> StartFlashPublish)
        \o <<Serving(kind, name)>>

\* Mutant: a client that creates a stream is not looked at any more when it plays.
PublishOnlyAfterCreate(m, packet) ==
    CASE packet = "Publish" -> Identified("flash", m.name)
      [] packet = "CreateStream" -> <<Result(m.tid, m.command), Step("level1")>>
      [] OTHER -> <<Step("level1")>>

\* A round of identify_create_stream_client().
AfterCreateStream(m, packet) ==
    CASE packet = "Play" -> Identified("play", m.name)
      [] packet = "Publish" -> Identified("flash", m.name)
      [] packet = "CreateStream" -> <<Result(m.tid, m.command), Step("level1")>>
      [] OTHER -> <<Step("level1")>>

\* Mutant: identify_fmle_publish_client() leaves the stream's name as it was.
NameForgotten(m, packet) ==
    CASE packet = "CreateStream" -> <<Result(m.tid, m.command), Step("level1")>>
      [] packet = "FMLEStart" -> <<Result(m.tid, m.command)>> \o Identified("fmle", "")
      [] packet = "Play" -> Identified("play", m.name)
      [] packet = "Call" -> <<Result(m.tid, m.command), Step("identify")>>
      [] OTHER -> <<Step("identify")>>

\* A round of identify_client().
AtFirst(m, packet) ==
    CASE packet = "CreateStream" -> <<Result(m.tid, m.command), Step("level1")>>
      [] packet = "FMLEStart" -> <<Result(m.tid, m.command)>> \o Identified("fmle", m.name)
      [] packet = "Play" -> Identified("play", m.name)
      [] packet = "Call" -> <<Result(m.tid, m.command), Step("identify")>>
      [] OTHER -> <<Step("identify")>>

Identify ==
    /\ In("server", "identify") \/ In("server", "level1")
    /\ wire["server"] # << >>
    /\ LET m == Head(wire["server"])
           packet == Decode("server", m)
       IN  IF m.command \in IgnoredByIdentify
           THEN UNCHANGED <<plan, status>>
           ELSE IF packet \in Errors
           THEN Fail("server", packet)
           ELSE /\ plan' = [plan EXCEPT !["server"] =
                              IF Next1("server").do = "identify"
                              THEN AtFirst(m, packet) ELSE AfterCreateStream(m, packet)]
                /\ UNCHANGED status
    /\ wire' = [wire EXCEPT !["server"] = Tail(@)]
    /\ UNCHANGED <<requests, received, stream_id, phase, called, lost, asked, served>>

(***************************************************************************)
(* The server's caller (external).                                         *)
(***************************************************************************)
Decide ==
    /\ In("server", "decide")
    /\ \E choice \in IF received["server"].name = "check"
                     THEN {ServerCheck("no duration"), ServerCheck("1000")}
                     ELSE {Accept, ResponseConnectReject \o <<Step("reject")>>} :
         plan' = [plan EXCEPT !["server"] = choice]
    /\ UNCHANGED <<wire, requests, received, stream_id, status, phase, called, lost,
                   asked, served>>

Reject ==
    /\ In("server", "reject")
    /\ Fail("server", "REJECTED")
    /\ UNCHANGED <<wire, requests, received, stream_id, phase, called, lost, asked, served>>

\* It counts as served when the caller of start_*() goes on to media.
Serve ==
    /\ In("server", "serve")
    /\ LET now == [kind |-> Next1("server").kind, name |-> Next1("server").name]
       IN  /\ served' = Append(served, now)
           /\ plan' = [plan EXCEPT !["server"] =
                         <<[do |-> "expect", packet |-> "FMLEStart"], Step("unpublish")>>]
    /\ UNCHANGED <<wire, requests, received, stream_id, status, phase, called, lost, asked>>

\* An FCUnpublish ends it, and the client is identified anew.
Unpublish ==
    /\ In("server", "unpublish")
    /\ plan' = [plan EXCEPT !["server"] =
                  FmleUnpublish(received["server"].tid) \o <<Step("identify")>>]
    /\ UNCHANGED <<wire, requests, received, stream_id, status, phase, called, lost,
                   asked, served>>

(***************************************************************************)
(* The client's user, who calls when the call before is done.              *)
(***************************************************************************)
Call(steps, next) ==
    /\ plan["client"] = << >> /\ status["client"] = "open"
    /\ plan' = [plan EXCEPT !["client"] = steps]
    /\ phase' = next
    /\ UNCHANGED <<wire, requests, received, stream_id, status, lost, served>>

Handshake ==
    /\ phase = "new"
    /\ \E version \in Versions : Call(ClientHandshake(version), "handshaken")
    /\ UNCHANGED <<called, asked>>

Connect ==
    /\ phase = "handshaken"
    /\ \/ Call(ConnectApp("live"), "connected")
       \/ Call(ConnectApp("check"), "check")
    /\ UNCHANGED <<called, asked>>

CheckBandwidth ==
    /\ phase = "check"
    /\ Call(BandwidthCheck, "checked")
    /\ UNCHANGED <<called, asked>>

Ask(kind, name, steps) ==
    /\ phase = "connected" /\ Len(asked) < MaxAsked
    /\ Call(steps, kind)
    /\ asked' = Append(asked, [kind |-> kind, name |-> name])
    /\ UNCHANGED called

AskToPlay(name) == Ask("play", name, CreateStream \o Play(name))
AskToPublish(name) == Ask("flash", name, CreateStream \o Publish(name))
AskToFmlePublish(name) == Ask("fmle", name, FmlePublish(name))

\* A call of the user's own, which the table of requests does not know.
UserCall ==
    /\ phase = "connected" /\ ~called
    /\ Call(<<Request("call", 9, "")>>, "connected")
    /\ called' = TRUE
    /\ UNCHANGED asked

AskToUnpublish ==
    /\ phase = "fmle"
    /\ Call(<<Request("FCUnpublish", UnpublishTid, "")>>, "connected")
    /\ UNCHANGED <<called, asked>>

Lose ==
    /\ ~lost /\ lost' = TRUE
    /\ wire' = [e \in Endpoints |-> << >>]
    /\ UNCHANGED <<plan, requests, received, stream_id, status, phase, called, asked, served>>

EndpointStep(e) == SendPacket(e) \/ SendReply(e) \/ ReadFails(e) \/ ReadBytes(e) \/ ExpectMessage(e)
ServerStep == Identify \/ Decide \/ Reject \/ Serve \/ Unpublish
UserStep ==
    \/ Handshake \/ Connect \/ CheckBandwidth \/ UserCall \/ AskToUnpublish
    \/ \E name \in StreamNames : AskToPlay(name) \/ AskToPublish(name) \/ AskToFmlePublish(name)

Next == (\E e \in Endpoints : EndpointStep(e)) \/ Publishing \/ ServerStep \/ UserStep \/ Lose

\* A call that was made goes on: writes find room, reads return what is there.
Fairness ==
    /\ \A e \in Endpoints : WF_vars(EndpointStep(e))
    /\ WF_vars(Publishing) /\ WF_vars(ServerStep)

Spec == Init /\ [][Next]_vars /\ Fairness

(***************************************************************************)
(* Properties.                                                             *)
(***************************************************************************)
\* The server serves what the client asked for - as what, which stream, in which order -
\* although it has to find out from the commands that arrive, and the client asks again
\* while answers to earlier commands are still under way.
Abstract == INSTANCE Session WITH Kinds <- {"play", "fmle", "flash"}
RefinesSession == Abstract!Spec

\* Client and server never wait for each other with nothing on the way: one of them has
\* something to read or to send until the client got what it asked for.
WaitsInVain(e) == Waits(e) /\ wire[e] = << >>
NoMutualWait ==
    WaitsInVain("client") /\ WaitsInVain("server") => lost \/ \E e \in Endpoints : status[e] # "open"

\* A call of the client only fails when the connection was lost, the server rejected it or
\* its own data was no good, or the user sent a call: its answer is taken for a response
\* to a request that nobody made.
FailsForAReason ==
    status["client"] # "open" =>
        lost \/ called \/ status["client"] = "BWTC_DATA"
             \/ status["server"] \in {"REJECTED", "PLAIN_REQUIRED"}

\* play, publish: commands of a stream travel on the stream id that the server gave, which
\* is the same for all streams of a connection here, as SRS gives it; the property tells it
\* from no stream id, not from that of an earlier stream.
OnTheStreamGiven ==
    \A k \in 1..Len(wire["server"]) :
        wire["server"][k].command \in {"play", "publish"} => wire["server"][k].sid = StreamId

\* Every stream the client asks for is served in the end, unless the connection ends.
Ended == \E e \in Endpoints : status[e] # "open"
AskedIsServed ==
    \A k \in 1..MaxAsked : Len(asked) >= k ~> (Len(served) >= k \/ Ended)

==============================================================================
