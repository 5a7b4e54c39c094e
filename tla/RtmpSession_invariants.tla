------------------------ MODULE RtmpSession_invariants ------------------------
(***************************************************************************)
(* The inductive invariants of a session, and the words they are in:       *)
(*   - IInv: commands of a stream are behind the answer that gives its id; *)
(*   - JourneyInv: what is under way leads the server from where it is to  *)
(*     where the client's user wants it;                                   *)
(*   - AnswersInv: what the server answers is what the client asked;       *)
(*   - WaitsInv: what the client waits for comes.                          *)
(* RtmpSession_proofs shows that they are inductive, and what follows.     *)
(***************************************************************************)
EXTENDS RtmpSession, ASequence

------------------------------------------------------------------------------
(***************************************************************************)
(* On the right stream.                                                    *)
(***************************************************************************)
\* A step that waits for the stream id, and one that sends a command of a stream.
AwaitsStream(step) == step.do = "expect" /\ step.packet = "CreateStreamRes"
OfStream(step) == step.do = "send" /\ step.command \in {"play", "publish"}

\* What a server does: it waits for no stream id, and sends none but as a result, and nothing
\* that a client fails on.
NotOfServer == Errors \cup {"c0c1", "CreateStreamRes"}
OfServer(step) == ~AwaitsStream(step) /\ (step.do = "send" => step.command \notin NotOfServer)
Results(step, R) == step.do = "send" /\ step.command = "_result" => <<step.tid, step.of>> \in R

SaysOnly(p, R) == ASeq(p) /\ \A k \in 1..Len(p) : OfServer(p[k]) /\ Results(p[k], R)
AwaitsNone(p) == ASeq(p) /\ \A k \in 1..Len(p) : OfServer(p[k])
OfNoStream(p) == ASeq(p) /\ \A k \in 1..Len(p) : ~OfStream(p[k])

\* The commands of a stream are behind a wait for its id.
Covered(p) ==
    /\ ASeq(p)
    /\ \A k \in 1..Len(p) : OfStream(p[k]) => \E j \in 1..(k - 1) : AwaitsStream(p[j])

Gives(m) == m.command # "CreateStreamRes" /\ (m.of = "createStream" => m.sid = StreamId)
Given(messages) == ASeq(messages) /\ \A k \in 1..Len(messages) : Gives(messages[k])

OnStream(messages) ==
    /\ ASeq(messages)
    /\ \A k \in 1..Len(messages) :
         messages[k].command \in {"play", "publish"} => messages[k].sid = StreamId

Shapes ==
    /\ plan = [e \in Endpoints |-> plan[e]] /\ wire = [e \in Endpoints |-> wire[e]]
    /\ stream_id = [e \in Endpoints |-> stream_id[e]]
    /\ ASeq(plan["client"])

IInv ==
    /\ Shapes
    /\ stream_id["server"] = StreamId
    /\ AwaitsNone(plan["server"]) /\ Given(wire["client"])
    /\ stream_id["client"] = StreamId \/ Covered(plan["client"])
    /\ OnStream(wire["server"])

------------------------------------------------------------------------------
(***************************************************************************)
(* What a step does, endpoint by endpoint.                                 *)
(***************************************************************************)
Tables ==
    /\ requests = [e \in Endpoints |-> requests[e]]
    /\ received = [e \in Endpoints |-> received[e]]
    /\ status = [e \in Endpoints |-> status[e]]

Others == <<phase, called, lost, asked, served>>

\* What the sender of m notes of it.
Noted(e, m) ==
    /\ m.command \notin Commands => requests'[e] = requests[e]
    /\ m.command \in Commands =>
         /\ DOMAIN requests'[e] = DOMAIN requests[e] \cup {m.tid}
         /\ \A t \in DOMAIN requests[e] \cup {m.tid} :
              requests'[e][t] = IF t = m.tid THEN m.command ELSE requests[e][t]

\* e says m, as its plan has it or in reply to what it received.
Says(e, m) ==
    \/ /\ plan[e][1].do = "send" /\ m.command = plan[e][1].command /\ m.tid = plan[e][1].tid
       /\ m.name = plan[e][1].name /\ m.of = plan[e][1].of
    \/ /\ plan[e][1].do = "reply" /\ m.command = "_result"
       /\ m.tid = received[e].tid /\ m.of = received[e].command

Writes(e, m) ==
    /\ plan[e] # << >> /\ Says(e, m) /\ ~lost
    /\ plan'[e] = Tail(plan[e]) /\ plan'[Peer(e)] = plan[Peer(e)]
    /\ wire'[e] = wire[e] /\ wire'[Peer(e)] = Append(wire[Peer(e)], m)
    /\ requests'[Peer(e)] = requests[Peer(e)] /\ Noted(e, m)
    /\ UNCHANGED <<received, status>> /\ UNCHANGED Others

LeavesOrReads(e) ==
    \/ wire'[e] = wire[e]
    \/ wire[e] # << >> /\ wire'[e] = Tail(wire[e])

Reason(e, why) ==
    \/ lost
    \/ status[Peer(e)] # "open"
    \/ wire[e] # << >> /\ wire[e][1].command = "c0c1" /\ why = "PLAIN_REQUIRED"
    \/ wire[e] # << >> /\ Decode(e, wire[e][1]) \in Errors
    \/ e = "client" /\ why = "BWTC_DATA"
    \/ e = "server" /\ why = "REJECTED"

Fails(e, why) ==
    /\ Reason(e, why) /\ why # "open" /\ plan[e] # << >>
    /\ plan'[e] = << >> /\ plan'[Peer(e)] = plan[Peer(e)]
    /\ status'[e] = why /\ status'[Peer(e)] = status[Peer(e)]
    /\ wire'[Peer(e)] = wire[Peer(e)] /\ LeavesOrReads(e)
    /\ UNCHANGED <<requests, received>> /\ UNCHANGED Others

\* e takes the first message that is there.
TakesOne(e) ==
    /\ plan[e] # << >> /\ wire[e] # << >>
    /\ plan'[Peer(e)] = plan[Peer(e)] /\ received'[Peer(e)] = received[Peer(e)]
    /\ wire'[e] = Tail(wire[e]) /\ wire'[Peer(e)] = wire[Peer(e)]
    /\ UNCHANGED <<requests, status>> /\ UNCHANGED Others

Reads(e) ==
    /\ TakesOne(e) /\ plan'[e] = Tail(plan[e])
    /\ \/ plan[e][1].do = "read" /\ received'[e] = received[e]
       \/ /\ plan[e][1].do = "expect" /\ received'[e] = wire[e][1]
          /\ plan[e][1].packet = Decode(e, wire[e][1])

Drops(e) ==
    /\ TakesOne(e) /\ plan'[e] = plan[e] /\ received'[e] = received[e]
    /\ \/ plan[e][1].do = "expect" /\ Decode(e, wire[e][1]) \notin {plan[e][1].packet} \cup Errors
       \/ /\ e = "server" /\ plan[e][1].do \in {"identify", "level1"}
          /\ wire[e][1].command \in IgnoredByIdentify

Identifies(p) ==
    /\ TakesOne("server") /\ plan'["server"] = p /\ received'["server"] = received["server"]
    /\ wire["server"][1].command \notin IgnoredByIdentify
    /\ LET m == wire["server"][1]
           packet == Decode("server", m)
       IN  /\ packet \notin Errors
           /\ \/ plan["server"][1].do = "identify" /\ p = AtFirst(m, packet)
              \/ plan["server"][1].do = "level1" /\ p = AfterCreateStream(m, packet)

\* The plan of e is p now, and nothing of the connection has changed.
Plans(e, p) ==
    /\ plan'[e] = p /\ plan'[Peer(e)] = plan[Peer(e)]
    /\ UNCHANGED <<wire, requests, received, status, lost>>

Publishes(n) ==
    /\ plan["client"] # << >> /\ plan["client"][1].do = "publishing"
    /\ Plans("client", [k \in 1..n |-> Send("publishing")] \o Tail(plan["client"]))
    /\ UNCHANGED Others

Decides(p) ==
    /\ plan["server"] # << >> /\ plan["server"][1].do = "decide"
    /\ \/ received["server"].name = "check" /\ p \in {ServerCheck("no duration"), ServerCheck("1000")}
       \/ /\ received["server"].name # "check"
          /\ p \in {Accept, ResponseConnectReject \o <<Step("reject")>>}
    /\ Plans("server", p) /\ UNCHANGED Others

Serves ==
    /\ plan["server"] # << >> /\ plan["server"][1].do = "serve"
    /\ served' = Append(served, [kind |-> plan["server"][1].kind, name |-> plan["server"][1].name])
    /\ Plans("server", <<Expect("FMLEStart"), Step("unpublish")>>)
    /\ UNCHANGED <<phase, called, asked>>

Unpublishes ==
    /\ plan["server"] # << >> /\ plan["server"][1].do = "unpublish"
    /\ Plans("server", FmleUnpublish(received["server"].tid) \o <<Step("identify")>>)
    /\ UNCHANGED Others

\* The client's user calls, which is a call for a stream when it is asked for.
Calls(p) ==
    /\ plan["client"] = << >> /\ status["client"] = "open" /\ Plans("client", p) /\ UNCHANGED served

Event ==
    \/ \E e \in Endpoints :
         (\E m : Writes(e, m)) \/ (\E why : Fails(e, why)) \/ Reads(e) \/ Drops(e)
    \/ \E p : Identifies(p) \/ Decides(p)
    \/ \E n \in Nat : Publishes(n)
    \/ Serves \/ Unpublishes \/ UserStep \/ Lose

------------------------------------------------------------------------------
(***************************************************************************)
(* Where the server is on its way through a session, and how often it has  *)
(* served by then.                                                         *)
(***************************************************************************)
Places == {"c0c1", "c2", "connect", "identify", "level1", "fc", "create", "publish", "media",
           "check1", "check2", "check3", "check4", "check5", "checked"}
Views == [at : Places, done : Nat]
At(place, n) == [at |-> place, done |-> n]

\* Views come in this order.
Rank(v) == 10 * v.done +
    (CASE v.at = "c0c1" -> -23 [] v.at = "c2" -> -22 [] v.at = "connect" -> -21
       [] v.at = "media" -> -5 [] v.at = "identify" -> 0
       [] v.at \in {"level1", "fc", "check1"} -> 1 [] v.at \in {"create", "check2"} -> 2
       [] v.at \in {"publish", "check3"} -> 3
       [] v.at = "check4" -> 4 [] v.at = "check5" -> 5 [] v.at = "checked" -> 6)

Asked(asks, n, kind, name) == n \in 1..Len(asks) /\ asks[n] = [kind |-> kind, name |-> name]

Connected(app) == IF app = "check" THEN "check1" ELSE "identify"

\* The server reads it and stays where it is.
Idle == {<<"identify", "SetWindowAckSize">>, <<"identify", "call">>,
         <<"check1", "SetWindowAckSize">>, <<"level1", "SetChunkSize">>,
         <<"media", "UserControl">>, <<"media", "SetChunkSize">>,
         <<"check4", "publishing">>, <<"check4", "stopPublish">>}

Ways == {<<"c0c1", "c0c1", "c2">>, <<"c2", "c2", "connect">>,
         <<"identify", "createStream", "level1">>, <<"fc", "FCPublish", "create">>,
         <<"create", "createStream", "publish">>, <<"media", "FCUnpublish", "identify">>,
         <<"check1", "startingPlay", "check2">>, <<"check2", "stoppedPlay", "check3">>,
         <<"check3", "startingPublish", "check4">>, <<"check4", "stoppedPublish", "check5">>,
         <<"check5", "final", "checked">>}

\* The client's message m takes the server from v to w.
Moves(asks, v, m, w) ==
    \/ <<v.at, m.command>> \in Idle /\ w = v
    \/ <<v.at, m.command, w.at>> \in Ways /\ w.done = v.done
    \/ v.at = "connect" /\ m.command = "connect" /\ w = At(Connected(m.name), v.done)
    \/ /\ v.at = "identify" /\ m.command = "releaseStream" /\ w = At("fc", v.done)
       /\ Asked(asks, v.done + 1, "fmle", m.name)
    \/ /\ w = At("media", v.done + 1)
       /\ \/ v.at = "level1" /\ m.command = "play" /\ Asked(asks, w.done, "play", m.name)
          \/ v.at = "level1" /\ m.command = "publish" /\ Asked(asks, w.done, "flash", m.name)
          \/ v.at = "publish" /\ m.command = "publish" /\ Asked(asks, w.done, "fmle", m.name)

Awaits(step) == step.do \in {"read", "expect"}

Expected == {<<"c2", "s0s1s2">>, <<"identify", "ConnectAppRes">>, <<"check1", "ConnectAppRes">>,
             <<"check1", "startPlay">>, <<"check2", "stopPlay">>, <<"check3", "startPublish">>,
             <<"check4", "stopPublish">>, <<"check5", "finished">>,
             <<"level1", "CreateStreamRes">>, <<"publish", "CreateStreamRes">>}

\* A step of the client, while what it has sent takes the server from v to w.
Goes(asks, v, step, w) ==
    \/ step.do = "send" /\ Moves(asks, v, step, w)
    \/ Awaits(step) /\ <<v.at, step.packet>> \in Expected /\ w = v
    \/ step.do = "publishing" /\ v.at = "check4" /\ w = v

Path(t, n) == ASeq(t) /\ Len(t) = n + 1 /\ \A k \in 1..Len(t) : t[k] \in Views

ClientPath(asks, t, p) ==
    /\ ASeq(p) /\ Path(t, Len(p))
    /\ \A k \in 1..Len(p) : Goes(asks, t[k], p[k], t[k + 1])
    /\ \A j, k \in 1..Len(t) : j < k => Rank(t[j]) <= Rank(t[k])
    /\ \A j, k \in 1..Len(p) : j < k /\ Awaits(p[j]) /\ Awaits(p[k]) => Rank(t[j]) < Rank(t[k])

\* Where the server gets to with the calls the client's user has made.
Home ==
    CASE phase = "new" -> At("c0c1", 0)
      [] phase = "handshaken" -> At("connect", 0)
      [] phase = "check" -> At("check1", 0)
      [] phase = "checked" -> At("checked", 0)
      [] phase = "connected" -> At("identify", Len(asked))
      [] phase \in {"play", "flash", "fmle"} -> At("media", Len(asked))

WirePath(asks, v, messages) ==
    /\ ASeq(messages) /\ Path(v, Len(messages))
    /\ \A k \in 1..Len(messages) : Moves(asks, v[k], messages[k], v[k + 1])

\* What the server waits for, and where it is then.
Accepts == {<<"c0c1", "c0c1", "c2">>, <<"c2", "c2", "connect">>,
            <<"connect", "ConnectApp", "identify">>, <<"connect", "ConnectApp", "check1">>,
            <<"fc", "FMLEStart", "create">>, <<"create", "CreateStream", "publish">>,
            <<"publish", "Publish", "media">>, <<"media", "FMLEStart", "identify">>,
            <<"check1", "startingPlay", "check2">>, <<"check2", "stoppedPlay", "check3">>,
            <<"check3", "startingPublish", "check4">>, <<"check4", "stoppedPublish", "check5">>,
            <<"check5", "final", "checked">>}

\* A step of the server that takes it from v to w.
Takes(asks, n, v, step, w) ==
    \/ step.do \in {"send", "reply"} /\ w = v
    \/ /\ Awaits(step) /\ <<v.at, step.packet, w.at>> \in Accepts
       /\ step.do = "read" <=> v.at \in {"c0c1", "c2"}
       /\ w.done = IF v.at = "publish" THEN v.done + 1 ELSE v.done
    \/ step.do \in {"identify", "level1"} /\ v = At(step.do, n) /\ w = v
    \/ step.do \in {"unpublish", "reject"} /\ v = At("identify", n) /\ w = v
    \/ step.do = "decide" /\ v.at \in {"identify", "check1"} /\ v.done = n /\ w = v
    \/ /\ step.do = "serve" /\ v = At("media", n + 1) /\ w = v
       /\ Asked(asks, v.done, step.kind, step.name)

\* The steps that are the last ones of a plan.
Ends(step) == step.do \in {"identify", "level1", "unpublish", "reject", "decide", "serve"}

Pauses(step) == Awaits(step) \/ step.do \in {"identify", "level1"}

IsResult(m, S) == m.command = "_result" /\ m.of \in S
OfAStream == {"createStream", "releaseStream"}

\* A message the client takes for the packet, and a step that sends it one, or ends what
\* the client waits for.
IsFor(m, packet) == m.command = packet \/ (m.command = "_result" /\ ResponseTo(m.of) = packet)
Gets(step, packet) ==
    \/ step.do = "send" /\ IsFor(step, packet)
    \/ step.do = "reply" /\ packet = "CreateStreamRes"
    \/ step.do = "decide" /\ packet \in {"ConnectAppRes", "startPlay"}
    \/ step.do = "reject" /\ packet = "ConnectAppRes"

\* From step k on, the server sends it before it waits again.
Provides(p, k, packet) ==
    \E j \in k..Len(p) : Gets(p[j], packet) /\ \A i \in k..j : ~Pauses(p[i])

\* What the server sends when it gets away from a place.
Due(place) ==
    CASE place = "c0c1" -> {"s0s1s2"} [] place = "create" -> {"CreateStreamRes"}
      [] place = "check1" -> {"stopPlay"} [] place = "check2" -> {"startPublish"}
      [] place = "check3" -> {"stopPublish"} [] place = "check4" -> {"finished"}
      [] OTHER -> {}

\* What is done with a packet that was waited for is done at once; the answer to a request
\* of a stream is a plan's first step.
Succeeds(step, next) ==
    /\ next.do = "reply" => step.do = "expect" /\ step.packet \in {"FMLEStart", "CreateStream"}
    /\ next.do = "unpublish" => step.do = "expect" /\ step.packet = "FMLEStart"
    /\ next.do = "decide" => step.do = "expect" /\ step.packet = "ConnectApp"
    /\ next.do = "send" => ~IsResult(next, OfAStream)

ServerPath(asks, n, r, p) ==
    /\ ASeq(p) /\ Path(r, Len(p))
    /\ \A k \in 1..Len(p) : Takes(asks, n, r[k], p[k], r[k + 1]) /\ (Ends(p[k]) => k = Len(p))
    /\ \A k \in 2..Len(p) : Succeeds(p[k - 1], p[k])
    /\ \A k \in 1..Len(p) : Awaits(p[k]) =>
         /\ \A packet \in Due(r[k].at) : Provides(p, k + 1, packet)
         /\ r[k].at = "connect" => k + 1 = Len(p) /\ p[k + 1].do = "decide"

\* What was received is what the next step is about.
Received(r, p, m) ==
    1 \in 1..Len(p) =>
      /\ p[1].do = "decide" => /\ m.command = "connect"
                               /\ r[1].at = Connected(m.name)
      /\ p[1].do = "reply" => /\ m.command \in Commands
                              /\ r[1].at = "publish" => m.command = "createStream"
      /\ p[1].do = "unpublish" => m.command = "FCUnpublish"

Linked == status["client"] = "open" /\ ~lost

------------------------------------------------------------------------------
(***************************************************************************)
(* The server and the client on their way.                                 *)
(***************************************************************************)
\* The views r of the server's plan and the views v of the messages on their way to it begin
\* with the same one: where the server is.
ServerSide(r, v) ==
    /\ ServerPath(asked, Len(served), r, plan["server"])
    /\ Received(r, plan["server"], received["server"])
    /\ WirePath(asked, v, wire["server"]) /\ v[1] = r[1]

\* The views t of the client's plan begin where the messages lead, and end where its user
\* wants the server to be.
ClientSide(v, t) ==
    /\ ClientPath(asked, t, plan["client"]) /\ t[1] = v[Len(v)] /\ t[Len(t)] = Home
    /\ \A k \in 1..Len(v) : Rank(v[k]) <= Rank(t[1])

OnJourney(r, v, t) == ServerSide(r, v) /\ (Linked => ClientSide(v, t))

Phases == {"new", "handshaken", "check", "checked", "connected", "play", "flash", "fmle"}

History ==
    /\ ASeq(asked) /\ ASeq(served) /\ phase \in Phases
    /\ phase \in {"new", "handshaken", "check", "checked"} => asked = << >>

\* Who has failed does nothing any more.
FailedStops == \A e \in Endpoints : status[e] # "open" => plan[e] = << >>

\* What the client sends finds the server where the client means it to be, although the
\* server only sees one message after the other.
JourneyInv == Tables /\ History /\ FailedStops /\ \E r, v, t : OnJourney(r, v, t)

------------------------------------------------------------------------------
(***************************************************************************)
(* Answers.  A request is on its way to the server, in its hand, or the    *)
(* answer to it is on its way back; messages are sw and cw, and what the   *)
(* server has in hand, of the requests of a stream, is hand.               *)
(***************************************************************************)
Hand(p, m) ==
    {c \in OfAStream : /\ 1 \in 1..Len(p)
                       /\ \/ p[1].do = "send" /\ p[1].command = "_result" /\ p[1].of = c
                          \/ p[1].do = "reply" /\ m.command = c}

NoneOnWay(sw) == \A k \in 1..Len(sw) : sw[k].command \notin OfAStream

\* Nothing of a stream is behind a createStream.
CreateIsLast(sw, hand, cw) ==
    /\ \A j, k \in 1..Len(sw) :
         j < k /\ sw[j].command = "createStream" => sw[k].command \notin OfAStream
    /\ "createStream" \in hand => NoneOnWay(sw)
    /\ \A j \in 1..Len(cw) : IsResult(cw[j], {"createStream"}) =>
         /\ hand = {} /\ NoneOnWay(sw)
         /\ \A k \in 1..Len(cw) : j < k => ~IsResult(cw[k], OfAStream)

Open(sw, hand, cw, S) ==
    \/ \E k \in 1..Len(sw) : sw[k].command \in S
    \/ hand \cap S # {}
    \/ \E k \in 1..Len(cw) : IsResult(cw[k], S)

------------------------------------------------------------------------------
(***************************************************************************)
(* Transaction ids, and the table of requests that knows them.             *)
(***************************************************************************)
HasTid(of, tid) ==
    CASE of = "connect" -> tid = 1
      [] of = "createStream" -> tid \in {2, 4}
      [] of = "releaseStream" -> tid = 2
      [] of = "FCPublish" -> tid = 3
      [] of = "FCUnpublish" -> tid = UnpublishTid
      [] OTHER -> TRUE

\* The table takes an answer for what it is; what is no command of the client's own calls
\* is a call of its user, who has called then.
Answers(table, c, tid, of) ==
    /\ of \in Commands => /\ HasTid(of, tid) /\ tid \in DOMAIN table
                          /\ ResponseTo(table[tid]) = ResponseTo(of)
    /\ of \notin Commands => c

OfClient == {"c0c1", "c2", "connect", "SetWindowAckSize", "createStream", "releaseStream",
             "FCPublish", "FCUnpublish", "play", "publish", "UserControl", "SetChunkSize",
             "startingPlay", "stoppedPlay", "startingPublish", "publishing", "stopPublish",
             "stoppedPublish", "final", "call"}

\* What the client says.
Said(m, c) ==
    /\ m.command \in OfClient /\ (m.command = "call" => c)
    /\ m.command \in Commands => HasTid(m.command, m.tid)

Sent(table, c, m) ==
    Said(m, c) /\ (m.command \in Commands => Answers(table, c, m.tid, m.command))

\* What the server says is nothing that the client fails on.
Replied(table, c, m) ==
    /\ m.command \notin Errors \cup {"c0c1", "CreateStreamRes"}
    /\ m.command = "_result" => Answers(table, c, m.tid, m.of)

------------------------------------------------------------------------------
(***************************************************************************)
(* The client's plans: whoever asks for a stream waits for it, and asks    *)
(* for one stream at a time.                                               *)
(***************************************************************************)
Asks(step, S) == step.do = "send" /\ step.command \in S
AsksSecond(step) == Asks(step, OfAStream) /\ step.tid = 2

ClientAsks(p, c) ==
    /\ \A k \in 1..Len(p) : p[k].do = "send" => Said(p[k], c)
    /\ \A k \in 1..Len(p) : Asks(p[k], OfAStream) => \E j \in 1..Len(p) : k < j /\ AwaitsStream(p[j])
    /\ \A j, k \in 1..Len(p) : j < k =>
         /\ Asks(p[j], {"createStream"}) => ~Asks(p[k], OfAStream)
         /\ AwaitsStream(p[j]) => ~AwaitsStream(p[k])
         /\ AsksSecond(p[j]) => ~AsksSecond(p[k])

Settled(p, sw, hand, cw) ==
    /\ (\A k \in 1..Len(p) : ~AwaitsStream(p[k])) => ~Open(sw, hand, cw, OfAStream)
    /\ (\E k \in 1..Len(p) : AsksSecond(p[k])) => ~Open(sw, hand, cw, OfAStream)
    /\ (\E k \in 1..Len(p) : Asks(p[k], {"createStream"})) => ~Open(sw, hand, cw, {"createStream"})

------------------------------------------------------------------------------
(***************************************************************************)
(* What is known of the answers.                                           *)
(***************************************************************************)
Excused ==
    lost \/ called \/ status["client"] = "BWTC_DATA" \/ status["server"] \in {"REJECTED", "PLAIN_REQUIRED"}

\* Of what the server is going to say, and of what it has in hand.
ServerAnswers(table, c, p, m) ==
    /\ \A k \in 1..Len(p) : p[k].do = "send" => Replied(table, c, p[k])
    /\ 1 \in 1..Len(p) /\ p[1].do \in {"reply", "decide", "unpublish"} => Sent(table, c, m)

\* What is said is known to the client's table of requests.
InTable ==
    /\ \A k \in 1..Len(wire["server"]) : Sent(requests["client"], called, wire["server"][k])
    /\ \A k \in 1..Len(wire["client"]) : Replied(requests["client"], called, wire["client"][k])
    /\ ServerAnswers(requests["client"], called, plan["server"], received["server"])

InHand == Hand(plan["server"], received["server"])

\* Answers of a stream come in the order of the streams asked for, and a client that waits
\* for no stream has none of them coming.
InOrder ==
    /\ CreateIsLast(wire["server"], InHand, wire["client"])
    /\ ClientAsks(plan["client"], called)
    /\ Linked => Settled(plan["client"], wire["server"], InHand, wire["client"])

AnswersInv == InTable /\ InOrder /\ \A e \in Endpoints : status[e] # "open" => Excused

------------------------------------------------------------------------------
(***************************************************************************)
(* What the client waits for.                                              *)
(***************************************************************************)
\* Messages that leave the server where it is, wherever that is.
Stays == {"SetWindowAckSize", "call", "SetChunkSize", "UserControl", "publishing", "stopPublish"}
Still(messages) == \A k \in 1..Len(messages) : messages[k].command \in Stays
StillBefore(p, j) == \A k \in 1..(j - 1) : p[k].do = "send" => p[k].command \in Stays

\* No wait is in front of step j, which is one, or where the plan ends.
NoWaitBefore(p, j) == \A k \in 1..(j - 1) : ~Awaits(p[k])
FirstWait(p, j) == j \in 1..Len(p) /\ Awaits(p[j]) /\ NoWaitBefore(p, j)

\* A plan that sends it before anything else is done.
Sends(p, packet) ==
    \E j \in 1..Len(p) : /\ p[j].do = "send" /\ IsFor(p[j], packet)
                         /\ \A k \in 1..(j - 1) : p[k].do \in {"send", "reply"}
Rejects(p) == \E j \in 1..Len(p) : p[j].do = "reject" /\ \A k \in 1..(j - 1) : p[k].do = "send"
Decisive(p) == 1 \in 1..Len(p) /\ p[1].do = "decide"
RepliesNow(p, m) == 1 \in 1..Len(p) /\ p[1].do = "reply" /\ m.command = "createStream"

\* The packet is on its way, or what the server is about to do sends it, or ends the wait.
OnWire(messages, packet) == \E k \in 1..Len(messages) : IsFor(messages[k], packet)
Comes(p, m, messages, packet) ==
    \/ OnWire(messages, packet)
    \/ Sends(p, packet)
    \/ RepliesNow(p, m) /\ packet = "CreateStreamRes"
    \/ Decisive(p) /\ packet \in {"ConnectAppRes", "startPlay"}
    \/ Rejects(p) /\ packet = "ConnectAppRes"

\* The answer to connect comes before the bandwidth check begins.
Queued(messages) ==
    \E j, k \in 1..Len(messages) :
      j < k /\ IsFor(messages[j], "ConnectAppRes") /\ IsFor(messages[k], "startPlay")
InTurn(p, messages) ==
    \/ Queued(messages)
    \/ Decisive(p)
    \/ /\ Sends(p, "startPlay")
       /\ (p[1].do = "send" /\ IsFor(p[1], "ConnectAppRes")) \/ OnWire(messages, "ConnectAppRes")

\* When what is under way leaves the server where it is, it has sent what the client waits
\* for next, or is about to.
Reached(j) == Still(wire["server"]) /\ StillBefore(plan["client"], j)
ComesNow(packet) == Comes(plan["server"], received["server"], wire["client"], packet)
Promised ==
    \A j : FirstWait(plan["client"], j) /\ Reached(j) => ComesNow(plan["client"][j].packet)

\* The client that is to check the bandwidth will wait for the check to begin.
ConnectsFirst(p) ==
    \A k \in 1..Len(p) : Awaits(p[k]) => k = Len(p) /\ p[k] = Expect("ConnectAppRes")
CheckBegins ==
    phase = "check" =>
      /\ ConnectsFirst(plan["client"])
      /\ Reached(Len(plan["client"]) + 1) =>
           IF plan["client"] = << >> THEN ComesNow("startPlay")
                                     ELSE InTurn(plan["server"], wire["client"])

\* It connects before it asks for a stream, and leaves one that it asked for.
Leaves(m) == m.command = "FCUnpublish"
Early(p, messages) ==
    /\ \A k \in 1..Len(p) : p[k].do = "send" => ~Leaves(p[k])
    /\ \A k \in 1..Len(messages) : ~Leaves(messages[k])
Late(p) == \A k \in 1..Len(p) : Awaits(p[k]) => p[k].packet # "ConnectAppRes"
Apart ==
    /\ asked = << >> => /\ phase \notin {"play", "flash", "fmle"}
                        /\ Early(plan["client"], wire["server"])
    /\ asked # << >> => Late(plan["client"])

Together == ~lost /\ \A e \in Endpoints : status[e] = "open"
WaitsInv == Apart /\ (Together => Promised /\ CheckBegins)

------------------------------------------------------------------------------
(***************************************************************************)
(* Plans, calls and steps, as the proofs speak of them.                    *)
(***************************************************************************)
\* A plan that sends, and then ends, stays where it is.
SendsTo(p, n) ==
    /\ ASeq(p) /\ Len(p) = n
    /\ \A k \in 1..n : k # n => p[k].do = "send"
    /\ \A k \in 2..n : k # n => ~IsResult(p[k], OfAStream)

\* A way through p from v to w, with no wait before views of rank b.
ClientRoute(asks, v, p, w, b) ==
    \E t : /\ ClientPath(asks, t, p) /\ t[1] = v /\ t[Len(t)] = w
           /\ \A k \in 1..Len(p) : Awaits(p[k]) => b <= Rank(t[k])

\* Each of the user's calls, with what is asked for by it.
Prepares(p) ==
    \/ phase = "new" /\ phase' = "handshaken" /\ \E version : p = ClientHandshake(version)
    \/ phase = "handshaken" /\ phase' = "connected" /\ p = ConnectApp("live")
    \/ phase = "handshaken" /\ phase' = "check" /\ p = ConnectApp("check")
    \/ phase = "check" /\ phase' = "checked" /\ p = BandwidthCheck
    \/ phase = "connected" /\ phase' = "connected" /\ p = <<Request("call", 9, "")>> /\ called'
    \/ phase = "fmle" /\ phase' = "connected" /\ p = <<Request("FCUnpublish", UnpublishTid, "")>>

AsksFor(p, kind, name) ==
    \/ kind = "play" /\ p = CreateStream \o Play(name)
    \/ kind = "flash" /\ p = CreateStream \o Publish(name)
    \/ kind = "fmle" /\ p = FmlePublish(name)

MakesCall(p) ==
    \/ UNCHANGED asked /\ Prepares(p)
    \/ /\ phase = "connected"
       /\ \E name \in StreamNames :
            asked' = Append(asked, [kind |-> phase', name |-> name]) /\ AsksFor(p, phase', name)

\* A step of the server that keeps the connection.
ByServer ==
    /\ plan'["client"] = plan["client"] /\ UNCHANGED <<phase, asked>>
    /\ \/ wire'["server"] = wire["server"]
       \/ wire["server"] # << >> /\ wire'["server"] = Tail(wire["server"])

\* A step of the client that the server does not see.
ByClient ==
    /\ plan'["server"] = plan["server"] /\ received'["server"] = received["server"]
    /\ UNCHANGED <<phase, asked, lost, status>>

\* Views that were there before, to the same end.
Within(v2, v) ==
    /\ v2[Len(v2)] = v[Len(v)]
    /\ \A k \in 1..Len(v2) : \E j \in 1..Len(v) : v2[k] = v[j]

\* The first message is taken, or left where it is.
Consumes(v2, v) ==
    \/ v2 = v /\ wire'["server"] = wire["server"]
    \/ v2 = Tail(v) /\ wire["server"] # << >> /\ wire'["server"] = Tail(wire["server"])

\* What the table is when the client has said m.
NotedIn(table, more, m) ==
    /\ m.command \notin Commands => more = table
    /\ m.command \in Commands =>
         /\ DOMAIN more = DOMAIN table \cup {m.tid}
         /\ \A t \in DOMAIN table \cup {m.tid} :
              more[t] = IF t = m.tid THEN m.command ELSE table[t]

\* Steps that are not about a stream.
Inert(step, c) ==
    ~AwaitsStream(step) /\ ~Asks(step, OfAStream) /\ (step.do = "send" => Said(step, c))

\* p2 is p without its first step, moved by d, and else inert.
Moved(p2, p, d, c) ==
    /\ \A k \in 1..Len(p2) : Inert(p2[k], c) \/ (k + d \in 1..Len(p) /\ p2[k] = p[k + d])
    /\ \A j \in 1..Len(p) : j # 1 => j - d \in 1..Len(p2) /\ p2[j - d] = p[j]

\* Nor does it wait any longer: p2 is p without its first step, moved by d, and else publishing.
Onward(p2, p, d) ==
    /\ Len(p2) \in Nat /\ Len(p2) + d = Len(p)
    /\ \A k \in 1..Len(p2) : \/ ~Awaits(p2[k]) /\ p2[k].command = "publishing"
                             \/ k + d \in 1..Len(p) /\ p2[k] = p[k + d]
    /\ \A j \in 1..Len(p) : j # 1 => j - d \in 1..Len(p2) /\ p2[j - d] = p[j]

\* A plan of which a step that is about no stream was done, or none, while nothing more is open.
Fewer(sw2, hand2, cw2, sw, hand, cw) ==
    \A S : S \subseteq OfAStream /\ Open(sw2, hand2, cw2, S) => Open(sw, hand, cw, S)
==============================================================================
