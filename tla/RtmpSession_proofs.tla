-------------------------- MODULE RtmpSession_proofs ---------------------------
(***************************************************************************)
(* Four theorems about a session, whatever streams a client asks for and   *)
(* however often, and whatever messages are dropped, answered late, or     *)
(* lost with the connection:                                               *)
(*   - commands of a stream travel on the stream id that the server gave   *)
(*     (OnTheRightStream);                                                 *)
(*   - the server serves what was asked, in order (ServesWhatWasAsked).    *)
(*     Each message takes the server from one place of a session to        *)
(*     another; what is on the wire leads from where the server's plan     *)
(*     ends to where the client's begins (JourneyInv);                     *)
(*   - a client's call fails for a reason only (ClientFailsForAReason).    *)
(*     What the server answers is known by the client's table of requests, *)
(*     and is no answer of an earlier stream (AnswersInv);                 *)
(*   - client and server never wait for each other with nothing on the way *)
(*     (NeitherWaitsInVain).  Once the server has got all that a wait of   *)
(*     the client's is behind, what ends the wait is on its way, or the    *)
(*     server is about to send it (WaitsInv).                              *)
(***************************************************************************)
EXTENDS RtmpSession_invariants, SequenceTheorems, WellFoundedInduction, TLAPS

------------------------------------------------------------------------------
(***************************************************************************)
(* Sequences of any elements.                                              *)
(***************************************************************************)
\* A sequence is one over its own elements, and over whatever contains them.
LEMMA OverItsElements ==
    ASSUME NEW s, ASeq(s), NEW S, Elements(s) \subseteq S
    PROVE  s \in Seq(S)
<1>1. \A k \in 1..Len(s) : s[k] \in S
  BY DEF Elements
<1>2. QED  BY <1>1 DEF ASeq

LEMMA SeqIsASeq ==
    ASSUME NEW S, NEW s \in Seq(S)
    PROVE  ASeq(s)
BY DEF ASeq

LEMMA EmptyASeq == ASeq(<< >>) /\ Len(<< >>) = 0
BY DEF ASeq

\* A function on 1..n is a sequence of length n.
LEMMA FunctionIsASeq ==
    ASSUME NEW s, NEW n \in Nat, DOMAIN s = 1..n, s = [k \in DOMAIN s |-> s[k]]
    PROVE  ASeq(s) /\ Len(s) = n
<1> DEFINE S == {s[k] : k \in 1..n}
<1>1. \A k \in 1..n : s[k] \in S
  OBVIOUS
<1>2. s \in [1..n -> S]
  <2> HIDE DEF S
  <2> QED  BY <1>1
<1>3. s \in Seq(S) /\ Len(s) = n
  <2> HIDE DEF S
  <2> QED  BY <1>2
<1>4. QED  BY <1>3, SeqIsASeq

LEMMA ConcatASeq ==
    ASSUME NEW s, NEW t, ASeq(s), ASeq(t)
    PROVE  /\ ASeq(s \o t)
           /\ Len(s \o t) = Len(s) + Len(t)
           /\ \A k \in 1..Len(s) : (s \o t)[k] = s[k]
           /\ \A k \in 1..Len(t) : (s \o t)[Len(s) + k] = t[k]
<1> DEFINE S == Elements(s) \cup Elements(t)
<1>1. s \in Seq(S) /\ t \in Seq(S)
  <2>1. Elements(s) \subseteq S /\ Elements(t) \subseteq S
    OBVIOUS
  <2> HIDE DEF S
  <2>2. QED  BY <2>1, OverItsElements
<1> HIDE DEF S
<1>2. s \o t \in Seq(S)
  BY <1>1
<1>3. ASeq(s \o t)
  BY <1>2, SeqIsASeq
<1>4. QED  BY <1>1, <1>3

LEMMA TailASeq ==
    ASSUME NEW s, ASeq(s), s # << >>
    PROVE  /\ ASeq(Tail(s)) /\ Head(s) = s[1]
           /\ Len(s) >= 1 /\ Len(Tail(s)) = Len(s) - 1
           /\ \A k \in 1..(Len(s) - 1) : Tail(s)[k] = s[k + 1]
<1> DEFINE S == Elements(s)
<1>1. s \in Seq(S)
  <2> HIDE DEF S
  <2> QED  BY OverItsElements DEF S
<1> HIDE DEF S
<1>2. Tail(s) \in Seq(S) /\ Len(Tail(s)) = Len(s) - 1 /\ Len(s) >= 1
  BY <1>1
<1>3. ASeq(Tail(s))
  BY <1>2, SeqIsASeq
<1>4. QED  BY <1>1, <1>2, <1>3

LEMMA AppendASeq ==
    ASSUME NEW s, ASeq(s), NEW e
    PROVE  /\ ASeq(Append(s, e))
           /\ Len(Append(s, e)) = Len(s) + 1
           /\ \A k \in 1..Len(s) : Append(s, e)[k] = s[k]
           /\ Append(s, e)[Len(s) + 1] = e
<1> DEFINE S == Elements(s) \cup {e}
<1>1. s \in Seq(S) /\ e \in S
  <2>1. Elements(s) \subseteq S /\ e \in S
    OBVIOUS
  <2> HIDE DEF S
  <2>2. QED  BY <2>1, OverItsElements
<1> HIDE DEF S
<1>2. Append(s, e) \in Seq(S)
  BY <1>1
<1>3. ASeq(Append(s, e))
  BY <1>2, SeqIsASeq
<1>4. QED  BY <1>1, <1>3

LEMMA LengthZero ==
    ASSUME NEW p, ASeq(p), Len(p) = 0
    PROVE  p = << >>
BY DEF ASeq

LEMMA SameSeq ==
    ASSUME NEW s, NEW t, ASeq(s), ASeq(t), Len(s) = Len(t), \A k \in 1..Len(s) : s[k] = t[k]
    PROVE  s = t
BY DEF ASeq

LEMMA Joins ==
    ASSUME NEW s, NEW t, NEW q, IsJoined(s, t, q)
    PROVE  s \o t = q
<1> DEFINE c == s \o t
           m == Len(s)
           n == Len(t)
<1>1. /\ ASeq(c) /\ Len(c) = m + n
      /\ \A k \in 1..m : c[k] = s[k]
      /\ \A k \in 1..n : c[m + k] = t[k]
  BY ConcatASeq DEF IsJoined
<1>2. m \in Nat /\ n \in Nat
  BY DEF ASeq, IsJoined
<1>3. /\ Len(q) = m + n /\ \A k \in 1..m : q[k] = s[k]
      /\ \A k \in 1..n : q[m + k] = t[k]
  BY DEF IsJoined
<1> HIDE DEF c, m, n
<1>4. \A k \in 1..Len(c) : c[k] = q[k]
  <2> SUFFICES ASSUME NEW k \in 1..Len(c) PROVE c[k] = q[k]
    OBVIOUS
  <2>1. k \in 1..m \/ (k - m \in 1..n /\ m + (k - m) = k)
    BY <1>1, <1>2
  <2>2. CASE k \in 1..m
    BY <1>1, <1>3, <2>2
  <2>3. CASE k - m \in 1..n /\ m + (k - m) = k
    <3>1. c[m + (k - m)] = t[k - m] /\ q[m + (k - m)] = t[k - m]
      BY <1>1, <1>3, <2>3
    <3>2. QED  BY <2>3, <3>1
  <2>4. QED  BY <2>1, <2>2, <2>3
<1>5. Len(c) = Len(q)
  BY <1>1, <1>3
<1>6. c = q
  BY <1>1, <1>4, <1>5, SameSeq DEF IsJoined
<1>7. QED  BY <1>6 DEF c

\* What a sequence loses with its first element.
LEMMA TailFields ==
    ASSUME NEW p, ASeq(p), p # << >>
    PROVE  /\ ASeq(Tail(p)) /\ Head(p) = p[1] /\ Len(p) \in Nat /\ Len(p) # 0
           /\ Len(Tail(p)) = Len(p) - 1 /\ 1 \in 1..Len(p)
           /\ \A k \in 1..Len(Tail(p)) : k + 1 \in 1..Len(p) /\ Tail(p)[k] = p[k + 1]
<1>1. /\ ASeq(Tail(p)) /\ Head(p) = p[1] /\ Len(p) >= 1 /\ Len(Tail(p)) = Len(p) - 1
      /\ \A k \in 1..(Len(p) - 1) : Tail(p)[k] = p[k + 1]
  BY TailASeq
<1>2. Len(p) \in Nat
  BY DEF ASeq
<1>3. QED  BY <1>1, <1>2

------------------------------------------------------------------------------
(***************************************************************************)
(* Plans.                                                                  *)
(***************************************************************************)
LEMMA AllOfServer ==
    ASSUME NEW S, NEW R, \A step \in S : OfServer(step) /\ Results(step, R), NEW p \in Seq(S)
    PROVE  SaysOnly(p, R)
BY SeqIsASeq DEF SaysOnly

LEMMA AllOfNoStream ==
    ASSUME NEW S, \A step \in S : ~OfStream(step), NEW p \in Seq(S)
    PROVE  OfNoStream(p)
BY SeqIsASeq DEF OfNoStream

LEMMA SaysOnlyConcat ==
    ASSUME NEW R, NEW p, NEW q, SaysOnly(p, R), SaysOnly(q, R)
    PROVE  SaysOnly(p \o q, R)
<1>1. /\ ASeq(p \o q) /\ Len(p \o q) = Len(p) + Len(q)
      /\ \A k \in 1..Len(p) : (p \o q)[k] = p[k]
      /\ \A k \in 1..Len(q) : (p \o q)[Len(p) + k] = q[k]
      /\ Len(p) \in Nat /\ Len(q) \in Nat
  BY ConcatASeq DEF SaysOnly, ASeq
<1>2. ASSUME NEW k \in 1..Len(p \o q) PROVE OfServer((p \o q)[k]) /\ Results((p \o q)[k], R)
  <2>1. CASE k <= Len(p)
    BY <1>1, <2>1 DEF SaysOnly
  <2>2. CASE k > Len(p)
    <3>1. k - Len(p) \in 1..Len(q) /\ k = Len(p) + (k - Len(p))
      BY <1>1, <2>2
    <3>2. (p \o q)[k] = q[k - Len(p)]
      BY <1>1, <3>1
    <3>3. QED  BY <3>1, <3>2 DEF SaysOnly
  <2>3. QED  BY <1>1, <2>1, <2>2
<1>3. QED  BY <1>1, <1>2 DEF SaysOnly

LEMMA SaysOnlyAwaitsNone ==
    ASSUME NEW p, NEW R, SaysOnly(p, R)
    PROVE  AwaitsNone(p)
BY DEF SaysOnly, AwaitsNone

LEMMA AwaitsNoneTail ==
    ASSUME NEW p, AwaitsNone(p), p # << >>
    PROVE  AwaitsNone(Tail(p)) /\ OfServer(Head(p))
<1>1. /\ ASeq(Tail(p)) /\ Head(p) = p[1]
      /\ Len(p) >= 1 /\ Len(Tail(p)) = Len(p) - 1 /\ Len(p) \in Nat
      /\ \A k \in 1..(Len(p) - 1) : Tail(p)[k] = p[k + 1]
  BY TailASeq DEF AwaitsNone, ASeq
<1>2. ASSUME NEW k \in 1..Len(Tail(p)) PROVE OfServer(Tail(p)[k])
  <2>1. k \in 1..(Len(p) - 1) /\ k + 1 \in 1..Len(p)
    BY <1>1
  <2>2. QED  BY <1>1, <2>1 DEF AwaitsNone
<1>3. 1 \in 1..Len(p)
  BY <1>1
<1>4. QED  BY <1>1, <1>2, <1>3 DEF AwaitsNone

LEMMA NothingIsCovered ==
    ASSUME NEW p, OfNoStream(p)
    PROVE  Covered(p)
BY DEF OfNoStream, Covered

\* Behind a step that is no wait for a stream id, what is left is covered as before.
LEMMA CoveredTail ==
    ASSUME NEW p, Covered(p), p # << >>
    PROVE  /\ ~OfStream(Head(p))
           /\ ~AwaitsStream(Head(p)) => Covered(Tail(p))
<1>1. /\ ASeq(Tail(p)) /\ Head(p) = p[1]
      /\ Len(p) >= 1 /\ Len(Tail(p)) = Len(p) - 1 /\ Len(p) \in Nat
      /\ \A k \in 1..(Len(p) - 1) : Tail(p)[k] = p[k + 1]
  BY TailASeq DEF Covered, ASeq
<1>2. ~OfStream(Head(p))
  <2>1. 1 \in 1..Len(p) /\ 1..(1 - 1) = {}
    BY <1>1
  <2>2. QED  BY <1>1, <2>1 DEF Covered
<1>3. ASSUME ~AwaitsStream(Head(p)), NEW k \in 1..Len(Tail(p)), OfStream(Tail(p)[k])
      PROVE  \E j \in 1..(k - 1) : AwaitsStream(Tail(p)[j])
  <2>1. k \in 1..(Len(p) - 1) /\ k + 1 \in 1..Len(p)
    BY <1>1
  <2>2. OfStream(p[k + 1])
    BY <1>1, <1>3, <2>1
  <2>3. PICK j \in 1..((k + 1) - 1) : AwaitsStream(p[j])
    BY <2>1, <2>2 DEF Covered
  <2>4. j # 1
    BY <1>1, <1>3, <2>3
  <2>5. j - 1 \in 1..(k - 1) /\ j - 1 \in 1..(Len(p) - 1) /\ (j - 1) + 1 = j
    BY <2>1, <2>3, <2>4
  <2>6. Tail(p)[j - 1] = p[j]
    BY <1>1, <2>5
  <2>7. QED  BY <2>3, <2>5, <2>6
<1>4. QED  BY <1>1, <1>2, <1>3 DEF Covered

\* Steps in front that are no commands of a stream leave a plan covered.
LEMMA CoveredBehind ==
    ASSUME NEW p, NEW q, OfNoStream(p), ASeq(q),
           Covered(q) \/ \E j \in 1..Len(p) : AwaitsStream(p[j])
    PROVE  Covered(p \o q)
<1>1. /\ ASeq(p \o q) /\ Len(p \o q) = Len(p) + Len(q)
      /\ \A k \in 1..Len(p) : (p \o q)[k] = p[k]
      /\ \A k \in 1..Len(q) : (p \o q)[Len(p) + k] = q[k]
      /\ Len(p) \in Nat /\ Len(q) \in Nat
  BY ConcatASeq DEF OfNoStream, ASeq
<1>2. ASSUME NEW k \in 1..Len(p \o q), OfStream((p \o q)[k])
      PROVE  \E j \in 1..(k - 1) : AwaitsStream((p \o q)[j])
  <2>1. k > Len(p)
    BY <1>1, <1>2 DEF OfNoStream
  <2>2. k - Len(p) \in 1..Len(q) /\ k = Len(p) + (k - Len(p))
    BY <1>1, <2>1
  <2>3. OfStream(q[k - Len(p)])
    BY <1>1, <1>2, <2>2
  <2>4. CASE Covered(q)
    <3>1. PICK j \in 1..((k - Len(p)) - 1) : AwaitsStream(q[j])
      BY <2>2, <2>3, <2>4 DEF Covered
    <3>2. Len(p) + j \in 1..(k - 1) /\ j \in 1..Len(q)
      BY <1>1, <2>2, <3>1
    <3>3. QED  BY <1>1, <3>1, <3>2
  <2>5. CASE \E j \in 1..Len(p) : AwaitsStream(p[j])
    <3>1. PICK j \in 1..Len(p) : AwaitsStream(p[j])
      BY <2>5
    <3>2. j \in 1..(k - 1)
      BY <1>1, <2>1
    <3>3. QED  BY <1>1, <3>1, <3>2
  <2>6. QED  BY <2>4, <2>5
<1>3. QED  BY <1>1, <1>2 DEF Covered

------------------------------------------------------------------------------
(***************************************************************************)
(* The server's calls wait for no stream id, and the results they send are *)
(* of R.                                                                   *)
(***************************************************************************)
LEMMA ServerSteps ==
    /\ \A command, tid, name : command \notin NotOfServer \cup {"_result"} =>
         OfServer(Request(command, tid, name)) /\ \A R : Results(Request(command, tid, name), R)
    /\ \A command : command \notin NotOfServer \cup {"_result"} =>
         OfServer(Send(command)) /\ \A R : Results(Send(command), R)
    /\ \A tid, of : OfServer(Result(tid, of)) /\ \A R : <<tid, of>> \in R => Results(Result(tid, of), R)
    /\ \A bytes : OfServer(Read(bytes)) /\ \A R : Results(Read(bytes), R)
    /\ \A kind, name : OfServer(Serving(kind, name)) /\ \A R : Results(Serving(kind, name), R)
    /\ \A do \in {"reply", "identify", "level1", "decide", "reject", "unpublish", "publishing"} :
         OfServer(Step(do)) /\ \A R : Results(Step(do), R)
    /\ \A packet : packet # "CreateStreamRes" =>
         OfServer(Expect(packet)) /\ \A R : Results(Expect(packet), R)
<1>1. /\ \A command, tid, name : Request(command, tid, name).do = "send"
                                   /\ Request(command, tid, name).command = command
      /\ \A command : Send(command).do = "send" /\ Send(command).command = command
      /\ \A tid, of : Result(tid, of).do = "send" /\ Result(tid, of).command = "_result"
                        /\ Result(tid, of).tid = tid /\ Result(tid, of).of = of
      /\ \A bytes : Read(bytes).do = "read"
      /\ \A kind, name : Serving(kind, name).do = "serve"
      /\ \A do : Step(do).do = do
      /\ \A packet : Expect(packet).do = "expect" /\ Expect(packet).packet = packet
  BY DEF Request, Send, Result, Read, Serving, Step, Expect
<1>2. "_result" \notin NotOfServer
  BY DEF NotOfServer, Errors
<1>3. QED  BY <1>1, <1>2 DEF AwaitsStream, OfServer, Results

LEMMA Sayable ==
    {"s0s1s2", "SetWindowAckSize", "SetPeerBandwidth", "onBWDone", "onStatus", "startPlay",
     "playing", "stopPlay", "startPublish", "stopPublish", "finished", "SetChunkSize",
     "UserControl", "SampleAccess", "onStatusData", "onFCPublish", "onFCUnpublish"}
      \cap (NotOfServer \cup {"_result"}) = {}
BY DEF NotOfServer, Errors

LEMMA OneStepSays ==
    ASSUME NEW step, NEW R, OfServer(step), Results(step, R)
    PROVE  SaysOnly(<<step>>, R)
<1>1. <<step>> \in Seq({step})
  OBVIOUS
<1>2. QED  BY <1>1, AllOfServer

LEMMA TwoStepsSay ==
    ASSUME NEW s, NEW t, NEW R, OfServer(s), Results(s, R), OfServer(t), Results(t, R)
    PROVE  SaysOnly(<<s, t>>, R)
<1>1. <<s, t>> \in Seq({s, t})
  OBVIOUS
<1>2. QED  BY <1>1, AllOfServer

LEMMA HandshakeSays ==
    ASSUME NEW R
    PROVE  SaysOnly(ServerHandshake \o <<Expect("ConnectApp"), Step("decide")>>, R)
<1>1. SaysOnly(ServerHandshake, R)
  <2>1. ServerHandshake \in Seq({Read("c0c1"), Send("s0s1s2"), Read("c2")})
    BY DEF ServerHandshake
  <2>2. \A step \in {Read("c0c1"), Send("s0s1s2"), Read("c2")} : OfServer(step) /\ Results(step, R)
    BY ServerSteps, Sayable
  <2>3. QED  BY <2>1, <2>2, AllOfServer
<1>2. SaysOnly(<<Expect("ConnectApp"), Step("decide")>>, R)
  BY TwoStepsSay, ServerSteps
<1>3. QED  BY <1>1, <1>2, SaysOnlyConcat

LEMMA AcceptSays ==
    ASSUME NEW R, <<1, "connect">> \in R
    PROVE  SaysOnly(Accept, R)
<1>1. SaysOnly(<<Send("SetWindowAckSize"), Send("SetPeerBandwidth")>>, R)
  BY TwoStepsSay, ServerSteps, Sayable
<1>2. SaysOnly(ResponseConnectApp, R)
  BY OneStepSays, ServerSteps DEF ResponseConnectApp
<1>3. SaysOnly(<<Send("onBWDone"), Step("identify")>>, R)
  BY TwoStepsSay, ServerSteps, Sayable
<1>4. QED  BY <1>1, <1>2, <1>3, SaysOnlyConcat DEF Accept

LEMMA RejectSays ==
    ASSUME NEW R
    PROVE  SaysOnly(ResponseConnectReject \o <<Step("reject")>>, R)
<1>1. SaysOnly(ResponseConnectReject, R) /\ SaysOnly(<<Step("reject")>>, R)
  BY OneStepSays, ServerSteps, Sayable DEF ResponseConnectReject
<1>2. QED  BY <1>1, SaysOnlyConcat

LEMMA CheckSays ==
    ASSUME NEW data, NEW R, <<1, "connect">> \in R
    PROVE  SaysOnly(ServerCheck(data), R)
<1> DEFINE rest == <<Send("startPlay"), Expect("startingPlay"), Send("playing"),
                     Send("stopPlay"), Expect("stoppedPlay"), Request("startPublish", 0, data),
                     Expect("startingPublish"), Send("stopPublish"),
                     Expect("stoppedPublish"), Send("finished"), Expect("final")>>
           S == {Send(c) : c \in {"startPlay", "playing", "stopPlay", "stopPublish", "finished"}}
                  \cup {Expect(c) : c \in {"startingPlay", "stoppedPlay", "startingPublish",
                                           "stoppedPublish", "final"}}
                  \cup {Request("startPublish", 0, data)}
<1>1. rest \in Seq(S)
  OBVIOUS
<1>2. \A step \in S : OfServer(step) /\ Results(step, R)
  BY ServerSteps, Sayable
<1>3. SaysOnly(rest, R)
  <2> HIDE DEF rest, S
  <2> QED  BY <1>1, <1>2, AllOfServer
<1>4. SaysOnly(ResponseConnectApp, R)
  BY OneStepSays, ServerSteps DEF ResponseConnectApp
<1>5. QED  BY <1>3, <1>4, SaysOnlyConcat DEF ServerCheck

LEMMA IdentifiedSays ==
    ASSUME NEW kind \in {"play", "fmle", "flash"}, NEW name, NEW R
    PROVE  SaysOnly(Identified(kind, name), R)
<1>1. SaysOnly(StartPlay, R)
  <2> DEFINE S == {Send(c) : c \in {"UserControl", "onStatus", "SampleAccess", "onStatusData"}}
  <2>1. StartPlay \in Seq(S)
    BY DEF StartPlay
  <2>2. \A step \in S : OfServer(step) /\ Results(step, R)
    BY ServerSteps, Sayable
  <2> HIDE DEF S
  <2>3. QED  BY <2>1, <2>2, AllOfServer
<1>2. SaysOnly(StartFmlePublish, R)
  <2> DEFINE S == {Send("onFCPublish"), Send("onStatus")}
                    \cup {Expect(c) : c \in {"FMLEStart", "CreateStream", "Publish"}}
                    \cup {Step("reply")}
  <2>1. StartFmlePublish \in Seq(S)
    BY DEF StartFmlePublish
  <2>2. \A step \in S : OfServer(step) /\ Results(step, R)
    BY ServerSteps, Sayable
  <2> HIDE DEF S
  <2>3. QED  BY <2>1, <2>2, AllOfServer
<1>3. SaysOnly(StartFlashPublish, R)
  BY OneStepSays, ServerSteps, Sayable DEF StartFlashPublish
<1>4. SaysOnly(<<Send("SetChunkSize")>>, R) /\ SaysOnly(<<Serving(kind, name)>>, R)
  BY OneStepSays, ServerSteps, Sayable
<1> DEFINE start == CASE kind = "play" -> StartPlay
                      [] kind = "fmle" -> StartFmlePublish
                      [] kind = "flash" -> StartFlashPublish
<1>5. SaysOnly(start, R)
  BY <1>1, <1>2, <1>3
<1>6. Identified(kind, name) = <<Send("SetChunkSize")>> \o start \o <<Serving(kind, name)>>
  BY DEF Identified
<1> HIDE DEF start
<1>7. QED  BY <1>4, <1>5, <1>6, SaysOnlyConcat

LEMMA RoundsSay ==
    ASSUME NEW m, NEW packet, NEW R,
           packet \in {"CreateStream", "FMLEStart", "Call"} => <<m.tid, m.command>> \in R
    PROVE  SaysOnly(AtFirst(m, packet), R) /\ SaysOnly(AfterCreateStream(m, packet), R)
<1>1. \A next \in {"identify", "level1"} : SaysOnly(<<Step(next)>>, R)
  BY OneStepSays, ServerSteps
<1>2. /\ SaysOnly(Identified("play", m.name), R) /\ SaysOnly(Identified("flash", m.name), R)
      /\ SaysOnly(Identified("fmle", m.name), R)
  BY IdentifiedSays
<1>3. ASSUME <<m.tid, m.command>> \in R
      PROVE  /\ SaysOnly(<<Result(m.tid, m.command)>> \o Identified("fmle", m.name), R)
             /\ \A next \in {"identify", "level1"} :
                  SaysOnly(<<Result(m.tid, m.command), Step(next)>>, R)
  <2>1. OfServer(Result(m.tid, m.command)) /\ Results(Result(m.tid, m.command), R)
    BY <1>3, ServerSteps
  <2>2. \A next \in {"identify", "level1"} : OfServer(Step(next)) /\ Results(Step(next), R)
    BY ServerSteps
  <2>3. \A next \in {"identify", "level1"} : SaysOnly(<<Result(m.tid, m.command), Step(next)>>, R)
    BY <2>1, <2>2, TwoStepsSay
  <2>4. SaysOnly(<<Result(m.tid, m.command)>> \o Identified("fmle", m.name), R)
    BY <1>2, <2>1, OneStepSays, SaysOnlyConcat
  <2>5. QED  BY <2>3, <2>4
<1>4. SaysOnly(AtFirst(m, packet), R)
  BY <1>1, <1>2, <1>3 DEF AtFirst
<1>5. SaysOnly(AfterCreateStream(m, packet), R)
  BY <1>1, <1>2, <1>3 DEF AfterCreateStream
<1>6. QED  BY <1>4, <1>5

LEMMA UnpublishSays ==
    ASSUME NEW tid, NEW R, <<tid, "FCUnpublish">> \in R
    PROVE  SaysOnly(FmleUnpublish(tid) \o <<Step("identify")>>, R)
<1> DEFINE S == {Send("onFCUnpublish"), Result(tid, "FCUnpublish"), Send("onStatus")}
<1>1. FmleUnpublish(tid) \in Seq(S)
  BY DEF FmleUnpublish
<1>2. \A step \in S : OfServer(step) /\ Results(step, R)
  BY ServerSteps, Sayable
<1> HIDE DEF S
<1>3. SaysOnly(FmleUnpublish(tid), R)
  BY <1>1, <1>2, AllOfServer
<1>4. QED  BY <1>3, OneStepSays, ServerSteps, SaysOnlyConcat

LEMMA MediaSays ==
    ASSUME NEW R
    PROVE  SaysOnly(<<Expect("FMLEStart"), Step("unpublish")>>, R)
BY TwoStepsSay, ServerSteps

------------------------------------------------------------------------------
(***************************************************************************)
(* The client's calls name a stream's commands behind createStream only.   *)
(***************************************************************************)
LEMMA ClientSteps ==
    /\ \A command, tid, name :
         command \notin {"play", "publish"} => ~OfStream(Request(command, tid, name))
    /\ \A command : command \notin {"play", "publish"} => ~OfStream(Send(command))
    /\ \A bytes : ~OfStream(Read(bytes))
    /\ \A packet : ~OfStream(Expect(packet))
    /\ ~OfStream(Step("publishing"))
    /\ AwaitsStream(Expect("CreateStreamRes"))
<1>1. /\ \A command, tid, name : Request(command, tid, name).command = command
      /\ \A command : Send(command).command = command
      /\ \A bytes : Read(bytes).do = "read"
      /\ \A packet : Expect(packet).do = "expect" /\ Expect(packet).packet = packet
      /\ \A do : Step(do).do = do
  BY DEF Request, Send, Read, Step, Expect
<1>2. QED  BY <1>1 DEF OfStream, AwaitsStream

LEMMA CallsWithoutStream ==
    /\ \A version : Covered(ClientHandshake(version))
    /\ \A app : Covered(ConnectApp(app))
    /\ \A tid : Covered(<<Request("FCUnpublish", tid, "")>>)
    /\ Covered(<<Request("call", 9, "")>>) /\ Covered(BandwidthCheck)
<1>1. ASSUME NEW version PROVE Covered(ClientHandshake(version))
  <2> DEFINE c0c1 == [Send("c0c1") EXCEPT !.tid = version]
  <2>1. ClientHandshake(version) \in Seq({c0c1, Read("s0s1s2"), Send("c2")})
    BY DEF ClientHandshake
  <2>2. ~OfStream(c0c1)
    BY DEF OfStream, Send, Request
  <2> HIDE DEF c0c1
  <2>3. QED  BY <2>1, <2>2, ClientSteps, AllOfNoStream, NothingIsCovered
<1>2. ASSUME NEW app PROVE Covered(ConnectApp(app))
  <2>1. ConnectApp(app)
          \in Seq({Request("connect", 1, app), Send("SetWindowAckSize"), Expect("ConnectAppRes")})
    BY DEF ConnectApp
  <2>2. QED  BY <2>1, ClientSteps, AllOfNoStream, NothingIsCovered
<1>3. ASSUME NEW command \in {"FCUnpublish", "call"}, NEW tid
      PROVE  Covered(<<Request(command, tid, "")>>)
  <2> DEFINE r == Request(command, tid, "")
  <2>1. ~OfStream(r)
    BY ClientSteps
  <2> HIDE DEF r
  <2>2. <<r>> \in Seq({r})
    OBVIOUS
  <2>3. OfNoStream(<<r>>)
    BY <2>1, <2>2, AllOfNoStream
  <2>4. QED  BY <2>3, NothingIsCovered DEF r
<1>4. Covered(BandwidthCheck)
  <2> DEFINE S == {Send(c) : c \in {"startingPlay", "stoppedPlay", "startingPublish",
                                    "stopPublish", "stoppedPublish", "final"}}
                    \cup {Expect(c) : c \in {"startPlay", "stopPlay", "startPublish",
                                             "stopPublish", "finished"}}
                    \cup {Step("publishing")}
  <2>1. BandwidthCheck \in Seq(S)
    BY DEF BandwidthCheck
  <2>2. \A step \in S : ~OfStream(step)
    BY ClientSteps
  <2> HIDE DEF S
  <2>3. QED  BY <2>1, <2>2, AllOfNoStream, NothingIsCovered
<1>5. QED  BY <1>1, <1>2, <1>3, <1>4

LEMMA CallsOfStream ==
    ASSUME NEW name
    PROVE  /\ Covered(CreateStream \o Play(name)) /\ Covered(CreateStream \o Publish(name))
           /\ Covered(FmlePublish(name))
<1>1. OfNoStream(CreateStream) /\ \E j \in 1..Len(CreateStream) : AwaitsStream(CreateStream[j])
  <2> DEFINE a == Request("createStream", 2, "")
             b == Expect("CreateStreamRes")
  <2>1. CreateStream = <<a, b>>
    BY DEF CreateStream
  <2>2. ~OfStream(a) /\ ~OfStream(b) /\ AwaitsStream(b)
    BY ClientSteps
  <2> HIDE DEF a, b
  <2>3. CreateStream \in Seq({a, b}) /\ Len(CreateStream) = 2 /\ CreateStream[2] = b
    BY <2>1
  <2>4. 2 \in 1..Len(CreateStream) /\ AwaitsStream(CreateStream[2])
    BY <2>2, <2>3
  <2>5. QED  BY <2>2, <2>3, <2>4, AllOfNoStream
<1>2. ASeq(Play(name)) /\ ASeq(Publish(name))
  <2>1. Play(name)
          \in Seq({Request("play", 0, name), Send("UserControl"), Send("SetChunkSize")})
    BY DEF Play
  <2>2. Publish(name) \in Seq({Send("SetChunkSize"), Request("publish", 0, name)})
    BY DEF Publish
  <2>3. QED  BY <2>1, <2>2, SeqIsASeq
<1>3. Covered(FmlePublish(name))
  <2> DEFINE a == Request("releaseStream", 2, name)
             b == Request("FCPublish", 3, name)
             c == Request("createStream", 4, "")
             d == Expect("CreateStreamRes")
             f == Request("publish", 0, name)
             p == FmlePublish(name)
  <2>1. p = <<a, b, c, d, f>>
    BY DEF FmlePublish
  <2>2. ~OfStream(a) /\ ~OfStream(b) /\ ~OfStream(c) /\ ~OfStream(d) /\ AwaitsStream(d)
    BY ClientSteps
  <2> HIDE DEF a, b, c, d, f, p
  <2>3. /\ p \in Seq({a, b, c, d, f}) /\ Len(p) = 5
        /\ p[1] = a /\ p[2] = b /\ p[3] = c /\ p[4] = d
    BY <2>1
  <2>4. \A k \in 1..5 : OfStream(p[k]) => k = 5
    BY <2>2, <2>3
  <2>5. ASeq(p)
    BY <2>3, SeqIsASeq
  <2>6. 4 \in 1..(5 - 1) /\ AwaitsStream(p[4])
    BY <2>2, <2>3
  <2>7. Covered(p)
    BY <2>3, <2>4, <2>5, <2>6 DEF Covered
  <2>8. QED  BY <2>7 DEF p
<1>4. QED  BY <1>1, <1>2, <1>3, CoveredBehind

------------------------------------------------------------------------------
(***************************************************************************)
(* The invariant is inductive.                                             *)
(***************************************************************************)
LEMMA EmptyPlan == AwaitsNone(<< >>) /\ Covered(<< >>)
BY EmptyASeq DEF AwaitsNone, Covered

LEMMA InitIInv == Init => IInv
<1> SUFFICES ASSUME Init PROVE IInv
  OBVIOUS
<1>1. /\ plan["server"] = ServerHandshake \o <<Expect("ConnectApp"), Step("decide")>>
      /\ plan["client"] = << >> /\ wire["client"] = << >> /\ wire["server"] = << >>
      /\ stream_id["server"] = StreamId
  BY DEF Init, Endpoints
<1>2. Shapes
  <2>1. plan = [e \in Endpoints |-> plan[e]]
    BY DEF Init
  <2>2. wire = [e \in Endpoints |-> wire[e]]
    BY DEF Init
  <2>3. stream_id = [e \in Endpoints |-> stream_id[e]]
    BY DEF Init
  <2>4. QED  BY <1>1, <2>1, <2>2, <2>3, EmptyASeq DEF Shapes
<1>3. Given(wire["client"]) /\ OnStream(wire["server"])
  BY <1>1, EmptyASeq DEF Given, OnStream
<1>4. AwaitsNone(plan["server"]) /\ Covered(plan["client"])
  BY <1>1, HandshakeSays, SaysOnlyAwaitsNone, EmptyPlan
<1>5. QED  BY <1>1, <1>2, <1>3, <1>4 DEF IInv

\* What a step leaves of a plan.
LEMMA PlanTail ==
    ASSUME NEW p, ASeq(p), p # << >>
    PROVE  ASeq(Tail(p))
BY TailASeq

LEMMA GivenAppend ==
    ASSUME NEW messages, Given(messages), NEW m, Gives(m)
    PROVE  Given(Append(messages, m))
<1>1. /\ ASeq(Append(messages, m)) /\ Len(messages) \in Nat
      /\ Len(Append(messages, m)) = Len(messages) + 1
      /\ \A k \in 1..Len(messages) : Append(messages, m)[k] = messages[k]
      /\ Append(messages, m)[Len(messages) + 1] = m
  BY AppendASeq DEF Given, ASeq
<1>2. \A k \in 1..(Len(messages) + 1) : k \in 1..Len(messages) \/ k = Len(messages) + 1
  BY <1>1
<1>3. QED  BY <1>1, <1>2 DEF Given

LEMMA OnStreamAppend ==
    ASSUME NEW messages, OnStream(messages),
           NEW m, m.command \in {"play", "publish"} => m.sid = StreamId
    PROVE  OnStream(Append(messages, m))
<1>1. /\ ASeq(Append(messages, m)) /\ Len(messages) \in Nat
      /\ Len(Append(messages, m)) = Len(messages) + 1
      /\ \A k \in 1..Len(messages) : Append(messages, m)[k] = messages[k]
      /\ Append(messages, m)[Len(messages) + 1] = m
  BY AppendASeq DEF OnStream, ASeq
<1>2. \A k \in 1..(Len(messages) + 1) : k \in 1..Len(messages) \/ k = Len(messages) + 1
  BY <1>1
<1>3. QED  BY <1>1, <1>2 DEF OnStream

\* A message that is read leaves the others as they are.
LEMMA WireTail ==
    ASSUME NEW messages, messages # << >>
    PROVE  /\ Given(messages) => Given(Tail(messages)) /\ Gives(Head(messages))
           /\ OnStream(messages) => OnStream(Tail(messages))
<1>1. ASSUME ASeq(messages)
      PROVE  /\ ASeq(Tail(messages)) /\ Head(messages) = messages[1]
             /\ Len(messages) \in Nat /\ Len(messages) >= 1
             /\ Len(Tail(messages)) = Len(messages) - 1
             /\ \A k \in 1..Len(Tail(messages)) : k + 1 \in 1..Len(messages)
                                                  /\ Tail(messages)[k] = messages[k + 1]
  <2>1. /\ ASeq(Tail(messages)) /\ Head(messages) = messages[1]
        /\ Len(messages) \in Nat /\ Len(messages) >= 1
        /\ Len(Tail(messages)) = Len(messages) - 1
        /\ \A k \in 1..(Len(messages) - 1) : Tail(messages)[k] = messages[k + 1]
    BY <1>1, TailASeq DEF ASeq
  <2>2. QED  BY <2>1
<1>2. ASSUME Given(messages) PROVE Given(Tail(messages)) /\ Gives(Head(messages))
  <2>1. 1 \in 1..Len(messages)
    BY <1>1, <1>2 DEF Given
  <2>2. QED  BY <1>1, <1>2, <2>1 DEF Given
<1>3. ASSUME OnStream(messages) PROVE OnStream(Tail(messages))
  BY <1>1, <1>3 DEF OnStream
<1>4. QED  BY <1>2, <1>3

\* A message of an endpoint, put on the wire, is as the invariant has it.
LEMMA WriteKeeps ==
    ASSUME IInv, NEW e \in Endpoints, plan[e] # << >>, ~AwaitsStream(Head(plan[e])),
           NEW command, NEW tid, NEW name, NEW of,
           Write(e, command, tid, name, of),
           e = "client" /\ command \in {"play", "publish"} => stream_id["client"] = StreamId,
           e = "server" => command # "CreateStreamRes",
           UNCHANGED stream_id
    PROVE  IInv'
<1> DEFINE m == Message(command, tid, name, of, StreamIdOf(e, command, of))
<1>1. /\ m.command = command /\ m.of = of
      /\ command \in {"play", "publish"} \/ of = "createStream" => m.sid = stream_id[e]
  BY DEF Message, StreamIdOf
<1>2. Shapes /\ ASeq(plan["client"]) /\ ASeq(plan["server"])
  BY DEF IInv, Shapes, AwaitsNone
<1>3. CASE lost
  <2>1. plan' = [plan EXCEPT ![e] = << >>] /\ wire' = wire
    BY <1>3 DEF Write, Fail
  <2>2. \A f \in Endpoints : plan'[f] = IF f = e THEN << >> ELSE plan[f]
    BY <1>2, <2>1 DEF Shapes
  <2>3. plan' = [f \in Endpoints |-> plan'[f]] /\ ASeq(plan'["client"])
    BY <1>2, <2>1, <2>2, EmptyASeq DEF Shapes, Endpoints
  <2>4. AwaitsNone(plan'["server"])
    BY <2>2, EmptyPlan DEF IInv, Endpoints
  <2>5. stream_id'["client"] = StreamId \/ Covered(plan'["client"])
    BY <2>2, EmptyPlan DEF IInv, Endpoints
  <2>6. QED  BY <2>1, <2>3, <2>4, <2>5 DEF IInv, Shapes
<1>4. CASE ~lost
  <2>1. /\ plan' = [plan EXCEPT ![e] = Tail(plan[e])]
        /\ wire' = [wire EXCEPT ![Peer(e)] = Append(wire[Peer(e)], m)]
    BY <1>4 DEF Write, Advance
  <2> HIDE DEF m
  <2>2. \A f \in Endpoints : plan'[f] = IF f = e THEN Tail(plan[e]) ELSE plan[f]
    BY <1>2, <2>1 DEF Shapes
  <2>3. \A f \in Endpoints : wire'[f] = IF f = Peer(e) THEN Append(wire[f], m) ELSE wire[f]
    BY <1>2, <2>1 DEF Shapes
  <2>4. Shapes'
    <3>1. ASeq(plan'["client"])
      BY <1>2, <2>2, PlanTail DEF Endpoints
    <3>2. QED  BY <1>2, <2>1, <3>1 DEF Shapes
  <2>5. AwaitsNone(plan'["server"])
    BY <2>2, AwaitsNoneTail DEF IInv, Endpoints
  <2>6. stream_id'["client"] = StreamId \/ Covered(plan'["client"])
    BY <2>2, CoveredTail DEF IInv, Endpoints
  <2>7. Given(wire'["client"])
    <3>1. CASE e = "server"
      <4>1. wire'["client"] = Append(wire["client"], m) /\ Gives(m)
        BY <1>1, <2>3, <3>1 DEF Peer, Endpoints, IInv, Gives
      <4>2. QED  BY <4>1, GivenAppend DEF IInv
    <3>2. CASE e = "client"
      BY <2>3, <3>2 DEF Peer, Endpoints, IInv
    <3>3. QED  BY <3>1, <3>2 DEF Endpoints
  <2>8. OnStream(wire'["server"])
    <3>1. CASE e = "client"
      <4>1. /\ wire'["server"] = Append(wire["server"], m)
            /\ m.command \in {"play", "publish"} => m.sid = StreamId
        BY <1>1, <2>3, <3>1 DEF Peer, Endpoints
      <4>2. QED  BY <4>1, OnStreamAppend DEF IInv
    <3>2. CASE e = "server"
      BY <2>3, <3>2 DEF Peer, Endpoints, IInv
    <3>3. QED  BY <3>1, <3>2 DEF Endpoints
  <2>9. QED  BY <2>4, <2>5, <2>6, <2>7, <2>8 DEF IInv
<1>5. QED  BY <1>3, <1>4

\* A plan that is replaced by one of the same endpoint, while nothing else changes but what
\* was read.
LEMMA PlanReplaced ==
    ASSUME IInv, NEW e \in Endpoints, NEW p, plan' = [plan EXCEPT ![e] = p],
           ASeq(p), e = "server" => AwaitsNone(p),
           e = "client" => stream_id["client"] = StreamId \/ Covered(p),
           UNCHANGED stream_id,
           UNCHANGED wire \/ /\ wire[e] # << >>
                             /\ wire' = [wire EXCEPT ![e] = Tail(wire[e])]
    PROVE  IInv'
<1>1. Shapes
  BY DEF IInv
<1>2. \A f \in Endpoints : plan'[f] = IF f = e THEN p ELSE plan[f]
  BY <1>1 DEF Shapes
<1>3. Given(wire'["client"]) /\ OnStream(wire'["server"])
                             /\ wire' = [f \in Endpoints |-> wire'[f]]
  <2>1. CASE UNCHANGED wire
    BY <1>1, <2>1 DEF IInv, Shapes
  <2>2. CASE wire[e] # << >> /\ wire' = [wire EXCEPT ![e] = Tail(wire[e])]
    <3>1. \A f \in Endpoints : wire'[f] = IF f = e THEN Tail(wire[f]) ELSE wire[f]
      BY <1>1, <2>2 DEF Shapes
    <3>2. Given(wire'["client"]) /\ OnStream(wire'["server"])
      BY <2>2, <3>1, WireTail DEF IInv, Endpoints
    <3>3. QED  BY <1>1, <2>2, <3>2 DEF Shapes
  <2>3. QED  BY <2>1, <2>2
<1>4. plan' = [f \in Endpoints |-> plan'[f]]
  BY <1>1 DEF Shapes
<1>5. ASeq(plan'["client"]) /\ AwaitsNone(plan'["server"])
  BY <1>1, <1>2 DEF IInv, Shapes, Endpoints
<1>6. stream_id'["client"] = StreamId \/ Covered(plan'["client"])
  BY <1>2 DEF IInv, Endpoints
<1>7. QED  BY <1>1, <1>3, <1>4, <1>5, <1>6 DEF IInv, Shapes

\* What is left of a plan behind a step that waits for no stream id.
LEMMA Advanced ==
    ASSUME IInv, NEW e \in Endpoints, plan[e] # << >>, ~AwaitsStream(Head(plan[e]))
    PROVE  /\ ASeq(Tail(plan[e]))
           /\ e = "server" => AwaitsNone(Tail(plan[e]))
           /\ e = "client" => stream_id["client"] = StreamId \/ Covered(Tail(plan[e]))
<1>1. ASeq(plan[e])
  BY DEF IInv, Shapes, AwaitsNone, Endpoints
<1>2. QED  BY <1>1, PlanTail, AwaitsNoneTail, CoveredTail DEF IInv

LEMMA FailKeeps ==
    ASSUME IInv, NEW e \in Endpoints, NEW why, Fail(e, why), UNCHANGED stream_id,
           UNCHANGED wire \/ /\ wire[e] # << >>
                             /\ wire' = [wire EXCEPT ![e] = Tail(wire[e])]
    PROVE  IInv'
<1>1. plan' = [plan EXCEPT ![e] = << >>]
  BY DEF Fail
<1>2. QED  BY <1>1, EmptyPlan, EmptyASeq, PlanReplaced

\* What is decoded as the response to createStream answers it.
LEMMA DecodedAsAnswer ==
    ASSUME NEW e, NEW m, Decode(e, m) = "CreateStreamRes", m.command # "CreateStreamRes"
    PROVE  m.of = "createStream"
<1>1. CASE m.command # "_result"
  <2>1. PacketOf(m.command) = "CreateStreamRes"
    BY <1>1 DEF Decode
  <2>2. QED  BY <2>1 DEF PacketOf
<1>2. CASE m.command = "_result"
  <2>1. ResponseTo(m.of) = "CreateStreamRes"
    BY <1>2 DEF Decode
  <2>2. QED  BY <2>1 DEF ResponseTo
<1>3. QED  BY <1>1, <1>2

LEMMA ExpectKeeps ==
    ASSUME IInv, NEW e \in Endpoints, ExpectMessage(e)
    PROVE  IInv'
<1> DEFINE m == Head(wire[e])
           packet == Decode(e, m)
<1>1. /\ plan[e] # << >> /\ Next1(e).do = "expect" /\ wire[e] # << >>
      /\ wire' = [wire EXCEPT ![e] = Tail(wire[e])]
  BY DEF ExpectMessage, In
<1>2. \/ Fail(e, packet) /\ UNCHANGED stream_id
      \/ /\ packet = Next1(e).packet /\ Advance(e)
         /\ stream_id' = [stream_id EXCEPT ![e] =
                            IF packet = "CreateStreamRes" THEN m.sid ELSE stream_id[e]]
      \/ UNCHANGED <<plan, stream_id>>
  BY DEF ExpectMessage, Wanted
<1>3. Shapes
  BY DEF IInv
<1> HIDE DEF m, packet
<1>4. CASE Fail(e, packet) /\ UNCHANGED stream_id
  BY <1>1, <1>4, FailKeeps
<1>5. CASE UNCHANGED <<plan, stream_id>>
  <2>1. plan' = [plan EXCEPT ![e] = plan[e]]
    BY <1>3, <1>5 DEF Shapes
  <2>2. ASeq(plan[e])
    BY DEF IInv, Shapes, AwaitsNone, Endpoints
  <2>3. QED  BY <1>1, <1>5, <2>1, <2>2, PlanReplaced DEF IInv
<1>6. CASE /\ packet = Next1(e).packet /\ Advance(e)
           /\ stream_id' = [stream_id EXCEPT ![e] =
                              IF packet = "CreateStreamRes" THEN m.sid ELSE stream_id[e]]
  <2>1. plan' = [plan EXCEPT ![e] = Tail(plan[e])]
    BY <1>6 DEF Advance
  <2>2. CASE ~AwaitsStream(Head(plan[e]))
    <3>1. packet # "CreateStreamRes"
      BY <1>1, <1>6, <2>2 DEF AwaitsStream, Next1
    <3>2. UNCHANGED stream_id
      BY <1>3, <1>6, <3>1 DEF Shapes
    <3>3. QED  BY <1>1, <2>1, <2>2, <3>2, Advanced, PlanReplaced
  <2>3. CASE AwaitsStream(Head(plan[e]))
    <3>1. e = "client"
      BY <1>1, <2>3, AwaitsNoneTail DEF IInv, Endpoints, OfServer
    <3>2. packet = "CreateStreamRes"
      BY <1>6, <2>3 DEF AwaitsStream, Next1
    <3>3. m.sid = StreamId
      <4>1. Gives(m)
        BY <1>1, <3>1, WireTail DEF IInv, m
      <4>2. Decode(e, m) = "CreateStreamRes"
        BY <3>2 DEF packet
      <4>3. QED  BY <4>1, <4>2, DecodedAsAnswer DEF Gives
    <3>4. stream_id'["client"] = StreamId /\ stream_id'["server"] = StreamId
            /\ stream_id' = [f \in Endpoints |-> stream_id'[f]]
      BY <1>3, <1>6, <3>1, <3>2, <3>3 DEF Shapes, Endpoints, IInv
    <3>5. /\ \A f \in Endpoints : plan'[f] = IF f = e THEN Tail(plan[e]) ELSE plan[f]
          /\ plan' = [f \in Endpoints |-> plan'[f]]
      BY <1>3, <2>1 DEF Shapes
    <3>6. ASeq(plan'["client"]) /\ AwaitsNone(plan'["server"])
      BY <1>1, <1>3, <3>1, <3>5, PlanTail DEF IInv, Shapes, Endpoints
    <3>7. \A f \in Endpoints : wire'[f] = IF f = e THEN Tail(wire[f]) ELSE wire[f]
      BY <1>1, <1>3 DEF Shapes
    <3>8. Given(wire'["client"]) /\ OnStream(wire'["server"])
      BY <1>1, <3>7, WireTail DEF IInv, Endpoints
    <3>9. wire' = [f \in Endpoints |-> wire'[f]]
      BY <1>1, <1>3 DEF Shapes
    <3>10. QED  BY <3>4, <3>5, <3>6, <3>8, <3>9 DEF IInv, Shapes
  <2>4. QED  BY <2>2, <2>3
<1>7. QED  BY <1>2, <1>4, <1>5, <1>6

LEMMA SendKeeps ==
    ASSUME IInv, NEW e \in Endpoints, SendPacket(e) \/ SendReply(e)
    PROVE  IInv'
<1>1. plan[e] # << >> /\ ~AwaitsStream(Head(plan[e])) /\ UNCHANGED stream_id
  BY DEF SendPacket, SendReply, In, Next1, AwaitsStream
<1>2. CASE SendPacket(e)
  <2>1. /\ Head(plan[e]).do = "send"
        /\ Write(e, Head(plan[e]).command, Head(plan[e]).tid, Head(plan[e]).name, Head(plan[e]).of)
    BY <1>2 DEF SendPacket, In, Next1
  <2>2. e = "client" /\ Head(plan[e]).command \in {"play", "publish"} =>
            stream_id["client"] = StreamId
    BY <1>1, <2>1, CoveredTail DEF IInv, OfStream
  <2>3. e = "server" => Head(plan[e]).command # "CreateStreamRes"
    BY <1>1, <2>1, AwaitsNoneTail DEF IInv, OfServer, NotOfServer
  <2>4. QED  BY <1>1, <2>1, <2>2, <2>3, WriteKeeps
<1>3. CASE SendReply(e)
  <2>1. Write(e, "_result", received[e].tid, "", received[e].command)
    BY <1>3 DEF SendReply
  <2> DEFINE c == "_result"
  <2>2. c \notin {"play", "publish"} /\ c # "CreateStreamRes" /\ plan[e] # << >>
    BY <1>1
  <2>3. Write(e, c, received[e].tid, "", received[e].command)
    BY <2>1
  <2> HIDE DEF c
  <2>4. QED  BY <1>1, <2>2, <2>3, WriteKeeps
<1>4. QED  BY <1>2, <1>3

LEMMA ReadKeeps ==
    ASSUME IInv, NEW e \in Endpoints, ReadFails(e) \/ ReadBytes(e)
    PROVE  IInv'
<1>1. CASE ReadFails(e)
  <2>1. Fail(e, "SOCKET_READ") /\ UNCHANGED <<wire, stream_id>>
    BY <1>1 DEF ReadFails
  <2>2. QED  BY <2>1, FailKeeps
<1>2. CASE ReadBytes(e)
  <2>1. /\ plan[e] # << >> /\ ~AwaitsStream(Head(plan[e])) /\ UNCHANGED stream_id
        /\ wire[e] # << >> /\ wire' = [wire EXCEPT ![e] = Tail(wire[e])]
        /\ Fail(e, "PLAIN_REQUIRED") \/ Advance(e)
    BY <1>2 DEF ReadBytes, In, Next1, AwaitsStream
  <2>2. CASE Fail(e, "PLAIN_REQUIRED")
    BY <2>1, <2>2, FailKeeps
  <2>3. CASE Advance(e)
    <3>1. plan' = [plan EXCEPT ![e] = Tail(plan[e])]
      BY <2>3 DEF Advance
    <3>2. QED  BY <2>1, <3>1, Advanced, PlanReplaced
  <2>4. QED  BY <2>1, <2>2, <2>3
<1>3. QED  BY <1>1, <1>2

LEMMA PublishingKeeps ==
    ASSUME IInv, Publishing
    PROVE  IInv'
<1>1. /\ plan["client"] # << >> /\ ~AwaitsStream(Head(plan["client"]))
      /\ UNCHANGED <<wire, stream_id>> /\ "client" \in Endpoints
  BY DEF Publishing, In, Next1, AwaitsStream, Endpoints
<1>2. CASE Fail("client", "BWTC_DATA")
  BY <1>1, <1>2, FailKeeps
<1>3. CASE ~Fail("client", "BWTC_DATA")
  <2>1. PICK n \in 0..MaxPublishing :
          plan' = [plan EXCEPT !["client"] = [k \in 1..n |-> Send("publishing")]
                                               \o Tail(plan["client"])]
    BY <1>3 DEF Publishing
  <2> DEFINE sends == [k \in 1..n |-> Send("publishing")]
             step == Send("publishing")
  <2>2. OfNoStream(sends)
    <3>1. ~OfStream(step)
      BY ClientSteps
    <3> HIDE DEF step
    <3>2. n \in Nat
      BY SessionAssumption
    <3>3. sends \in Seq({step})
      BY <3>2 DEF step
    <3> HIDE DEF sends
    <3>4. QED  BY <3>1, <3>3, AllOfNoStream
  <2> HIDE DEF sends
  <2>3. plan' = [plan EXCEPT !["client"] = sends \o Tail(plan["client"])]
    BY <2>1 DEF sends
  <2>4. ASeq(sends \o Tail(plan["client"]))
    BY <1>1, <2>2, Advanced, ConcatASeq DEF OfNoStream
  <2>5. stream_id["client"] = StreamId \/ Covered(sends \o Tail(plan["client"]))
    BY <1>1, <2>2, Advanced, CoveredBehind
  <2>6. QED  BY <1>1, <2>3, <2>4, <2>5, PlanReplaced
<1>4. QED  BY <1>2, <1>3

\* The server's steps put a plan that waits for no stream id in place of another.
LEMMA ServerPlanReplaced ==
    ASSUME IInv, NEW p, AwaitsNone(p), plan' = [plan EXCEPT !["server"] = p],
           UNCHANGED stream_id,
           UNCHANGED wire \/ /\ wire["server"] # << >>
                             /\ wire' = [wire EXCEPT !["server"] = Tail(wire["server"])]
    PROVE  IInv'
<1>1. "server" \in Endpoints /\ ASeq(p)
  BY DEF Endpoints, AwaitsNone
<1>2. QED  BY <1>1, PlanReplaced

LEMMA IdentifyKeeps ==
    ASSUME IInv, Identify
    PROVE  IInv'
<1> DEFINE m == Head(wire["server"])
           packet == Decode("server", m)
           p == IF Next1("server").do = "identify"
                THEN AtFirst(m, packet) ELSE AfterCreateStream(m, packet)
<1>1. /\ wire["server"] # << >> /\ UNCHANGED stream_id
      /\ wire' = [wire EXCEPT !["server"] = Tail(wire["server"])]
      /\ UNCHANGED plan \/ Fail("server", packet) \/ plan' = [plan EXCEPT !["server"] = p]
  BY DEF Identify
<1>2. AwaitsNone(p)
  <2>1. \A packet2 : SaysOnly(AtFirst(m, packet2), {<<m.tid, m.command>>})
                     /\ SaysOnly(AfterCreateStream(m, packet2), {<<m.tid, m.command>>})
    BY RoundsSay
  <2>2. QED  BY <2>1, SaysOnlyAwaitsNone
<1> HIDE DEF m, packet, p
<1>3. CASE UNCHANGED plan
  <2>1. plan' = [plan EXCEPT !["server"] = plan["server"]]
    BY <1>3 DEF IInv, Shapes
  <2>2. QED  BY <1>1, <2>1, ServerPlanReplaced DEF IInv
<1>4. CASE Fail("server", packet)
  BY <1>1, <1>4, FailKeeps DEF Endpoints
<1>5. CASE plan' = [plan EXCEPT !["server"] = p]
  BY <1>1, <1>2, <1>5, ServerPlanReplaced
<1>6. QED  BY <1>1, <1>3, <1>4, <1>5

LEMMA ServerCallerKeeps ==
    ASSUME IInv, Decide \/ Reject \/ Serve \/ Unpublish
    PROVE  IInv'
<1>1. UNCHANGED <<wire, stream_id>>
  BY DEF Decide, Reject, Serve, Unpublish
<1>2. CASE Decide
  <2>1. PICK p \in {ServerCheck("no duration"), ServerCheck("1000"), Accept,
                    ResponseConnectReject \o <<Step("reject")>>} :
          plan' = [plan EXCEPT !["server"] = p]
    BY <1>2 DEF Decide
  <2>2. AwaitsNone(p)
    <3> DEFINE R == {<<1, "connect">>}
    <3>1. SaysOnly(Accept, R) /\ SaysOnly(ResponseConnectReject \o <<Step("reject")>>, R)
            /\ \A data : SaysOnly(ServerCheck(data), R)
      BY CheckSays, AcceptSays, RejectSays
    <3>2. QED  BY <3>1, SaysOnlyAwaitsNone
  <2>3. QED  BY <1>1, <2>1, <2>2, ServerPlanReplaced
<1>3. CASE Reject
  BY <1>1, <1>3, FailKeeps DEF Reject, Endpoints
<1>4. CASE Serve
  <2>1. plan' = [plan EXCEPT !["server"] =
                   <<[do |-> "expect", packet |-> "FMLEStart"], Step("unpublish")>>]
    BY <1>4 DEF Serve
  <2>2. AwaitsNone(<<[do |-> "expect", packet |-> "FMLEStart"], Step("unpublish")>>)
    BY MediaSays, SaysOnlyAwaitsNone DEF Expect
  <2>3. QED  BY <1>1, <2>1, <2>2, ServerPlanReplaced
<1>5. CASE Unpublish
  <2>1. plan' = [plan EXCEPT !["server"] =
                   FmleUnpublish(received["server"].tid) \o <<Step("identify")>>]
    BY <1>5 DEF Unpublish
  <2>2. AwaitsNone(FmleUnpublish(received["server"].tid) \o <<Step("identify")>>)
    <3> DEFINE tid == received["server"].tid
    <3>1. SaysOnly(FmleUnpublish(tid) \o <<Step("identify")>>, {<<tid, "FCUnpublish">>})
      BY UnpublishSays
    <3>2. QED  BY <3>1, SaysOnlyAwaitsNone
  <2>3. QED  BY <1>1, <2>1, <2>2, ServerPlanReplaced
<1>6. QED  BY <1>2, <1>3, <1>4, <1>5

LEMMA UserKeeps ==
    ASSUME IInv, UserStep
    PROVE  IInv'
<1>1. ASSUME NEW steps, NEW next, Covered(steps), Call(steps, next)
      PROVE  IInv'
  <2>1. /\ plan' = [plan EXCEPT !["client"] = steps] /\ UNCHANGED <<wire, stream_id>>
        /\ "client" \in Endpoints /\ ASeq(steps)
    BY <1>1 DEF Call, Endpoints, Covered
  <2>2. QED  BY <1>1, <2>1, PlanReplaced
<1>2. ASSUME Handshake PROVE IInv'
  BY <1>1, <1>2, CallsWithoutStream DEF Handshake
<1>3. ASSUME Connect PROVE IInv'
  BY <1>1, <1>3, CallsWithoutStream DEF Connect
<1>4. ASSUME CheckBandwidth PROVE IInv'
  BY <1>1, <1>4, CallsWithoutStream DEF CheckBandwidth
<1>5. ASSUME UserCall PROVE IInv'
  BY <1>1, <1>5, CallsWithoutStream DEF UserCall
<1>6. ASSUME AskToUnpublish PROVE IInv'
  BY <1>1, <1>6, CallsWithoutStream DEF AskToUnpublish
<1>7. ASSUME NEW name \in StreamNames,
             AskToPlay(name) \/ AskToPublish(name) \/ AskToFmlePublish(name)
      PROVE  IInv'
  BY <1>1, <1>7, CallsOfStream DEF AskToPlay, AskToPublish, AskToFmlePublish, Ask
<1>8. QED  BY <1>2, <1>3, <1>4, <1>5, <1>6, <1>7 DEF UserStep

LEMMA LoseKeeps ==
    ASSUME IInv, Lose
    PROVE  IInv'
<1>1. /\ wire' = [e \in Endpoints |-> << >>] /\ UNCHANGED <<plan, stream_id>>
  BY DEF Lose
<1>2. wire'["client"] = << >> /\ wire'["server"] = << >>
  BY <1>1 DEF Endpoints
<1>3. Given(wire'["client"]) /\ OnStream(wire'["server"])
  BY <1>2, EmptyASeq DEF Given, OnStream
<1>4. wire' = [e \in Endpoints |-> wire'[e]]
  BY <1>1
<1>5. QED  BY <1>1, <1>3, <1>4 DEF IInv, Shapes

LEMMA NextIInv == IInv /\ [Next]_vars => IInv'
<1> SUFFICES ASSUME IInv, [Next]_vars PROVE IInv'
  OBVIOUS
<1>1. CASE \E e \in Endpoints : EndpointStep(e)
  BY <1>1, SendKeeps, ReadKeeps, ExpectKeeps DEF EndpointStep
<1>2. CASE Publishing
  BY <1>2, PublishingKeeps
<1>3. CASE ServerStep
  BY <1>3, IdentifyKeeps, ServerCallerKeeps DEF ServerStep
<1>4. CASE UserStep
  BY <1>4, UserKeeps
<1>5. CASE Lose
  BY <1>5, LoseKeeps
<1>6. CASE UNCHANGED vars
  BY <1>6 DEF IInv, Shapes, vars
<1>7. QED  BY <1>1, <1>2, <1>3, <1>4, <1>5, <1>6 DEF Next

------------------------------------------------------------------------------
\* The server's calls wait for no stream id and give always the same; the client's wait for
\* it before they name it, or have it from an earlier stream.
THEOREM Inductive == Spec => []IInv
<1>1. QED  BY InitIInv, NextIInv, PTL DEF Spec

\* A play or publish on its way to the server carries the stream id that the server gave.
THEOREM OnTheRightStream == Spec => []OnTheStreamGiven
<1>1. IInv => OnTheStreamGiven
  BY DEF IInv, OnStream, OnTheStreamGiven
<1>2. QED  BY <1>1, Inductive, PTL

------------------------------------------------------------------------------
(***************************************************************************)
(* Each step of the session is such an event.                              *)
(***************************************************************************)
LEMMA EndpointWrites ==
    ASSUME IInv, Tables, NEW e \in Endpoints, SendPacket(e) \/ SendReply(e)
    PROVE  Tables' /\ ((\E m : Writes(e, m)) \/ (\E why : Fails(e, why)))
<1>1. /\ plan[e] # << >> /\ ASeq(plan[e]) /\ Next1(e) = plan[e][1]
      /\ plan = [f \in Endpoints |-> plan[f]] /\ wire = [f \in Endpoints |-> wire[f]]
  <2>1. plan[e] # << >>
    BY DEF SendPacket, SendReply, In
  <2>2. Shapes /\ ASeq(plan[e])
    BY DEF IInv, Shapes, AwaitsNone, Endpoints
  <2>3. Head(plan[e]) = plan[e][1]
    BY <2>1, <2>2, TailASeq
  <2>4. QED  BY <2>1, <2>2, <2>3 DEF Shapes, Next1
<1>2. PICK command, tid, name, of :
        /\ Write(e, command, tid, name, of)
        /\ \/ /\ plan[e][1].do = "send" /\ command = plan[e][1].command
              /\ tid = plan[e][1].tid /\ name = plan[e][1].name /\ of = plan[e][1].of
           \/ /\ plan[e][1].do = "reply" /\ command = "_result"
              /\ tid = received[e].tid /\ of = received[e].command
  <2>1. CASE SendPacket(e)
    BY <1>1, <2>1 DEF SendPacket, In
  <2>2. CASE SendReply(e)
    <3>1. Write(e, "_result", received[e].tid, "", received[e].command) /\ plan[e][1].do = "reply"
      BY <1>1, <2>2 DEF SendReply, In
    <3>2. QED  BY <3>1
  <2>3. QED  BY <2>1, <2>2
<1>3. UNCHANGED received /\ UNCHANGED Others
  BY DEF SendPacket, SendReply, Others
<1>4. Peer(e) \in Endpoints /\ Peer(e) # e
  BY DEF Peer, Endpoints
<1>5. CASE lost
  <2>1. /\ plan' = [plan EXCEPT ![e] = << >>] /\ status' = [status EXCEPT ![e] = "SOCKET_WRITE"]
        /\ UNCHANGED <<wire, requests>>
    BY <1>2, <1>5 DEF Write, Fail
  <2>2. Tables'
    BY <1>3, <2>1 DEF Tables
  <2>3. /\ plan'[e] = << >> /\ plan'[Peer(e)] = plan[Peer(e)]
        /\ status'[e] = "SOCKET_WRITE" /\ status'[Peer(e)] = status[Peer(e)]
    BY <1>1, <1>4, <2>1 DEF Tables
  <2>4. Fails(e, "SOCKET_WRITE")
    BY <1>1, <1>3, <1>5, <2>1, <2>3 DEF Fails, Reason, LeavesOrReads
  <2>5. QED  BY <2>2, <2>4
<1>6. CASE ~lost
  <2> DEFINE m == Message(command, tid, name, of, StreamIdOf(e, command, of))
             notes == [t \in DOMAIN requests[e] \cup {tid} |->
                         IF t = tid THEN command ELSE requests[e][t]]
  <2>1. m.command = command /\ m.tid = tid /\ m.name = name /\ m.of = of
    BY DEF Message
  <2>2. /\ plan' = [plan EXCEPT ![e] = Tail(plan[e])] /\ UNCHANGED status
        /\ wire' = [wire EXCEPT ![Peer(e)] = Append(wire[Peer(e)], m)]
        /\ command \in Commands => requests' = [requests EXCEPT ![e] = notes]
        /\ command \notin Commands => requests' = [requests EXCEPT ![e] = requests[e]]
    BY <1>2, <1>6 DEF Write, Advance
  <2>3. Says(e, m)
    BY <1>2, <2>1 DEF Says
  <2> HIDE DEF m
  <2>4. /\ plan'[e] = Tail(plan[e]) /\ plan'[Peer(e)] = plan[Peer(e)]
        /\ wire'[e] = wire[e] /\ wire'[Peer(e)] = Append(wire[Peer(e)], m)
    BY <1>1, <1>4, <2>2
  <2>5. /\ requests'[Peer(e)] = requests[Peer(e)]
        /\ command \in Commands => requests'[e] = notes
        /\ command \notin Commands => requests'[e] = requests[e]
    BY <1>4, <2>2 DEF Tables
  <2>6. Noted(e, m)
    BY <2>1, <2>5 DEF Noted
  <2>7. requests' = [f \in Endpoints |-> requests'[f]]
    <3>1. CASE command \in Commands
      <4> HIDE DEF notes
      <4> QED  BY <2>2, <3>1 DEF Tables
    <3>2. CASE command \notin Commands
      BY <2>2, <3>2 DEF Tables
    <3>3. QED  BY <3>1, <3>2
  <2>8. Tables'
    BY <1>3, <2>2, <2>7 DEF Tables
  <2>9. Writes(e, m)
    BY <1>1, <1>3, <1>6, <2>2, <2>3, <2>4, <2>5, <2>6 DEF Writes
  <2>10. QED  BY <2>8, <2>9
<1>7. QED  BY <1>5, <1>6

\* What failing makes of the plans and the states.
LEMMA FailFields ==
    ASSUME IInv, Tables, NEW e \in Endpoints, NEW why, why # "open", Fail(e, why), Reason(e, why),
           plan[e] # << >>, UNCHANGED <<requests, received>>, UNCHANGED Others,
           wire' = wire \/ (wire[e] # << >> /\ wire' = [wire EXCEPT ![e] = Tail(wire[e])])
    PROVE  Tables' /\ Fails(e, why)
<1>1. Peer(e) \in Endpoints /\ Peer(e) # e
  BY DEF Peer, Endpoints
<1>2. plan = [f \in Endpoints |-> plan[f]] /\ wire = [f \in Endpoints |-> wire[f]]
  BY DEF IInv, Shapes
<1>3. plan' = [plan EXCEPT ![e] = << >>] /\ status' = [status EXCEPT ![e] = why]
  BY DEF Fail
<1>4. Tables'
  BY <1>3 DEF Tables
<1>5. /\ plan'[e] = << >> /\ plan'[Peer(e)] = plan[Peer(e)]
      /\ status'[e] = why /\ status'[Peer(e)] = status[Peer(e)]
  BY <1>1, <1>2, <1>3 DEF Tables
<1>6. wire'[Peer(e)] = wire[Peer(e)] /\ LeavesOrReads(e)
  BY <1>1, <1>2 DEF LeavesOrReads
<1>7. QED  BY <1>4, <1>5, <1>6 DEF Fails

LEMMA EndpointReads ==
    ASSUME IInv, Tables, NEW e \in Endpoints, ReadFails(e) \/ ReadBytes(e) \/ ExpectMessage(e)
    PROVE  Tables' /\ ((\E why : Fails(e, why)) \/ Reads(e) \/ Drops(e))
<1>1. plan = [f \in Endpoints |-> plan[f]] /\ wire = [f \in Endpoints |-> wire[f]]
  BY DEF IInv, Shapes
<1>2. Peer(e) \in Endpoints /\ Peer(e) # e
  BY DEF Peer, Endpoints
<1>3. ASeq(plan[e]) /\ ASeq(wire[e])
  BY DEF IInv, Shapes, AwaitsNone, Given, OnStream, Endpoints
<1>4. UNCHANGED requests /\ UNCHANGED Others
  BY DEF ReadFails, ReadBytes, ExpectMessage, Others
<1>5. plan[e] # << >> /\ Next1(e) = plan[e][1]
  <2>1. plan[e] # << >>
    BY DEF ReadFails, Waits, ReadBytes, ExpectMessage, In
  <2>2. QED  BY <1>3, <2>1, TailASeq DEF Next1
<1>6. CASE ReadFails(e)
  <2>1. /\ Fail(e, "SOCKET_READ") /\ UNCHANGED <<wire, requests, received>> /\ UNCHANGED Others
        /\ Reason(e, "SOCKET_READ")
    BY <1>4, <1>6 DEF ReadFails, Reason
  <2>2. QED  BY <1>5, <2>1, FailFields
<1>7. CASE ReadBytes(e) \/ ExpectMessage(e)
  <2>1. wire[e] # << >> /\ wire' = [wire EXCEPT ![e] = Tail(wire[e])]
    BY <1>7 DEF ReadBytes, ExpectMessage
  <2>2. Head(wire[e]) = wire[e][1]
    BY <1>3, <2>1, TailASeq
  <2>3. wire'[e] = Tail(wire[e]) /\ wire'[Peer(e)] = wire[Peer(e)]
    BY <1>1, <1>2, <2>1
  <2> DEFINE m == wire[e][1]
             packet == Decode(e, m)
  <2>4. CASE ReadBytes(e)
    <3>1. UNCHANGED received /\ plan[e][1].do = "read"
      BY <1>5, <2>4 DEF ReadBytes, In
    <3>2. CASE m.command = "c0c1" /\ m.tid # 3
      <4>1. Fail(e, "PLAIN_REQUIRED") /\ Reason(e, "PLAIN_REQUIRED")
        BY <2>1, <2>2, <2>4, <3>2 DEF ReadBytes, Reason
      <4>2. QED  BY <1>4, <1>5, <2>1, <3>1, <4>1, FailFields
    <3>3. CASE ~(m.command = "c0c1" /\ m.tid # 3)
      <4>1. plan' = [plan EXCEPT ![e] = Tail(plan[e])] /\ UNCHANGED status
        BY <2>2, <2>4, <3>3 DEF ReadBytes, Advance
      <4>2. plan'[e] = Tail(plan[e]) /\ plan'[Peer(e)] = plan[Peer(e)]
        BY <1>1, <1>2, <4>1
      <4>3. Tables'
        BY <1>4, <3>1, <4>1 DEF Tables
      <4>4. Reads(e)
        BY <1>4, <1>5, <2>1, <2>3, <3>1, <4>1, <4>2 DEF Reads, TakesOne
      <4>5. QED  BY <4>3, <4>4
    <3>4. QED  BY <3>2, <3>3
  <2>5. CASE ExpectMessage(e)
    <3>1. plan[e][1].do = "expect"
      BY <1>5, <2>5 DEF ExpectMessage, In
    <3>2. CASE packet \in Errors
      <4>1. Fail(e, packet) /\ UNCHANGED received
        BY <2>2, <2>5, <3>2 DEF ExpectMessage
      <4>2. Reason(e, packet) /\ packet # "open"
        BY <2>1, <3>2 DEF Reason, Errors
      <4> HIDE DEF packet
      <4>3. QED  BY <1>4, <1>5, <2>1, <4>1, <4>2, FailFields
    <3>3. CASE packet \notin Errors /\ packet = plan[e][1].packet
      <4>1. /\ plan' = [plan EXCEPT ![e] = Tail(plan[e])] /\ UNCHANGED status
            /\ received' = [received EXCEPT ![e] = m]
        BY <1>5, <2>2, <2>5, <3>3 DEF ExpectMessage, Advance, Wanted
      <4> HIDE DEF m, packet
      <4>2. plan'[e] = Tail(plan[e]) /\ plan'[Peer(e)] = plan[Peer(e)]
        BY <1>1, <1>2, <4>1
      <4>3. received'[e] = m /\ received'[Peer(e)] = received[Peer(e)]
        BY <1>2, <4>1 DEF Tables
      <4>4. Tables'
        BY <1>4, <4>1 DEF Tables
      <4>5. TakesOne(e)
        BY <1>4, <1>5, <2>1, <2>3, <4>1, <4>2, <4>3 DEF TakesOne
      <4>6. Reads(e)
        BY <3>1, <3>3, <4>2, <4>3, <4>5 DEF Reads, m, packet
      <4>7. QED  BY <4>4, <4>6
    <3>4. CASE packet \notin Errors /\ packet # plan[e][1].packet
      <4>1. UNCHANGED <<plan, received, status>>
        BY <1>5, <2>2, <2>5, <3>4 DEF ExpectMessage, Wanted
      <4>2. TakesOne(e)
        BY <1>4, <1>5, <2>1, <2>3, <4>1 DEF TakesOne
      <4>3. Tables'
        BY <1>4, <4>1 DEF Tables
      <4>4. QED  BY <3>1, <3>4, <4>1, <4>2, <4>3 DEF Drops
    <3>5. QED  BY <3>2, <3>3, <3>4
  <2>6. QED  BY <1>7, <2>4, <2>5
<1>8. QED  BY <1>6, <1>7

\* A plan that is replaced.
LEMMA PlanFields ==
    ASSUME IInv, NEW e \in Endpoints, NEW p, plan' = [plan EXCEPT ![e] = p]
    PROVE  plan'[e] = p /\ plan'[Peer(e)] = plan[Peer(e)]
<1>1. plan = [f \in Endpoints |-> plan[f]]
  BY DEF IInv, Shapes
<1>2. Peer(e) \in Endpoints /\ Peer(e) # e
  BY DEF Peer, Endpoints
<1>3. QED  BY <1>1, <1>2

LEMMA ServerEvents ==
    ASSUME IInv, Tables, ServerStep
    PROVE  /\ Tables'
           /\ \/ \E why : Fails("server", why)
              \/ Drops("server") \/ \E p : Identifies(p) \/ Decides(p)
              \/ Serves \/ Unpublishes
<1>1. "server" \in Endpoints /\ Peer("server") = "client"
  BY DEF Endpoints, Peer
<1>2. plan["server"] # << >> /\ Next1("server") = plan["server"][1]
  <2>1. plan["server"] # << >> /\ ASeq(plan["server"])
    BY DEF ServerStep, Identify, Decide, Reject, Serve, Unpublish, In, IInv, AwaitsNone
  <2>2. QED  BY <2>1, TailASeq DEF Next1
<1>3. CASE Identify
  <2> DEFINE m == wire["server"][1]
             packet == Decode("server", m)
             at == plan["server"][1].do
             p == IF at = "identify" THEN AtFirst(m, packet) ELSE AfterCreateStream(m, packet)
  <2>1. /\ at \in {"identify", "level1"} /\ wire["server"] # << >>
        /\ wire' = [wire EXCEPT !["server"] = Tail(wire["server"])]
        /\ UNCHANGED <<requests, received>> /\ UNCHANGED Others
    BY <1>2, <1>3 DEF Identify, In, Others
  <2>2. Head(wire["server"]) = m
    BY <2>1, TailASeq DEF IInv, OnStream
  <2>3. wire'["server"] = Tail(wire["server"]) /\ wire'["client"] = wire["client"]
    BY <2>1 DEF IInv, Shapes, Endpoints
  <2>4. CASE m.command \in IgnoredByIdentify
    <3>1. UNCHANGED <<plan, status>>
      BY <1>3, <2>2, <2>4 DEF Identify
    <3>2. Tables' /\ TakesOne("server")
      BY <1>1, <1>2, <2>1, <2>3, <3>1 DEF Tables, TakesOne
    <3>3. QED  BY <2>1, <2>4, <3>1, <3>2 DEF Drops
  <2>5. CASE m.command \notin IgnoredByIdentify /\ packet \in Errors
    <3>1. Fail("server", packet)
      BY <1>3, <2>2, <2>5 DEF Identify
    <3>2. Reason("server", packet) /\ packet # "open"
      BY <2>1, <2>5 DEF Reason, Errors
    <3> HIDE DEF packet
    <3>3. QED  BY <1>1, <1>2, <2>1, <3>1, <3>2, FailFields
  <2>6. CASE m.command \notin IgnoredByIdentify /\ packet \notin Errors
    <3>1. plan' = [plan EXCEPT !["server"] = p] /\ UNCHANGED status
      BY <1>2, <1>3, <2>2, <2>6 DEF Identify
    <3>2. \/ at = "identify" /\ p = AtFirst(m, packet)
          \/ at = "level1" /\ p = AfterCreateStream(m, packet)
      BY <2>1
    <3> HIDE DEF p
    <3>3. plan'["server"] = p /\ plan'["client"] = plan["client"]
      BY <1>1, <3>1, PlanFields
    <3>4. Tables' /\ TakesOne("server")
      BY <1>1, <1>2, <2>1, <2>3, <3>1, <3>3 DEF Tables, TakesOne
    <3>5. Identifies(p)
      BY <2>1, <2>6, <3>2, <3>3, <3>4 DEF Identifies
    <3>6. QED  BY <3>4, <3>5
  <2>7. QED  BY <2>4, <2>5, <2>6
<1>4. CASE Decide
  <2>1. plan["server"][1].do = "decide"
    BY <1>2, <1>4 DEF Decide, In
  <2>2. PICK p \in IF received["server"].name = "check"
                   THEN {ServerCheck("no duration"), ServerCheck("1000")}
                   ELSE {Accept, ResponseConnectReject \o <<Step("reject")>>} :
          plan' = [plan EXCEPT !["server"] = p]
    BY <1>4 DEF Decide
  <2>3. plan'["server"] = p /\ plan'["client"] = plan["client"]
    BY <1>1, <2>2, PlanFields
  <2>4. /\ UNCHANGED <<wire, requests, received, status, lost>> /\ UNCHANGED Others /\ Tables'
    BY <1>4 DEF Decide, Others, Tables
  <2>5. \/ received["server"].name = "check" /\ p \in {ServerCheck("no duration"), ServerCheck("1000")}
        \/ /\ received["server"].name # "check"
           /\ p \in {Accept, ResponseConnectReject \o <<Step("reject")>>}
    BY <2>2
  <2>6. Decides(p)
    BY <1>1, <1>2, <2>1, <2>3, <2>4, <2>5 DEF Decides, Plans
  <2>7. QED  BY <2>4, <2>6
<1>5. CASE Reject
  <2>1. /\ Fail("server", "REJECTED") /\ UNCHANGED <<wire, requests, received>> /\ UNCHANGED Others
        /\ Reason("server", "REJECTED")
    BY <1>5 DEF Reject, Reason, Others
  <2>2. QED  BY <1>1, <1>2, <2>1, FailFields
<1>6. CASE Serve
  <2>1. plan["server"][1].do = "serve"
    BY <1>2, <1>6 DEF Serve, In
  <2>2. /\ served' = Append(served, [kind |-> plan["server"][1].kind, name |-> plan["server"][1].name])
        /\ plan' = [plan EXCEPT !["server"] = <<Expect("FMLEStart"), Step("unpublish")>>]
    BY <1>2, <1>6 DEF Serve, Expect
  <2>3. UNCHANGED <<wire, requests, received, status, lost, phase, called, asked>> /\ Tables'
    BY <1>6 DEF Serve, Tables
  <2>4. /\ plan'["server"] = <<Expect("FMLEStart"), Step("unpublish")>>
        /\ plan'["client"] = plan["client"]
    BY <1>1, <2>2, PlanFields
  <2>5. Serves
    BY <1>1, <1>2, <2>1, <2>2, <2>3, <2>4 DEF Serves, Plans
  <2>6. QED  BY <2>3, <2>5
<1>7. CASE Unpublish
  <2>1. plan["server"][1].do = "unpublish"
    BY <1>2, <1>7 DEF Unpublish, In
  <2>2. plan' = [plan EXCEPT !["server"] =
                   FmleUnpublish(received["server"].tid) \o <<Step("identify")>>]
    BY <1>7 DEF Unpublish
  <2>3. UNCHANGED <<wire, requests, received, status, lost>> /\ UNCHANGED Others /\ Tables'
    BY <1>7 DEF Unpublish, Others, Tables
  <2>4. /\ plan'["server"] = FmleUnpublish(received["server"].tid) \o <<Step("identify")>>
        /\ plan'["client"] = plan["client"]
    BY <1>1, <2>2, PlanFields
  <2>5. Unpublishes
    BY <1>1, <1>2, <2>1, <2>3, <2>4 DEF Unpublishes, Plans
  <2>6. QED  BY <2>3, <2>5
<1>8. QED  BY <1>3, <1>4, <1>5, <1>6, <1>7 DEF ServerStep

LEMMA ClientPublishes ==
    ASSUME IInv, Tables, Publishing
    PROVE  Tables' /\ ((\E why : Fails("client", why)) \/ (\E n \in Nat : Publishes(n)))
<1>1. "client" \in Endpoints /\ Peer("client") = "server"
  BY DEF Endpoints, Peer
<1>2. plan["client"] # << >> /\ plan["client"][1].do = "publishing"
  <2>1. plan["client"] # << >> /\ ASeq(plan["client"])
    BY DEF Publishing, In, IInv, Shapes
  <2>2. Next1("client") = plan["client"][1]
    BY <2>1, TailASeq DEF Next1
  <2>3. QED  BY <2>1, <2>2 DEF Publishing, In
<1>3. UNCHANGED <<wire, requests, received>> /\ UNCHANGED Others
  BY DEF Publishing, Others
<1>4. CASE Fail("client", "BWTC_DATA")
  <2>1. Reason("client", "BWTC_DATA")
    BY DEF Reason
  <2>2. QED  BY <1>1, <1>2, <1>3, <1>4, <2>1, FailFields
<1>5. CASE ~Fail("client", "BWTC_DATA")
  <2>1. PICK n \in 0..MaxPublishing :
          plan' = [plan EXCEPT !["client"] = [k \in 1..n |-> Send("publishing")]
                                               \o Tail(plan["client"])]
    BY <1>5 DEF Publishing
  <2> DEFINE q == [k \in 1..n |-> Send("publishing")] \o Tail(plan["client"])
  <2>2. plan' = [plan EXCEPT !["client"] = q]
    BY <2>1
  <2>3. n \in Nat /\ UNCHANGED status /\ Tables'
    <3>1. n \in Nat
      BY SessionAssumption
    <3>2. UNCHANGED status
      BY <1>5 DEF Publishing
    <3>3. QED  BY <1>3, <3>1, <3>2 DEF Tables
  <2>4. Plans("client", q)
    <3> HIDE DEF q
    <3>1. plan'["client"] = q /\ plan'["server"] = plan["server"]
      BY <1>1, <2>2, PlanFields
    <3>2. QED  BY <1>1, <1>3, <2>3, <3>1 DEF Plans, Others
  <2>5. Publishes(n)
    BY <1>2, <1>3, <2>4 DEF Publishes
  <2>6. QED  BY <2>3, <2>5
<1>6. QED  BY <1>4, <1>5

LEMMA CallFields ==
    ASSUME IInv, Tables, NEW p, NEW next, Call(p, next)
    PROVE  Tables' /\ Calls(p) /\ phase' = next
<1>1. "client" \in Endpoints /\ Peer("client") = "server"
  BY DEF Endpoints, Peer
<1>2. plan' = [plan EXCEPT !["client"] = p]
  BY DEF Call
<1>3. plan'["client"] = p /\ plan'["server"] = plan["server"]
  BY <1>1, <1>2, PlanFields
<1>4. QED  BY <1>1, <1>3 DEF Call, Calls, Plans, Tables

LEMMA EveryStep ==
    ASSUME IInv, Tables, Next
    PROVE  Event /\ Tables'
<1>1. "client" \in Endpoints /\ "server" \in Endpoints
  BY DEF Endpoints
<1>2. CASE \E e \in Endpoints : EndpointStep(e)
  <2>1. PICK e \in Endpoints : EndpointStep(e)
    BY <1>2
  <2>2. CASE SendPacket(e) \/ SendReply(e)
    BY <2>2, EndpointWrites DEF Event
  <2>3. CASE ReadFails(e) \/ ReadBytes(e) \/ ExpectMessage(e)
    BY <2>3, EndpointReads DEF Event
  <2>4. QED  BY <2>1, <2>2, <2>3 DEF EndpointStep
<1>3. CASE Publishing
  BY <1>1, <1>3, ClientPublishes DEF Event
<1>4. CASE ServerStep
  BY <1>1, <1>4, ServerEvents DEF Event
<1>5. CASE UserStep
  <2>1. UNCHANGED <<requests, received, status>>
    BY <1>5 DEF UserStep, Handshake, Connect, CheckBandwidth, UserCall, AskToUnpublish,
               AskToPlay, AskToPublish, AskToFmlePublish, Ask, Call
  <2>2. QED  BY <1>5, <2>1 DEF Tables, Event
<1>6. CASE Lose
  BY <1>6 DEF Lose, Tables, Event
<1>7. QED  BY <1>2, <1>3, <1>4, <1>5, <1>6 DEF Next

------------------------------------------------------------------------------
LEMMA Fields ==
    /\ \A command, tid, name :
         /\ Request(command, tid, name).do = "send" /\ Request(command, tid, name).command = command
         /\ Request(command, tid, name).tid = tid /\ Request(command, tid, name).name = name
    /\ \A command :
         /\ Send(command).do = "send" /\ Send(command).command = command
         /\ Send(command).tid = 0 /\ Send(command).name = ""
    /\ \A tid, of :
         /\ Result(tid, of).do = "send" /\ Result(tid, of).command = "_result"
         /\ Result(tid, of).tid = tid /\ Result(tid, of).of = of
    /\ \A bytes : Read(bytes).do = "read" /\ Read(bytes).packet = bytes
    /\ \A kind, name : Serving(kind, name).do = "serve" /\ Serving(kind, name).kind = kind
                                                        /\ Serving(kind, name).name = name
    /\ \A do : Step(do).do = do
    /\ \A packet : Expect(packet).do = "expect" /\ Expect(packet).packet = packet
BY DEF Request, Send, Result, Read, Serving, Step, Expect

LEMMA AtFields ==
    \A place, n : At(place, n).at = place /\ At(place, n).done = n
                  /\ (place \in Places /\ n \in Nat => At(place, n) \in Views)
BY DEF At, Views

LEMMA SameView ==
    ASSUME NEW v \in Views, NEW w \in Views, v.at = w.at, v.done = w.done
    PROVE  v = w
BY DEF Views

LEMMA ViewIsAt ==
    ASSUME NEW v \in Views
    PROVE  v = At(v.at, v.done) /\ v.at \in Places /\ v.done \in Nat
BY DEF Views, At

LEMMA RankRises ==
    ASSUME NEW asks, NEW v \in Views, NEW m, NEW w \in Views, Moves(asks, v, m, w)
    PROVE  Rank(v) \in Int /\ Rank(w) \in Int /\ Rank(v) <= Rank(w)
<1>1. v.at \in Places /\ v.done \in Nat /\ w.at \in Places /\ w.done \in Nat
  BY DEF Views
<1>2. Rank(v) \in Int /\ Rank(w) \in Int
  BY <1>1 DEF Rank, Places
<1>3. CASE w = v
  BY <1>2, <1>3
<1>4. CASE <<v.at, m.command, w.at>> \in Ways /\ w.done = v.done
  BY <1>1, <1>4 DEF Ways, Rank
<1>5. CASE v.at = "connect" /\ w = At(Connected(m.name), v.done)
  <2>1. w.at \in {"identify", "check1"} /\ w.done = v.done
    BY <1>5, AtFields DEF Connected
  <2>2. QED  BY <1>1, <1>5, <2>1 DEF Rank
<1>6. CASE v.at = "identify" /\ w = At("fc", v.done)
  <2>1. w.at = "fc" /\ w.done = v.done
    BY <1>6, AtFields
  <2>2. QED  BY <1>1, <1>6, <2>1 DEF Rank
<1>7. CASE v.at \in {"level1", "publish"} /\ w = At("media", v.done + 1)
  <2>1. w.at = "media" /\ w.done = v.done + 1
    BY <1>7, AtFields
  <2>2. QED  BY <1>1, <1>7, <2>1 DEF Rank
<1>8. QED  BY <1>3, <1>4, <1>5, <1>6, <1>7 DEF Moves

------------------------------------------------------------------------------
(***************************************************************************)
(* Ways, and what is left of them.                                         *)
(***************************************************************************)
LEMMA PathTail ==
    ASSUME NEW n \in Nat, n # 0, NEW t, Path(t, n)
    PROVE  /\ Path(Tail(t), n - 1)
           /\ \A k \in 1..n : Tail(t)[k] = t[k + 1]
           /\ Len(t) = n + 1 /\ Len(Tail(t)) = n
           /\ t[1] \in Views /\ t[2] \in Views
           /\ Tail(t)[1] = t[2] /\ Tail(t)[Len(Tail(t))] = t[Len(t)]
<1>1. ASeq(t) /\ Len(t) = n + 1 /\ \A k \in 1..(n + 1) : t[k] \in Views
  BY DEF Path
<1>2. t # << >>
  BY <1>1, EmptyASeq
<1>3. ASeq(Tail(t)) /\ Len(Tail(t)) = n /\ \A k \in 1..n : Tail(t)[k] = t[k + 1]
  BY <1>1, <1>2, TailASeq
<1>4. \A k \in 1..n : k + 1 \in 1..(n + 1)
  OBVIOUS
<1>5. \A k \in 1..n : Tail(t)[k] \in Views
  BY <1>1, <1>3, <1>4
<1>6. 1 \in 1..n /\ n \in 1..n /\ 1 \in 1..(n + 1) /\ 2 \in 1..(n + 1) /\ n = (n - 1) + 1
  OBVIOUS
<1>7. QED  BY <1>1, <1>3, <1>5, <1>6 DEF Path

LEMMA PathAppend ==
    ASSUME NEW n \in Nat, NEW t, Path(t, n), NEW w \in Views
    PROVE  /\ Path(Append(t, w), n + 1) /\ Len(t) = n + 1
           /\ Len(Append(t, w)) = n + 2 /\ Append(t, w)[n + 2] = w
           /\ \A k \in 1..(n + 1) : Append(t, w)[k] = t[k]
<1>1. ASeq(t) /\ Len(t) = n + 1 /\ \A k \in 1..(n + 1) : t[k] \in Views
  BY DEF Path
<1>2. /\ ASeq(Append(t, w)) /\ Len(Append(t, w)) = n + 2 /\ Append(t, w)[n + 2] = w
      /\ \A k \in 1..(n + 1) : Append(t, w)[k] = t[k]
  BY <1>1, AppendASeq
<1>3. \A k \in 1..(n + 2) : Append(t, w)[k] \in Views
  <2>1. \A k \in 1..(n + 2) : k \in 1..(n + 1) \/ k = n + 2
    OBVIOUS
  <2>2. QED  BY <1>1, <1>2, <2>1
<1>4. QED  BY <1>1, <1>2, <1>3 DEF Path

LEMMA OnePath ==
    ASSUME NEW v \in Views
    PROVE  Path(<<v>>, 0) /\ <<v>>[1] = v /\ Len(<<v>>) = 1
BY DEF Path, ASeq

LEMMA ClientPathTail ==
    ASSUME NEW asks, NEW t, NEW p, ClientPath(asks, t, p), p # << >>
    PROVE  /\ ClientPath(asks, Tail(t), Tail(p))
           /\ Goes(asks, t[1], Head(p), t[2]) /\ t[1] \in Views /\ t[2] \in Views
           /\ Tail(t)[1] = t[2] /\ Tail(t)[Len(Tail(t))] = t[Len(t)]
<1>1. /\ ASeq(Tail(p)) /\ Head(p) = p[1] /\ Len(p) \in Nat /\ Len(p) # 0
      /\ Len(Tail(p)) = Len(p) - 1 /\ 1 \in 1..Len(p)
      /\ \A k \in 1..Len(Tail(p)) : k + 1 \in 1..Len(p) /\ Tail(p)[k] = p[k + 1]
  BY TailFields DEF ClientPath
<1>2. /\ Path(Tail(t), Len(p) - 1) /\ \A k \in 1..Len(p) : Tail(t)[k] = t[k + 1]
      /\ t[1] \in Views /\ t[2] \in Views
      /\ Len(t) = Len(p) + 1 /\ Len(Tail(t)) = Len(p)
      /\ Tail(t)[1] = t[2] /\ Tail(t)[Len(Tail(t))] = t[Len(t)]
  BY <1>1, PathTail DEF ClientPath
<1>3. ASSUME NEW k \in 1..Len(Tail(p))
      PROVE  Goes(asks, Tail(t)[k], Tail(p)[k], Tail(t)[k + 1])
  <2>1. k + 1 \in 1..Len(p) /\ k \in 1..Len(p) /\ Tail(p)[k] = p[k + 1]
    BY <1>1
  <2>2. Goes(asks, t[k + 1], p[k + 1], t[(k + 1) + 1])
    BY <2>1 DEF ClientPath
  <2>3. QED  BY <1>2, <2>1, <2>2
<1>4. ASSUME NEW j \in 1..Len(Tail(p)), NEW k \in 1..Len(Tail(p)), j < k,
             Awaits(Tail(p)[j]), Awaits(Tail(p)[k])
      PROVE  Rank(Tail(t)[j]) < Rank(Tail(t)[k])
  <2>1. /\ j + 1 \in 1..Len(p) /\ j \in 1..Len(p) /\ Tail(p)[j] = p[j + 1]
        /\ k + 1 \in 1..Len(p) /\ k \in 1..Len(p) /\ Tail(p)[k] = p[k + 1]
        /\ j + 1 < k + 1
    BY <1>1, <1>4
  <2>2. Rank(t[j + 1]) < Rank(t[k + 1])
    BY <1>4, <2>1 DEF ClientPath
  <2>3. QED  BY <1>2, <2>1, <2>2
<1>5. 1 \in 1..Len(p) /\ Goes(asks, t[1], p[1], t[1 + 1])
  BY <1>1 DEF ClientPath
<1>6. ASSUME NEW j \in 1..Len(Tail(t)), NEW k \in 1..Len(Tail(t)), j < k
      PROVE  Rank(Tail(t)[j]) <= Rank(Tail(t)[k])
  <2>1. /\ Len(Tail(t)) = Len(p) /\ Len(t) = Len(p) + 1
        /\ j + 1 \in 1..Len(t) /\ k + 1 \in 1..Len(t) /\ j + 1 < k + 1
        /\ j \in 1..Len(p) /\ k \in 1..Len(p)
    BY <1>1, <1>2, <1>6
  <2>2. Rank(t[j + 1]) <= Rank(t[k + 1])
    BY <2>1 DEF ClientPath
  <2>3. QED  BY <1>2, <2>1, <2>2
<1>7. QED  BY <1>1, <1>2, <1>3, <1>4, <1>5, <1>6 DEF ClientPath

LEMMA WirePathTail ==
    ASSUME NEW asks, NEW v, NEW messages, WirePath(asks, v, messages), messages # << >>
    PROVE  /\ WirePath(asks, Tail(v), Tail(messages))
           /\ Moves(asks, v[1], Head(messages), v[2]) /\ v[1] \in Views /\ v[2] \in Views
           /\ Tail(v)[1] = v[2] /\ Tail(v)[Len(Tail(v))] = v[Len(v)]
           /\ \A k \in 1..Len(Tail(v)) : k + 1 \in 1..Len(v) /\ Tail(v)[k] = v[k + 1]
<1> DEFINE p == messages
<1>1. /\ ASeq(Tail(p)) /\ Head(p) = p[1] /\ Len(p) \in Nat /\ Len(p) # 0
      /\ Len(Tail(p)) = Len(p) - 1 /\ 1 \in 1..Len(p)
      /\ \A k \in 1..Len(Tail(p)) : k + 1 \in 1..Len(p) /\ Tail(p)[k] = p[k + 1]
  BY TailFields DEF WirePath
<1>2. /\ Path(Tail(v), Len(p) - 1) /\ \A k \in 1..Len(p) : Tail(v)[k] = v[k + 1]
      /\ Len(v) = Len(p) + 1 /\ Len(Tail(v)) = Len(p)
      /\ v[1] \in Views /\ v[2] \in Views
      /\ Tail(v)[1] = v[2] /\ Tail(v)[Len(Tail(v))] = v[Len(v)]
  BY <1>1, PathTail DEF WirePath
<1>3. ASSUME NEW k \in 1..Len(Tail(p))
      PROVE  Moves(asks, Tail(v)[k], Tail(p)[k], Tail(v)[k + 1])
  <2>1. k + 1 \in 1..Len(p) /\ k \in 1..Len(p) /\ Tail(p)[k] = p[k + 1]
    BY <1>1
  <2>2. Moves(asks, v[k + 1], p[k + 1], v[(k + 1) + 1])
    BY <2>1 DEF WirePath
  <2>3. QED  BY <1>2, <2>1, <2>2
<1>4. Moves(asks, v[1], p[1], v[1 + 1])
  BY <1>1 DEF WirePath
<1>5. \A k \in 1..Len(Tail(v)) : k + 1 \in 1..Len(v)
  BY <1>1, <1>2
<1>6. QED  BY <1>1, <1>2, <1>3, <1>4, <1>5 DEF WirePath

LEMMA WirePathAppend ==
    ASSUME NEW asks, NEW v, NEW messages, WirePath(asks, v, messages), NEW w \in Views, NEW m,
           Moves(asks, v[Len(v)], m, w)
    PROVE  /\ WirePath(asks, Append(v, w), Append(messages, m))
           /\ Append(v, w)[1] = v[1] /\ Append(v, w)[Len(Append(v, w))] = w
           /\ \A k \in 1..Len(Append(v, w)) : (k \in 1..Len(v) /\ Append(v, w)[k] = v[k])
                                              \/ Append(v, w)[k] = w
<1> DEFINE n == Len(messages)
<1>1. n \in Nat /\ ASeq(messages) /\ Path(v, n)
  BY DEF WirePath, ASeq
<1>2. /\ Path(Append(v, w), n + 1) /\ Len(v) = n + 1
      /\ Len(Append(v, w)) = n + 2 /\ Append(v, w)[n + 2] = w
      /\ \A k \in 1..(n + 1) : Append(v, w)[k] = v[k]
  BY <1>1, PathAppend
<1>3. /\ ASeq(Append(messages, m)) /\ Len(Append(messages, m)) = n + 1
      /\ \A k \in 1..n : Append(messages, m)[k] = messages[k]
      /\ Append(messages, m)[n + 1] = m
  BY <1>1, AppendASeq
<1>4. ASSUME NEW k \in 1..(n + 1)
      PROVE  Moves(asks, Append(v, w)[k], Append(messages, m)[k], Append(v, w)[k + 1])
  <2>1. CASE k \in 1..n
    <3>1. k \in 1..(n + 1) /\ k + 1 \in 1..(n + 1) /\ Moves(asks, v[k], messages[k], v[k + 1])
      BY <1>1, <2>1 DEF WirePath
    <3>2. QED  BY <1>2, <1>3, <2>1, <3>1
  <2>2. CASE k = n + 1
    <3>1. /\ Append(v, w)[k] = v[Len(v)] /\ Append(v, w)[k + 1] = w
          /\ Append(messages, m)[k] = m
      BY <1>1, <1>2, <1>3, <2>2
    <3>2. QED  BY <3>1
  <2>3. k \in 1..n \/ k = n + 1
    BY <1>1
  <2>4. QED  BY <2>1, <2>2, <2>3
<1>5. \A k \in 1..(n + 2) : k \in 1..(n + 1) \/ k = n + 2
  BY <1>1
<1>6. 1 \in 1..(n + 1)
  BY <1>1
<1>7. QED  BY <1>2, <1>3, <1>4, <1>5, <1>6 DEF WirePath

LEMMA ProvidesTail ==
    ASSUME NEW p, ASeq(p), p # << >>, NEW k \in Nat, k >= 1, NEW packet, Provides(p, k + 1, packet)
    PROVE  Provides(Tail(p), k, packet)
<1>1. /\ Len(p) \in Nat /\ Len(Tail(p)) = Len(p) - 1
      /\ \A i \in 1..Len(Tail(p)) : i + 1 \in 1..Len(p) /\ Tail(p)[i] = p[i + 1]
  BY TailFields
<1>2. PICK j \in (k + 1)..Len(p) : Gets(p[j], packet) /\ \A i \in (k + 1)..j : ~Pauses(p[i])
  BY DEF Provides
<1>3. j - 1 \in k..Len(Tail(p)) /\ j - 1 \in 1..Len(Tail(p)) /\ (j - 1) + 1 = j
  BY <1>1, <1>2
<1>4. Gets(Tail(p)[j - 1], packet)
  BY <1>1, <1>2, <1>3
<1>5. \A i \in k..(j - 1) : i + 1 \in (k + 1)..j /\ i \in 1..Len(Tail(p))
  BY <1>1, <1>2, <1>3
<1>6. \A i \in k..(j - 1) : ~Pauses(Tail(p)[i])
  BY <1>1, <1>2, <1>5
<1>7. QED  BY <1>3, <1>4, <1>6 DEF Provides

LEMMA ServerPathTail ==
    ASSUME NEW asks, NEW n, NEW r, NEW p, ServerPath(asks, n, r, p), p # << >>
    PROVE  /\ ServerPath(asks, n, Tail(r), Tail(p)) /\ Tail(r)[1] = r[2]
           /\ Head(p) = p[1] /\ r[1] \in Views /\ r[2] \in Views
           /\ Takes(asks, n, r[1], p[1], r[2]) /\ (Ends(p[1]) => Tail(p) = << >>)
<1>1. /\ ASeq(p) /\ ASeq(Tail(p)) /\ Head(p) = p[1] /\ Len(p) \in Nat /\ Len(p) # 0
      /\ Len(Tail(p)) = Len(p) - 1 /\ 1 \in 1..Len(p)
      /\ \A k \in 1..Len(Tail(p)) : k + 1 \in 1..Len(p) /\ Tail(p)[k] = p[k + 1]
  BY TailFields DEF ServerPath
<1>2. /\ Path(Tail(r), Len(p) - 1) /\ \A k \in 1..Len(p) : Tail(r)[k] = r[k + 1]
      /\ Tail(r)[1] = r[2] /\ r[1] \in Views /\ r[2] \in Views
  <2>1. Path(r, Len(p))
    BY DEF ServerPath
  <2>2. QED  BY <1>1, <2>1, PathTail
<1>3. ASSUME NEW k \in 1..Len(Tail(p))
      PROVE  /\ Takes(asks, n, Tail(r)[k], Tail(p)[k], Tail(r)[k + 1])
             /\ Ends(Tail(p)[k]) => k = Len(Tail(p))
  <2>1. k + 1 \in 1..Len(p) /\ k \in 1..Len(p) /\ Tail(p)[k] = p[k + 1]
    BY <1>1
  <2>2. /\ Takes(asks, n, r[k + 1], p[k + 1], r[(k + 1) + 1])
        /\ Ends(p[k + 1]) => k + 1 = Len(p)
    BY <2>1 DEF ServerPath
  <2>3. k + 1 = Len(p) => k = Len(Tail(p))
    <3>1. Len(p) \in Nat /\ k \in Nat /\ Len(Tail(p)) = Len(p) - 1
      BY <1>1, <2>1
    <3> DEFINE l == Len(p)
               m == Len(Tail(p))
    <3>2. l \in Nat /\ k \in Nat /\ m = l - 1
      BY <3>1
    <3> HIDE DEF l, m
    <3>3. k + 1 = l => k = m
      BY <3>2
    <3>4. QED  BY <3>3 DEF l, m
  <2>4. Takes(asks, n, Tail(r)[k], Tail(p)[k], Tail(r)[k + 1])
    BY <1>2, <2>1, <2>2
  <2>5. QED  BY <2>1, <2>2, <2>3, <2>4
<1>4. ASSUME NEW k \in 2..Len(Tail(p))
      PROVE  Succeeds(Tail(p)[k - 1], Tail(p)[k])
  <2>1. /\ k \in 1..Len(Tail(p)) /\ k - 1 \in 1..Len(Tail(p))
        /\ (k - 1) + 1 = k /\ (k + 1) - 1 = k /\ k + 1 \in 2..Len(p)
    BY <1>1
  <2>2. Tail(p)[k - 1] = p[k] /\ Tail(p)[k] = p[k + 1]
    BY <1>1, <2>1
  <2>3. Succeeds(p[(k + 1) - 1], p[k + 1])
    BY <2>1 DEF ServerPath
  <2>4. QED  BY <2>1, <2>2, <2>3
<1>5. ASSUME NEW k \in 1..Len(Tail(p)), Awaits(Tail(p)[k])
      PROVE  /\ \A packet \in Due(Tail(r)[k].at) : Provides(Tail(p), k + 1, packet)
             /\ Tail(r)[k].at = "connect" =>
                  k + 1 = Len(Tail(p)) /\ Tail(p)[k + 1].do = "decide"
  <2>1. k + 1 \in 1..Len(p) /\ k \in 1..Len(p) /\ Tail(p)[k] = p[k + 1]
    BY <1>1
  <2>2. /\ \A packet \in Due(r[k + 1].at) : Provides(p, (k + 1) + 1, packet)
        /\ r[k + 1].at = "connect" => (k + 1) + 1 = Len(p) /\ p[(k + 1) + 1].do = "decide"
    BY <1>5, <2>1 DEF ServerPath
  <2>3. Tail(r)[k] = r[k + 1]
    BY <1>2, <2>1
  <2>4. ASSUME NEW packet \in Due(Tail(r)[k].at) PROVE Provides(Tail(p), k + 1, packet)
    <3>1. Provides(p, (k + 1) + 1, packet)
      BY <2>2, <2>3
    <3>2. k + 1 \in Nat /\ k + 1 >= 1
      BY <2>1
    <3>3. QED  BY <1>1, <3>1, <3>2, ProvidesTail
  <2>5. ASSUME Tail(r)[k].at = "connect"
        PROVE  k + 1 = Len(Tail(p)) /\ Tail(p)[k + 1].do = "decide"
    <3>1. (k + 1) + 1 = Len(p) /\ p[(k + 1) + 1].do = "decide"
      BY <2>2, <2>3, <2>5
    <3>2. Len(p) \in Nat /\ k \in Nat /\ Len(Tail(p)) = Len(p) - 1
      BY <1>1, <2>1
    <3>4. k + 1 = Len(Tail(p)) /\ k + 1 \in 1..Len(Tail(p))
      BY <3>1, <3>2
    <3>3. QED  BY <1>1, <3>1, <3>4
  <2>6. QED  BY <2>4, <2>5
<1>6. /\ Takes(asks, n, r[1], p[1], r[1 + 1]) /\ (Ends(p[1]) => 1 = Len(p))
  BY <1>1 DEF ServerPath
<1>7. Ends(p[1]) => Tail(p) = << >>
  <2>1. Len(p) = 1 => Len(Tail(p)) = 0
    BY <1>1
  <2>2. QED  BY <1>1, <1>6, <2>1, LengthZero
<1>8. QED  BY <1>1, <1>2, <1>3, <1>4, <1>5, <1>6, <1>7 DEF ServerPath

------------------------------------------------------------------------------
(***************************************************************************)
(* What the client says and what the server makes of it.                   *)
(***************************************************************************)
LEMMA NoResultFromClient ==
    ASSUME NEW asks, NEW v, NEW m, NEW w, Moves(asks, v, m, w)
    PROVE  m.command # "_result"
BY DEF Moves, Idle, Ways

\* What the server waits for takes it where the client means it to be.
LEMMA AcceptsAgree ==
    ASSUME NEW asks, NEW v \in Views, NEW m, NEW w \in Views, Moves(asks, v, m, w),
           NEW n, NEW step, NEW u \in Views, Takes(asks, n, v, step, u), Awaits(step), v.at # "connect",
           step.do = "expect" => PacketOf(m.command) = step.packet
    PROVE  w = u
<1>1. /\ <<v.at, step.packet, u.at>> \in Accepts
      /\ u.done = IF v.at = "publish" THEN v.done + 1 ELSE v.done
      /\ step.do = "read" <=> v.at \in {"c0c1", "c2"}
  BY DEF Takes, Awaits, Ends
<1>2. w.at = u.at /\ w.done = u.done
  <2>1. CASE <<v.at, m.command>> \in Idle /\ w = v
    <3>1. v.at \notin {"c0c1", "c2"}
      BY <2>1 DEF Idle
    <3>2. PacketOf(m.command) = step.packet
      BY <1>1, <3>1 DEF Awaits
    <3>3. \/ v.at = "media" /\ m.command \in {"UserControl", "SetChunkSize"}
          \/ v.at = "check1" /\ m.command = "SetWindowAckSize"
          \/ v.at = "check4" /\ m.command \in {"publishing", "stopPublish"}
      BY <1>1, <2>1 DEF Idle, Accepts
    <3>4. PacketOf(m.command) = m.command
      BY <3>3 DEF PacketOf
    <3>5. QED  BY <1>1, <3>2, <3>3, <3>4 DEF Accepts
  <2>2. CASE <<v.at, m.command, w.at>> \in Ways /\ w.done = v.done
    BY <1>1, <2>2 DEF Ways, Accepts
  <2>3. CASE v.at = "identify"
    BY <1>1, <2>3 DEF Accepts
  <2>4. CASE w = At("media", v.done + 1) /\ v.at \in {"level1", "publish"}
    BY <1>1, <2>4, AtFields DEF Accepts
  <2>5. QED  BY <2>1, <2>2, <2>3, <2>4 DEF Moves
<1>3. QED  BY <1>2, SameView

\* What it does not wait for leaves it where it is.
LEMMA DroppedStays ==
    ASSUME NEW asks, NEW n, NEW v \in Views, NEW m, NEW w, Moves(asks, v, m, w),
           NEW step, NEW u, Takes(asks, n, v, step, u), step.do = "expect",
           PacketOf(m.command) # step.packet
    PROVE  w = v
<1>1. <<v.at, step.packet, u.at>> \in Accepts
  BY DEF Takes, Awaits
<1>2. CASE <<v.at, m.command, w.at>> \in Ways
  BY <1>1, <1>2 DEF Ways, Accepts, PacketOf
<1>3. CASE v.at = "connect" /\ m.command = "connect"
  BY <1>1, <1>3 DEF Accepts, PacketOf
<1>4. CASE v.at \in {"identify", "level1"}
  BY <1>1, <1>4 DEF Accepts
<1>5. CASE v.at = "publish" /\ m.command = "publish"
  BY <1>1, <1>5 DEF Accepts, PacketOf
<1>6. QED  BY <1>2, <1>3, <1>4, <1>5 DEF Moves

------------------------------------------------------------------------------
(***************************************************************************)
(* The ways of a plan, from its end.                                       *)
(***************************************************************************)
LEMMA ConsFields ==
    ASSUME NEW step, NEW p, ASeq(p)
    PROVE  /\ ASeq(Cons(step, p)) /\ Len(Cons(step, p)) = Len(p) + 1 /\ Len(p) \in Nat
           /\ Cons(step, p)[1] = step
           /\ \A k \in 1..Len(p) : Cons(step, p)[k + 1] = p[k]
           /\ \A k \in 1..(Len(p) + 1) : k = 1 \/ (k - 1 \in 1..Len(p) /\ (k - 1) + 1 = k)
<1>1. ASeq(<<step>>) /\ Len(<<step>>) = 1 /\ <<step>>[1] = step
  BY DEF ASeq
<1>2. /\ ASeq(Cons(step, p)) /\ Len(Cons(step, p)) = 1 + Len(p)
      /\ \A k \in 1..1 : Cons(step, p)[k] = <<step>>[k]
      /\ \A k \in 1..Len(p) : Cons(step, p)[1 + k] = p[k]
  BY <1>1, ConcatASeq DEF Cons
<1>3. Len(p) \in Nat /\ 1 \in 1..1 /\ \A k \in 1..Len(p) : 1 + k = k + 1
  BY DEF ASeq
<1>4. \A k \in 1..(Len(p) + 1) : k = 1 \/ (k - 1 \in 1..Len(p) /\ (k - 1) + 1 = k)
  BY <1>3
<1>5. QED  BY <1>1, <1>2, <1>3, <1>4

LEMMA PathCons ==
    ASSUME NEW n \in Nat, NEW t, Path(t, n), NEW v \in Views
    PROVE  /\ Path(Cons(v, t), n + 1) /\ Len(t) = n + 1 /\ Len(Cons(v, t)) = n + 2
           /\ Cons(v, t)[1] = v
           /\ \A k \in 1..(n + 1) : Cons(v, t)[k + 1] = t[k]
<1>1. ASeq(t) /\ Len(t) = n + 1 /\ \A k \in 1..(n + 1) : t[k] \in Views
  BY DEF Path
<1>2. /\ ASeq(Cons(v, t)) /\ Len(Cons(v, t)) = n + 2 /\ Cons(v, t)[1] = v
      /\ \A k \in 1..(n + 1) : Cons(v, t)[k + 1] = t[k]
  <2>1. ASeq(Cons(v, t)) /\ Len(Cons(v, t)) = Len(t) + 1 /\ Cons(v, t)[1] = v
    BY <1>1, ConsFields
  <2>2. \A k \in 1..Len(t) : Cons(v, t)[k + 1] = t[k]
    BY <1>1, ConsFields
  <2>3. QED  BY <1>1, <2>1, <2>2
<1>3. \A k \in 1..(n + 2) : Cons(v, t)[k] \in Views
  <2>1. \A k \in 1..(n + 2) : k = 1 \/ (k - 1 \in 1..(n + 1) /\ (k - 1) + 1 = k)
    OBVIOUS
  <2>2. QED  BY <1>1, <1>2, <2>1
<1>4. QED  BY <1>1, <1>2, <1>3 DEF Path

LEMMA ProvidesBehind ==
    ASSUME NEW step, NEW p, ASeq(p), NEW k \in Nat, k >= 1, NEW packet, Provides(p, k, packet)
    PROVE  Provides(Cons(step, p), k + 1, packet)
<1>1. /\ Len(Cons(step, p)) = Len(p) + 1 /\ Len(p) \in Nat
      /\ \A i \in 1..Len(p) : Cons(step, p)[i + 1] = p[i]
  BY ConsFields
<1>2. PICK j \in k..Len(p) : Gets(p[j], packet) /\ \A i \in k..j : ~Pauses(p[i])
  BY DEF Provides
<1>3. j + 1 \in (k + 1)..Len(Cons(step, p)) /\ j \in 1..Len(p)
  BY <1>1, <1>2
<1>4. Gets(Cons(step, p)[j + 1], packet)
  BY <1>1, <1>2, <1>3
<1>5. ASSUME NEW i \in (k + 1)..(j + 1) PROVE ~Pauses(Cons(step, p)[i])
  <2>1. i - 1 \in k..j /\ i - 1 \in 1..Len(p) /\ (i - 1) + 1 = i
    BY <1>3
  <2>2. Cons(step, p)[i] = p[i - 1]
    BY <1>1, <2>1
  <2>3. QED  BY <1>2, <2>1, <2>2
<1>6. QED  BY <1>3, <1>4, <1>5 DEF Provides

LEMMA ProvidesAtOnce ==
    ASSUME NEW step, NEW p, ASeq(p), NEW packet, ~Pauses(step),
           Gets(step, packet) \/ Provides(p, 1, packet)
    PROVE  Provides(Cons(step, p), 1, packet)
<1>1. /\ Len(Cons(step, p)) = Len(p) + 1 /\ Len(p) \in Nat /\ Cons(step, p)[1] = step
  BY ConsFields
<1>2. CASE Gets(step, packet)
  <2>1. 1 \in 1..Len(Cons(step, p)) /\ \A i \in 1..1 : i = 1
    BY <1>1
  <2>2. QED  BY <1>1, <1>2, <2>1 DEF Provides
<1>3. CASE Provides(p, 1, packet)
  <2>1. Provides(Cons(step, p), 1 + 1, packet)
    BY <1>3, ProvidesBehind
  <2>2. PICK j \in (1 + 1)..Len(Cons(step, p)) :
          /\ Gets(Cons(step, p)[j], packet)
          /\ \A i \in (1 + 1)..j : ~Pauses(Cons(step, p)[i])
    BY <2>1 DEF Provides
  <2>3. j \in 1..Len(Cons(step, p)) /\ \A i \in 1..j : i = 1 \/ i \in (1 + 1)..j
    BY <1>1
  <2>4. \A i \in 1..j : ~Pauses(Cons(step, p)[i])
    BY <1>1, <2>2, <2>3
  <2>5. QED  BY <2>2, <2>3, <2>4 DEF Provides
<1>4. QED  BY <1>2, <1>3

\* A way through p from v.
Route(asks, n, v, p) == \E r : ServerPath(asks, n, r, p) /\ r[1] = v

LEMMA RouteCons ==
    ASSUME NEW asks, NEW n, NEW v \in Views, NEW w, NEW step, NEW p, Route(asks, n, w, p),
           Takes(asks, n, v, step, w), ~Ends(step),
           p # << >> => Succeeds(step, p[1]),
           Awaits(step) => \A packet \in Due(v.at) : Provides(p, 1, packet),
           Awaits(step) /\ v.at = "connect" => Len(p) = 1 /\ p[1].do = "decide"
    PROVE  Route(asks, n, v, Cons(step, p))
<1>1. PICK r : ServerPath(asks, n, r, p) /\ r[1] = w
  BY DEF Route
<1> DEFINE q == Cons(step, p)
           s == Cons(v, r)
<1>2. /\ ASeq(q) /\ ASeq(p) /\ Len(q) = Len(p) + 1 /\ Len(p) \in Nat /\ q[1] = step
      /\ \A k \in 1..Len(p) : q[k + 1] = p[k]
      /\ \A k \in 1..Len(q) : k = 1 \/ (k - 1 \in 1..Len(p) /\ (k - 1) + 1 = k)
  <2>1. ASeq(p)
    BY <1>1 DEF ServerPath
  <2>2. QED  BY <2>1, ConsFields
<1>3. /\ Path(s, Len(q)) /\ s[1] = v /\ \A k \in 1..(Len(p) + 1) : s[k + 1] = r[k]
  <2>1. Path(r, Len(p))
    BY <1>1 DEF ServerPath
  <2>2. QED  BY <1>2, <2>1, PathCons
<1>4. \A k \in 1..Len(p) : k + 1 \in 1..Len(q) /\ k \in 1..(Len(p) + 1) /\ k + 1 \in 1..(Len(p) + 1)
  BY <1>2
<1>5. 1 \in 1..(Len(p) + 1) /\ 1 + 1 = 2 /\ (Len(p) # 0 => 1 \in 1..Len(p))
  BY <1>2
<1>6. p # << >> => Len(p) # 0
  BY <1>2, LengthZero
<1> HIDE DEF q, s
<1>7. ASSUME NEW k \in 1..Len(q)
      PROVE  Takes(asks, n, s[k], q[k], s[k + 1]) /\ (Ends(q[k]) => k = Len(q))
  <2>1. CASE k = 1
    BY <1>1, <1>2, <1>3, <1>5, <2>1
  <2>2. CASE k # 1
    <3>1. k - 1 \in 1..Len(p) /\ (k - 1) + 1 = k
      BY <1>2, <2>2
    <3>2. /\ Takes(asks, n, r[k - 1], p[k - 1], r[(k - 1) + 1])
          /\ Ends(p[k - 1]) => k - 1 = Len(p)
      BY <1>1, <3>1 DEF ServerPath
    <3>3. q[k] = p[k - 1] /\ s[k] = r[k - 1] /\ s[k + 1] = r[k]
      BY <1>2, <1>3, <1>4, <3>1
    <3>4. k - 1 = Len(p) => k = Len(q)
      BY <1>2, <3>1
    <3>5. QED  BY <3>1, <3>2, <3>3, <3>4
  <2>3. QED  BY <2>1, <2>2
<1>8. ASSUME NEW k \in 2..Len(q)
      PROVE  Succeeds(q[k - 1], q[k])
  <2>1. k \in 1..Len(q) /\ k - 1 \in 1..Len(p) /\ (k - 1) + 1 = k
    BY <1>2
  <2>2. q[k] = p[k - 1]
    BY <1>2, <2>1
  <2>3. CASE k = 2
    <3>1. k - 1 = 1 /\ Len(p) # 0
      BY <1>2, <2>1, <2>3
    <3>2. p # << >>
      BY <3>1 DEF ASeq
    <3>3. QED  BY <1>2, <2>2, <3>1, <3>2
  <2>4. CASE k # 2
    <3>1. k - 1 \in 2..Len(p) /\ (k - 1) - 1 \in 1..Len(p) /\ ((k - 1) - 1) + 1 = k - 1
      BY <1>2, <2>1, <2>4
    <3>2. Succeeds(p[(k - 1) - 1], p[k - 1])
      BY <1>1, <3>1 DEF ServerPath
    <3>3. q[k - 1] = p[(k - 1) - 1]
      BY <1>2, <3>1
    <3>4. QED  BY <2>2, <3>2, <3>3
  <2>5. QED  BY <2>3, <2>4
<1>9. ASSUME NEW k \in 1..Len(q), Awaits(q[k])
      PROVE  /\ \A packet \in Due(s[k].at) : Provides(q, k + 1, packet)
             /\ s[k].at = "connect" => k + 1 = Len(q) /\ q[k + 1].do = "decide"
  <2>1. CASE k = 1
    <3>1. \A packet \in Due(v.at) : Provides(p, 1, packet)
      BY <1>2, <1>9, <2>1
    <3>2. \A packet \in Due(v.at) : Provides(q, 1 + 1, packet)
      BY <1>2, <3>1, ProvidesBehind DEF q
    <3>3. v.at = "connect" => 1 + 1 = Len(q) /\ q[1 + 1] = p[1] /\ p[1].do = "decide"
      <4>1. ASSUME v.at = "connect" PROVE Len(p) = 1 /\ p[1].do = "decide"
        BY <1>2, <1>9, <2>1, <4>1
      <4>2. ASSUME v.at = "connect" PROVE 1 + 1 = Len(q) /\ q[1 + 1] = p[1]
        <5>1. Len(p) = 1 /\ 1 \in 1..Len(p)
          BY <4>1, <4>2
        <5>2. q[1 + 1] = p[1]
          BY <1>2, <5>1
        <5>3. 1 + 1 = Len(q)
          BY <1>2, <5>1
        <5>4. QED  BY <5>2, <5>3
      <4>3. QED  BY <4>1, <4>2
    <3>4. QED  BY <1>3, <2>1, <3>2, <3>3
  <2>2. CASE k # 1
    <3>1. k - 1 \in 1..Len(p) /\ (k - 1) + 1 = k
      BY <1>2, <2>2
    <3>2. q[k] = p[k - 1] /\ s[k] = r[k - 1]
      BY <1>2, <1>3, <1>4, <3>1
    <3>3. /\ \A packet \in Due(s[k].at) : Provides(p, (k - 1) + 1, packet)
          /\ s[k].at = "connect" => (k - 1) + 1 = Len(p) /\ p[(k - 1) + 1].do = "decide"
      BY <1>1, <1>9, <3>1, <3>2 DEF ServerPath
    <3>4. \A packet \in Due(s[k].at) : Provides(q, k + 1, packet)
      <4>1. k \in Nat /\ k >= 1 /\ \A packet \in Due(s[k].at) : Provides(p, k, packet)
        BY <3>1, <3>3
      <4>2. QED  BY <1>2, <4>1, ProvidesBehind DEF q
    <3>5. ASSUME s[k].at = "connect" PROVE k + 1 = Len(q) /\ q[k + 1].do = "decide"
      <4>1. k = Len(p) /\ p[k].do = "decide"
        BY <3>1, <3>3, <3>5
      <4>2. k \in 1..Len(p) /\ k + 1 = Len(q)
        BY <1>2, <3>1, <4>1
      <4>3. QED  BY <1>2, <4>1, <4>2
    <3>6. QED  BY <3>4, <3>5
  <2>3. QED  BY <2>1, <2>2
<1>10. ServerPath(asks, n, s, q)
  BY <1>2, <1>3, <1>7, <1>8, <1>9 DEF ServerPath
<1>11. QED  BY <1>3, <1>10 DEF Route, q

LEMMA RouteNowhere ==
    ASSUME NEW asks, NEW n, NEW v \in Views
    PROVE  ServerPath(asks, n, <<v>>, << >>) /\ <<v>>[1] = v /\ Route(asks, n, v, << >>)
<1>1. Path(<<v>>, 0) /\ <<v>>[1] = v
  BY OnePath
<1>2. ASeq(<< >>) /\ Len(<< >>) = 0
  BY EmptyASeq
<1> DEFINE p == << >>
<1>3. p = << >>
  OBVIOUS
<1> HIDE DEF p
<1>4. ServerPath(asks, n, <<v>>, p)
  <2>1. ASeq(p) /\ Len(p) = 0 /\ 1..Len(p) = {} /\ 2..Len(p) = {}
    BY <1>2, <1>3
  <2>2. QED  BY <1>1, <2>1 DEF ServerPath
<1>5. QED  BY <1>1, <1>3, <1>4 DEF Route

LEMMA RouteEnd ==
    ASSUME NEW asks, NEW n, NEW v \in Views, NEW step, Ends(step), Takes(asks, n, v, step, v)
    PROVE  Route(asks, n, v, <<step>>)
<1>1. ~Awaits(step)
  BY DEF Awaits, Ends
<1> DEFINE p == <<step>>
           r == <<v, v>>
<1>2. /\ ASeq(p) /\ Len(p) = 1 /\ p[1] = step /\ \A k \in 1..Len(p) : k = 1
      /\ 2..Len(p) = {}
  BY DEF ASeq
<1>3. ASeq(r) /\ Len(r) = 2 /\ r[1] = v /\ r[2] = v /\ \A k \in 1..Len(r) : r[k] = v
  BY DEF ASeq
<1> HIDE DEF p, r
<1>4. Path(r, Len(p))
  BY <1>2, <1>3 DEF Path
<1>5. Takes(asks, n, r[1], p[1], r[1 + 1]) /\ ~Awaits(p[1])
  BY <1>1, <1>2, <1>3
<1>6. ServerPath(asks, n, r, p)
  BY <1>2, <1>4, <1>5 DEF ServerPath
<1>7. QED  BY <1>3, <1>6 DEF Route, p

\* What is sent leaves the server where it is.
LEMMA RouteSend ==
    ASSUME NEW asks, NEW n, NEW v \in Views, NEW step, NEW p, Route(asks, n, v, p),
           step.do \in {"send", "reply"},
           p # << >> => Succeeds(step, p[1])
    PROVE  Route(asks, n, v, Cons(step, p))
<1>1. Takes(asks, n, v, step, v) /\ ~Awaits(step) /\ ~Ends(step)
  BY DEF Takes, Awaits, Ends
<1>2. QED  BY <1>1, RouteCons

------------------------------------------------------------------------------
(***************************************************************************)
(* Plans that are written out, and what is left of them.                   *)
(***************************************************************************)
\* What is left of a plan at its step k.
Rest(p, k) == [i \in 1..(Len(p) - k + 1) |-> p[i + k - 1]]

LEMMA RestFields ==
    ASSUME NEW p, ASeq(p), NEW k \in 1..(Len(p) + 1)
    PROVE  /\ ASeq(Rest(p, k)) /\ Len(Rest(p, k)) = Len(p) - k + 1
           /\ k \in 1..Len(p) => Rest(p, k)[1] = p[k]
<1>1. Len(p) \in Nat /\ k \in Nat /\ Len(p) - k + 1 \in Nat
  BY DEF ASeq
<1>2. ASeq(Rest(p, k)) /\ Len(Rest(p, k)) = Len(p) - k + 1
  BY <1>1, FunctionIsASeq DEF Rest
<1>3. ASSUME k \in 1..Len(p) PROVE Rest(p, k)[1] = p[k]
  <2>1. 1 \in 1..(Len(p) - k + 1) /\ 1 + k - 1 = k
    BY <1>1, <1>3
  <2>2. Rest(p, k)[1] = p[1 + k - 1]
    BY <2>1 DEF Rest
  <2>3. QED  BY <2>1, <2>2
<1>4. QED  BY <1>2, <1>3

LEMMA RestCons ==
    ASSUME NEW p, ASeq(p), NEW k \in 1..Len(p)
    PROVE  Rest(p, k) = Cons(p[k], Rest(p, k + 1))
<1> DEFINE q == Rest(p, k)
           d == Rest(p, k + 1)
           c == Cons(p[k], d)
<1>1. Len(p) \in Nat /\ k \in Nat /\ k + 1 \in 1..(Len(p) + 1) /\ k \in 1..(Len(p) + 1)
  BY DEF ASeq
<1>2. /\ ASeq(q) /\ Len(q) = Len(p) - k + 1 /\ q[1] = p[k]
      /\ ASeq(d) /\ Len(d) = Len(p) - (k + 1) + 1
  BY <1>1, RestFields
<1>3. /\ ASeq(c) /\ Len(c) = Len(d) + 1 /\ c[1] = p[k]
      /\ \A i \in 1..Len(d) : c[i + 1] = d[i]
      /\ \A i \in 1..(Len(d) + 1) : i = 1 \/ (i - 1 \in 1..Len(d) /\ (i - 1) + 1 = i)
  BY <1>2, ConsFields
<1>4. \A i \in 1..(Len(p) - k + 1) : q[i] = p[i + k - 1]
  BY DEF Rest
<1>5. \A i \in 1..(Len(p) - (k + 1) + 1) : d[i] = p[i + (k + 1) - 1]
  BY DEF Rest
<1> HIDE DEF q, d, c
<1>6. \A i \in 1..Len(d) : q[i + 1] = d[i]
  <2> SUFFICES ASSUME NEW i \in 1..Len(d) PROVE q[i + 1] = d[i]
    OBVIOUS
  <2>1. /\ i \in 1..(Len(p) - (k + 1) + 1) /\ i + 1 \in 1..(Len(p) - k + 1)
        /\ (i + 1) + k - 1 = i + (k + 1) - 1
    BY <1>1, <1>2
  <2>2. q[i + 1] = p[(i + 1) + k - 1] /\ d[i] = p[i + (k + 1) - 1]
    BY <1>4, <1>5, <2>1
  <2>3. QED  BY <2>1, <2>2
<1>7. \A i \in 1..Len(q) : q[i] = c[i]
  <2> SUFFICES ASSUME NEW i \in 1..Len(q) PROVE q[i] = c[i]
    OBVIOUS
  <2>1. Len(q) = Len(d) + 1
    BY <1>1, <1>2
  <2>2. CASE i = 1
    BY <1>2, <1>3, <2>2
  <2>3. CASE i - 1 \in 1..Len(d) /\ (i - 1) + 1 = i
    <3>1. q[(i - 1) + 1] = d[i - 1] /\ c[(i - 1) + 1] = d[i - 1]
      BY <1>3, <1>6, <2>3
    <3>2. QED  BY <2>3, <3>1
  <2>4. i \in 1..(Len(d) + 1)
    BY <2>1
  <2>5. QED  BY <1>3, <2>2, <2>3, <2>4
<1>8. Len(q) = Len(c)
  BY <1>1, <1>2, <1>3
<1>9. q = c
  BY <1>2, <1>3, <1>7, <1>8, SameSeq
<1>10. QED  BY <1>9 DEF q, c, d

LEMMA RestAll ==
    ASSUME NEW p, ASeq(p)
    PROVE  Rest(p, 1) = p /\ Rest(p, Len(p) + 1) = << >>
<1>1. Len(p) \in Nat /\ 1 \in 1..(Len(p) + 1) /\ Len(p) + 1 \in 1..(Len(p) + 1)
  BY DEF ASeq
<1>2. /\ ASeq(Rest(p, 1)) /\ Len(Rest(p, 1)) = Len(p) - 1 + 1
      /\ ASeq(Rest(p, Len(p) + 1)) /\ Len(Rest(p, Len(p) + 1)) = Len(p) - (Len(p) + 1) + 1
  BY <1>1, RestFields
<1>3. Rest(p, Len(p) + 1) = << >>
  <2>1. Len(p) - (Len(p) + 1) + 1 = 0
    BY <1>1
  <2>2. QED  BY <1>2, <2>1, LengthZero
<1>4. \A i \in 1..(Len(p) - 1 + 1) : Rest(p, 1)[i] = p[i + 1 - 1]
  BY DEF Rest
<1> DEFINE q == Rest(p, 1)
<1> HIDE DEF q
<1>5. Len(q) = Len(p) /\ ASeq(q) /\ \A i \in 1..Len(q) : q[i] = p[i]
  <2>1. Len(p) - 1 + 1 = Len(p) /\ \A i \in 1..Len(p) : i + 1 - 1 = i
    BY <1>1
  <2>2. QED  BY <1>2, <1>4, <2>1 DEF q
<1>6. q = p
  BY <1>5, SameSeq
<1>7. QED  BY <1>3, <1>6 DEF q

------------------------------------------------------------------------------
\* A step that may come behind any other.
Free(step) == \A before : Succeeds(before, step)
FreeRoute(asks, n, v, p) == Route(asks, n, v, p) /\ (p # << >> => Free(p[1]))

LEMMA RouteIsASeq ==
    ASSUME NEW asks, NEW n, NEW v, NEW p, Route(asks, n, v, p)
    PROVE  ASeq(p)
BY DEF Route, ServerPath

LEMMA FreeSteps ==
    /\ \A command, tid, name : command # "_result" => Free(Request(command, tid, name))
    /\ \A command : command # "_result" => Free(Send(command))
    /\ \A tid, of : of \notin OfAStream => Free(Result(tid, of))
    /\ \A packet : Free(Expect(packet)) /\ Free(Read(packet))
    /\ \A kind, name : Free(Serving(kind, name))
    /\ \A do \in {"identify", "level1", "reject"} : Free(Step(do))
<1>1. ASSUME NEW step, step.do \notin {"reply", "unpublish", "decide"},
             step.do = "send" => ~IsResult(step, OfAStream)
      PROVE  Free(step)
  BY <1>1 DEF Free, Succeeds
<1>2. ASSUME NEW command, NEW tid, NEW name, command # "_result"
      PROVE  Free(Request(command, tid, name)) /\ Free(Send(command))
  <2> DEFINE a == Request(command, tid, name)
             b == Send(command)
  <2>1. a.do = "send" /\ a.command = command /\ b.do = "send" /\ b.command = command
    BY DEF Request, Send
  <2> HIDE DEF a, b
  <2>2. Free(a) /\ Free(b)
    BY <1>1, <1>2, <2>1 DEF IsResult
  <2>3. QED  BY <2>2 DEF a, b
<1>3. ASSUME NEW tid, NEW of, of \notin OfAStream PROVE Free(Result(tid, of))
  <2> DEFINE a == Result(tid, of)
  <2>1. a.do = "send" /\ a.of = of
    BY DEF Result
  <2> HIDE DEF a
  <2>2. Free(a)
    BY <1>1, <1>3, <2>1 DEF IsResult
  <2>3. QED  BY <2>2 DEF a
<1>4. ASSUME NEW packet PROVE Free(Expect(packet)) /\ Free(Read(packet))
  BY <1>1, Fields
<1>5. ASSUME NEW kind, NEW name PROVE Free(Serving(kind, name))
  BY <1>1, Fields
<1>6. ASSUME NEW do \in {"identify", "level1", "reject"} PROVE Free(Step(do))
  BY <1>1, Fields
<1>7. QED  BY <1>2, <1>3, <1>4, <1>5, <1>6

LEMMA FreeNowhere ==
    ASSUME NEW asks, NEW n, NEW v \in Views
    PROVE  FreeRoute(asks, n, v, << >>)
BY RouteNowhere DEF FreeRoute

LEMMA FreeEnd ==
    ASSUME NEW asks, NEW n, NEW v \in Views, NEW step, Ends(step), Takes(asks, n, v, step, v),
           Free(step)
    PROVE  FreeRoute(asks, n, v, <<step>>)
<1>1. Route(asks, n, v, <<step>>) /\ <<step>>[1] = step
  BY RouteEnd
<1>2. QED  BY <1>1 DEF FreeRoute

LEMMA FreeCons ==
    ASSUME NEW asks, NEW n, NEW v \in Views, NEW w, NEW step, NEW p, FreeRoute(asks, n, w, p),
           Takes(asks, n, v, step, w), ~Ends(step), Free(step), v.at # "connect" \/ ~Awaits(step),
           Awaits(step) => \A packet \in Due(v.at) : Provides(p, 1, packet)
    PROVE  FreeRoute(asks, n, v, Cons(step, p))
<1>1. p # << >> => Succeeds(step, p[1])
  BY DEF FreeRoute, Free
<1>2. Route(asks, n, v, Cons(step, p))
  BY <1>1, RouteCons DEF FreeRoute
<1>3. (Cons(step, p))[1] = step
  BY ConsFields, RouteIsASeq DEF FreeRoute
<1>4. QED  BY <1>2, <1>3 DEF FreeRoute

LEMMA FreeSend ==
    ASSUME NEW asks, NEW n, NEW v \in Views, NEW step, NEW p, FreeRoute(asks, n, v, p),
           step.do = "send", Free(step)
    PROVE  /\ FreeRoute(asks, n, v, Cons(step, p))
           /\ \A packet : Gets(step, packet) \/ Provides(p, 1, packet)
                          => Provides(Cons(step, p), 1, packet)
<1>1. Takes(asks, n, v, step, v) /\ ~Awaits(step) /\ ~Ends(step) /\ ~Pauses(step)
  BY DEF Takes, Awaits, Ends, Pauses
<1>2. ASeq(p)
  BY RouteIsASeq DEF FreeRoute
<1>3. QED  BY <1>1, <1>2, FreeCons, ProvidesAtOnce

\* What the server waits for, and which way it takes then.
LEMMA WaitsTake ==
    ASSUME NEW asks, NEW n, NEW d \in Nat
    PROVE  /\ \A a, packet, b : <<a, packet, b>> \in Accepts /\ a \notin {"c0c1", "c2", "publish"} =>
                Takes(asks, n, At(a, d), Expect(packet), At(b, d))
           /\ Takes(asks, n, At("c0c1", d), Read("c0c1"), At("c2", d))
           /\ Takes(asks, n, At("c2", d), Read("c2"), At("connect", d))
           /\ Takes(asks, n, At("publish", d), Expect("Publish"), At("media", d + 1))
<1>1. \A step, a, b, e : /\ Awaits(step) /\ <<a, step.packet, b>> \in Accepts
                         /\ step.do = "read" <=> a \in {"c0c1", "c2"}
                         /\ a = "publish" => e = d + 1
                         /\ a # "publish" => e = d
                         => Takes(asks, n, At(a, d), step, At(b, e))
  <2> SUFFICES ASSUME NEW step, NEW a, NEW b, NEW e, Awaits(step), <<a, step.packet, b>> \in Accepts,
                      step.do = "read" <=> a \in {"c0c1", "c2"},
                      a = "publish" => e = d + 1, a # "publish" => e = d
               PROVE  Takes(asks, n, At(a, d), step, At(b, e))
    OBVIOUS
  <2>1. At(a, d).at = a /\ At(a, d).done = d /\ At(b, e).at = b /\ At(b, e).done = e
    BY AtFields
  <2>2. e = IF a = "publish" THEN d + 1 ELSE d
    OBVIOUS
  <2>3. QED  BY <2>1, <2>2 DEF Takes
<1>2. \A packet : /\ Awaits(Expect(packet)) /\ Expect(packet).packet = packet
                  /\ Expect(packet).do # "read"
                  /\ Awaits(Read(packet)) /\ Read(packet).packet = packet /\ Read(packet).do = "read"
  BY Fields DEF Awaits
<1>3. /\ <<"c0c1", "c0c1", "c2">> \in Accepts /\ <<"c2", "c2", "connect">> \in Accepts
      /\ <<"publish", "Publish", "media">> \in Accepts
  BY DEF Accepts
<1>4. QED  BY <1>1, <1>2, <1>3

LEMMA WaitFields ==
    \A packet : /\ Awaits(Expect(packet)) /\ ~Ends(Expect(packet))
                /\ Awaits(Read(packet)) /\ ~Ends(Read(packet))
BY Fields DEF Awaits, Ends

LEMMA GetsSent ==
    /\ \A command : Gets(Send(command), command)
    /\ \A command, tid, name : Gets(Request(command, tid, name), command)
    /\ \A tid, of : Gets(Result(tid, of), ResponseTo(of))
<1>1. ASSUME NEW command, NEW tid, NEW name
      PROVE  Gets(Send(command), command) /\ Gets(Request(command, tid, name), command)
  <2> DEFINE a == Request(command, tid, name)
             b == Send(command)
  <2>1. a.do = "send" /\ a.command = command /\ b.do = "send" /\ b.command = command
    BY DEF Request, Send
  <2> HIDE DEF a, b
  <2>2. Gets(a, command) /\ Gets(b, command)
    BY <2>1 DEF Gets, IsFor
  <2>3. QED  BY <2>2 DEF a, b
<1>2. ASSUME NEW tid, NEW of PROVE Gets(Result(tid, of), ResponseTo(of))
  <2> DEFINE a == Result(tid, of)
  <2>1. a.do = "send" /\ a.of = of /\ a.command = "_result"
    BY DEF Result
  <2> HIDE DEF a
  <2>2. Gets(a, ResponseTo(of))
    BY <2>1 DEF Gets, IsFor
  <2>3. QED  BY <2>2 DEF a
<1>3. QED  BY <1>1, <1>2

LEMMA DueAt ==
    /\ Due("c0c1") = {"s0s1s2"} /\ Due("create") = {"CreateStreamRes"}
    /\ Due("check1") = {"stopPlay"} /\ Due("check2") = {"startPublish"}
    /\ Due("check3") = {"stopPublish"} /\ Due("check4") = {"finished"}
    /\ \A place \in {"c2", "connect", "identify", "level1", "fc", "publish", "media", "check5", "checked"} :
         Due(place) = {}
BY DEF Due

LEMMA FreeWait ==
    ASSUME NEW asks, NEW n, NEW d \in Nat, NEW a \in Places, NEW b, NEW packet,
           <<a, packet, b>> \in Accepts, a \notin {"c0c1", "c2", "publish", "connect"},
           NEW p, FreeRoute(asks, n, At(b, d), p),
           \A x \in Due(a) : Provides(p, 1, x)
    PROVE  FreeRoute(asks, n, At(a, d), Cons(Expect(packet), p))
<1>1. Takes(asks, n, At(a, d), Expect(packet), At(b, d)) /\ At(a, d) \in Views /\ At(a, d).at = a
  BY WaitsTake, AtFields
<1>2. Free(Expect(packet)) /\ ~Ends(Expect(packet))
  BY FreeSteps, WaitFields
<1>3. QED  BY <1>1, <1>2, FreeCons

LEMMA OneCons == \A a : Cons(a, << >>) = <<a>>
<1> SUFFICES ASSUME NEW a PROVE Cons(a, << >>) = <<a>>
  OBVIOUS
<1> DEFINE n == << >>
           q == <<a>>
           c == Cons(a, n)
<1>1. ASeq(q) /\ Len(q) = 1 /\ q[1] = a /\ ASeq(n) /\ Len(n) = 0
  BY EmptyASeq DEF ASeq
<1>2. ASeq(c) /\ Len(c) = Len(n) + 1 /\ c[1] = a
  BY <1>1, ConsFields
<1> HIDE DEF n, q, c
<1>3. Len(c) = 1 /\ \A k \in 1..1 : k = 1
  BY <1>1, <1>2
<1>4. c = q
  BY <1>1, <1>2, <1>3, SameSeq
<1>5. QED  BY <1>4 DEF n, q, c

LEMMA SendCons ==
    ASSUME NEW asks, NEW n, NEW v \in Views, NEW step, NEW p, FreeRoute(asks, n, v, p),
           step.do = "send", Free(step), NEW q, q = Cons(step, p)
    PROVE  /\ FreeRoute(asks, n, v, q)
           /\ \A packet : Gets(step, packet) \/ Provides(p, 1, packet) => Provides(q, 1, packet)
BY FreeSend

LEMMA WaitCons ==
    ASSUME NEW asks, NEW n, NEW d \in Nat, NEW a \in Places, NEW b, NEW packet,
           <<a, packet, b>> \in Accepts, a \notin {"c0c1", "c2", "publish", "connect"},
           NEW p, FreeRoute(asks, n, At(b, d), p), NEW q, q = Cons(Expect(packet), p),
           \A x \in Due(a) : Provides(p, 1, x)
    PROVE  FreeRoute(asks, n, At(a, d), q)
BY FreeWait

------------------------------------------------------------------------------
(***************************************************************************)
(* The server's plans.                                                     *)
(***************************************************************************)
LEMMA SendsRoute ==
    ASSUME NEW asks, NEW n, NEW v \in Views, NEW p, NEW l \in Nat \ {0}, SendsTo(p, l),
           p[l].do \in {"identify", "level1", "reject", "serve"}, Takes(asks, n, v, p[l], v)
    PROVE  Route(asks, n, v, p)
<1> DEFINE r == [k \in 1..(l + 1) |-> v]
<1>1. ASeq(r) /\ Len(r) = l + 1
  BY FunctionIsASeq
<1>2. \A k \in 1..l : r[k] = v /\ r[k + 1] = v /\ 1 \in 1..(l + 1)
  OBVIOUS
<1>3. Path(r, l) /\ r[1] = v
  <2>1. \A k \in 1..(l + 1) : r[k] = v
    OBVIOUS
  <2> HIDE DEF r
  <2>2. QED  BY <1>1, <1>2, <2>1 DEF Path
<1> HIDE DEF r
<1>4. ASSUME NEW k \in 1..l
      PROVE  Takes(asks, n, v, p[k], v) /\ (Ends(p[k]) => k = l) /\ ~Awaits(p[k])
  BY <1>4 DEF SendsTo, Takes, Ends, Awaits
<1>5. ASSUME NEW k \in 2..l PROVE Succeeds(p[k - 1], p[k])
  BY <1>5 DEF SendsTo, Succeeds
<1>6. ServerPath(asks, n, r, p)
  BY <1>1, <1>2, <1>3, <1>4, <1>5 DEF ServerPath, SendsTo
<1>7. QED  BY <1>3, <1>6 DEF Route

LEMMA HomeTakes ==
    ASSUME NEW asks, NEW n \in Nat
    PROVE  /\ \A do \in {"identify", "reject", "unpublish", "decide"} :
                Takes(asks, n, At("identify", n), Step(do), At("identify", n))
           /\ Takes(asks, n, At("level1", n), Step("level1"), At("level1", n))
           /\ \A kind, name : Asked(asks, n + 1, kind, name) =>
                Takes(asks, n, At("media", n + 1), Serving(kind, name), At("media", n + 1))
<1>1. \A step : /\ step.do \in {"identify", "reject", "unpublish", "decide"} =>
                     Takes(asks, n, At("identify", n), step, At("identify", n))
                /\ step.do = "level1" => Takes(asks, n, At("level1", n), step, At("level1", n))
                /\ step.do = "serve" /\ Asked(asks, n + 1, step.kind, step.name) =>
                     Takes(asks, n, At("media", n + 1), step, At("media", n + 1))
  BY AtFields DEF Takes
<1>2. \A do : Step(do).do = do
  BY Fields
<1>3. \A kind, name : /\ Serving(kind, name).do = "serve" /\ Serving(kind, name).kind = kind
                      /\ Serving(kind, name).name = name
  BY DEF Serving
<1>4. QED  BY <1>1, <1>2, <1>3

LEMMA AcceptRoute ==
    ASSUME NEW asks, NEW n \in Nat
    PROVE  Route(asks, n, At("identify", n), Accept)
<1> DEFINE a == Send("SetWindowAckSize")
           b == Send("SetPeerBandwidth")
           c == Result(1, "connect")
           d == Send("onBWDone")
           e == Step("identify")
           S == <<a, b>>
           T == <<c>>
           ST == <<a, b, c>>
           U == <<d, e>>
           P == <<a, b, c, d, e>>
<1>1. Accept = (S \o T) \o U
  BY DEF Accept, ResponseConnectApp
<1>2. /\ a.do = "send" /\ b.do = "send" /\ c.do = "send" /\ d.do = "send" /\ e.do = "identify"
      /\ b.command # "_result" /\ c.of = "connect" /\ d.command # "_result"
  BY DEF Send, Request, Result, Step
<1>3. Takes(asks, n, At("identify", n), e, At("identify", n)) /\ At("identify", n) \in Views
  BY HomeTakes, AtFields DEF Places
<1> HIDE DEF a, b, c, d, e
<1>4. /\ ASeq(S) /\ Len(S) = 2 /\ ASeq(T) /\ Len(T) = 1 /\ ASeq(ST) /\ Len(ST) = 3
      /\ ASeq(U) /\ Len(U) = 2 /\ ASeq(P) /\ Len(P) = 5
  BY DEF ASeq
<1>5. IsJoined(S, T, ST) /\ IsJoined(ST, U, P)
  <2>1. IsJoined(S, T, ST)
    BY <1>4 DEF IsJoined
  <2>2. IsJoined(ST, U, P)
    BY <1>4 DEF IsJoined
  <2>3. QED  BY <2>1, <2>2
<1>6. P[1] = a /\ P[2] = b /\ P[3] = c /\ P[4] = d /\ P[5] = e
  OBVIOUS
<1> HIDE DEF S, T, ST, U, P
<1>7. S \o T = ST
  BY <1>5, Joins
<1>8. ST \o U = P
  BY <1>5, Joins
<1>9. SendsTo(P, 5)
  <2>1. \A k \in 1..5 : k # 5 => P[k].do = "send"
    BY <1>2, <1>6
  <2>2. ~IsResult(b, OfAStream) /\ ~IsResult(c, OfAStream) /\ ~IsResult(d, OfAStream)
    BY <1>2 DEF IsResult, OfAStream
  <2>3. \A k \in 2..5 : k # 5 => ~IsResult(P[k], OfAStream)
    BY <1>6, <2>2
  <2>4. QED  BY <1>4, <2>1, <2>3 DEF SendsTo
<1>10. Accept = P
  BY <1>1, <1>7, <1>8
<1> DEFINE l == 5
           v == At("identify", n)
<1>11. SendsTo(P, l) /\ l \in Nat \ {0} /\ v \in Views /\ P[l].do = "identify" /\ Takes(asks, n, v, P[l], v)
  BY <1>2, <1>3, <1>6, <1>9
<1> HIDE DEF l, v
<1>12. Route(asks, n, v, P)
  BY <1>11, SendsRoute
<1>13. QED  BY <1>10, <1>12 DEF v

LEMMA RejectRoute ==
    ASSUME NEW asks, NEW n \in Nat
    PROVE  Route(asks, n, At("identify", n), ResponseConnectReject \o <<Step("reject")>>)
<1> DEFINE a == Send("onStatus")
           b == Step("reject")
           S == <<a>>
           T == <<b>>
           P == <<a, b>>
<1>1. ResponseConnectReject \o <<b>> = S \o T
  BY DEF ResponseConnectReject
<1>2. a.do = "send" /\ b.do = "reject"
  BY DEF Send, Request, Step
<1>3. Takes(asks, n, At("identify", n), b, At("identify", n)) /\ At("identify", n) \in Views
  BY HomeTakes, AtFields DEF Places
<1> HIDE DEF a, b
<1>4. ASeq(S) /\ Len(S) = 1 /\ ASeq(T) /\ Len(T) = 1 /\ ASeq(P) /\ Len(P) = 2
  BY DEF ASeq
<1>5. IsJoined(S, T, P) /\ P[1] = a /\ P[2] = b
  BY <1>4 DEF IsJoined
<1> HIDE DEF S, T, P
<1>6. S \o T = P
  BY <1>5, Joins
<1>7. SendsTo(P, 2)
  BY <1>2, <1>4, <1>5 DEF SendsTo
<1>8. Route(asks, n, At("identify", n), P)
  BY <1>2, <1>3, <1>5, <1>7, SendsRoute
<1>9. QED  BY <1>1, <1>6, <1>8 DEF b

LEMMA UnpublishRoute ==
    ASSUME NEW asks, NEW n \in Nat, NEW tid
    PROVE  Route(asks, n, At("identify", n), FmleUnpublish(tid) \o <<Step("identify")>>)
<1> DEFINE a == Send("onFCUnpublish")
           b == Result(tid, "FCUnpublish")
           c == Send("onStatus")
           d == Step("identify")
           S == <<a, b, c>>
           T == <<d>>
           P == <<a, b, c, d>>
<1>1. FmleUnpublish(tid) \o <<d>> = S \o T
  BY DEF FmleUnpublish
<1>2. /\ a.do = "send" /\ b.do = "send" /\ c.do = "send" /\ d.do = "identify"
      /\ b.of = "FCUnpublish" /\ c.command # "_result"
  BY DEF Send, Request, Result, Step
<1>3. Takes(asks, n, At("identify", n), d, At("identify", n)) /\ At("identify", n) \in Views
  BY HomeTakes, AtFields DEF Places
<1> HIDE DEF a, b, c, d
<1>4. ASeq(S) /\ Len(S) = 3 /\ ASeq(T) /\ Len(T) = 1 /\ ASeq(P) /\ Len(P) = 4
  BY DEF ASeq
<1>5. IsJoined(S, T, P) /\ P[1] = a /\ P[2] = b /\ P[3] = c /\ P[4] = d
  BY <1>4 DEF IsJoined
<1> HIDE DEF S, T, P
<1>6. S \o T = P
  BY <1>5, Joins
<1>7. SendsTo(P, 4)
  <2>1. ~IsResult(b, OfAStream) /\ ~IsResult(c, OfAStream)
    BY <1>2 DEF IsResult, OfAStream
  <2>2. QED  BY <1>2, <1>4, <1>5, <2>1 DEF SendsTo
<1>8. Route(asks, n, At("identify", n), P)
  BY <1>2, <1>3, <1>5, <1>7, SendsRoute
<1>9. QED  BY <1>1, <1>6, <1>8 DEF d

\* What is sent once the client is known to play, or to publish as a Flash player does.
LEMMA PlayRoute ==
    ASSUME NEW asks, NEW n \in Nat, NEW name, Asked(asks, n + 1, "play", name)
    PROVE  Route(asks, n, At("media", n + 1), Identified("play", name))
<1> DEFINE a == Send("SetChunkSize")
           b == Send("UserControl")
           c == Send("onStatus")
           d == Send("SampleAccess")
           e == Send("onStatusData")
           f == Serving("play", name)
           S == <<a>>
           T == <<b, c, c, d, e>>
           ST == <<a, b, c, c, d, e>>
           U == <<f>>
           P == <<a, b, c, c, d, e, f>>
<1>1. Identified("play", name) = (S \o T) \o U
  BY DEF Identified, StartPlay
<1>2. /\ a.do = "send" /\ b.do = "send" /\ c.do = "send" /\ d.do = "send" /\ e.do = "send"
      /\ f.do = "serve" /\ a.command # "_result" /\ b.command # "_result" /\ c.command # "_result"
      /\ d.command # "_result" /\ e.command # "_result"
  BY DEF Send, Request, Serving
<1>3. Takes(asks, n, At("media", n + 1), f, At("media", n + 1)) /\ At("media", n + 1) \in Views
  BY HomeTakes, AtFields DEF Places
<1> HIDE DEF a, b, c, d, e, f
<1>4. /\ ASeq(S) /\ Len(S) = 1 /\ ASeq(T) /\ Len(T) = 5 /\ ASeq(ST) /\ Len(ST) = 6
      /\ ASeq(U) /\ Len(U) = 1 /\ ASeq(P) /\ Len(P) = 7
  BY DEF ASeq
<1>5. IsJoined(S, T, ST) /\ IsJoined(ST, U, P)
  <2>1. IsJoined(S, T, ST)
    BY <1>4 DEF IsJoined
  <2>2. IsJoined(ST, U, P)
    BY <1>4 DEF IsJoined
  <2>3. QED  BY <2>1, <2>2
<1>6. P[1] = a /\ P[2] = b /\ P[3] = c /\ P[4] = c /\ P[5] = d /\ P[6] = e /\ P[7] = f
  OBVIOUS
<1> HIDE DEF S, T, ST, U, P
<1>7. S \o T = ST /\ ST \o U = P
  BY <1>5, Joins
<1>8. SendsTo(P, 7)
  <2>1. \A k \in 1..7 : k # 7 => P[k].do = "send" /\ P[k].command # "_result"
    BY <1>2, <1>6
  <2>2. QED  BY <1>4, <2>1 DEF SendsTo, IsResult
<1> DEFINE l == 7
           v == At("media", n + 1)
<1>9. SendsTo(P, l) /\ l \in Nat \ {0} /\ v \in Views /\ P[l].do = "serve" /\ Takes(asks, n, v, P[l], v)
  BY <1>2, <1>3, <1>6, <1>8
<1>10. Identified("play", name) = P
  BY <1>1, <1>7
<1> HIDE DEF l, v
<1>11. Route(asks, n, v, P)
  BY <1>9, SendsRoute
<1>12. QED  BY <1>10, <1>11 DEF v

LEMMA FlashRoute ==
    ASSUME NEW asks, NEW n \in Nat, NEW name, Asked(asks, n + 1, "flash", name)
    PROVE  Route(asks, n, At("media", n + 1), Identified("flash", name))
<1> DEFINE a == Send("SetChunkSize")
           b == Send("onStatus")
           f == Serving("flash", name)
           S == <<a>>
           T == <<b>>
           ST == <<a, b>>
           U == <<f>>
           P == <<a, b, f>>
<1>1. Identified("flash", name) = (S \o T) \o U
  BY DEF Identified, StartFlashPublish
<1>2. /\ a.do = "send" /\ b.do = "send" /\ f.do = "serve" /\ b.command # "_result"
  BY DEF Send, Request, Serving
<1>3. Takes(asks, n, At("media", n + 1), f, At("media", n + 1)) /\ At("media", n + 1) \in Views
  BY HomeTakes, AtFields DEF Places
<1> HIDE DEF a, b, f
<1>4. /\ ASeq(S) /\ Len(S) = 1 /\ ASeq(T) /\ Len(T) = 1 /\ ASeq(ST) /\ Len(ST) = 2
      /\ ASeq(U) /\ Len(U) = 1 /\ ASeq(P) /\ Len(P) = 3
  BY DEF ASeq
<1>5. IsJoined(S, T, ST) /\ IsJoined(ST, U, P)
  <2>1. IsJoined(S, T, ST)
    BY <1>4 DEF IsJoined
  <2>2. IsJoined(ST, U, P)
    BY <1>4 DEF IsJoined
  <2>3. QED  BY <2>1, <2>2
<1>6. P[1] = a /\ P[2] = b /\ P[3] = f
  OBVIOUS
<1> HIDE DEF S, T, ST, U, P
<1>7. S \o T = ST /\ ST \o U = P
  BY <1>5, Joins
<1>8. SendsTo(P, 3)
  BY <1>2, <1>4, <1>6 DEF SendsTo, IsResult
<1>9. QED  BY <1>1, <1>2, <1>3, <1>6, <1>7, <1>8, SendsRoute

\* An answer, and then the next round of identification.
LEMMA AnswerRoute ==
    ASSUME NEW asks, NEW n \in Nat, NEW do \in {"identify", "level1"}, NEW tid, NEW of
    PROVE  Route(asks, n, At(do, n), <<Result(tid, of), Step(do)>>)
<1> DEFINE a == Result(tid, of)
           b == Step(do)
           P == <<a, b>>
<1>1. a.do = "send" /\ b.do = do
  BY DEF Result, Step
<1>2. Takes(asks, n, At(do, n), b, At(do, n)) /\ At(do, n) \in Views
  BY HomeTakes, AtFields DEF Places
<1> HIDE DEF a, b
<1>3. ASeq(P) /\ Len(P) = 2 /\ P[1] = a /\ P[2] = b
  BY DEF ASeq
<1> HIDE DEF P
<1>4. SendsTo(P, 2)
  BY <1>1, <1>3 DEF SendsTo
<1>5. Route(asks, n, At(do, n), P)
  BY <1>1, <1>2, <1>3, <1>4, SendsRoute
<1>6. QED  BY <1>5 DEF P, a, b

LEMMA TwoCons == \A a, b : <<a, b>> = Cons(a, <<b>>)
<1> SUFFICES ASSUME NEW a, NEW b PROVE <<a, b>> = Cons(a, <<b>>)
  OBVIOUS
<1> DEFINE P == <<a, b>>
           Q == <<b>>
<1>1. Len(Q) = 1 /\ Q[1] = b /\ ASeq(P) /\ Len(P) = 2 /\ P[1] = a /\ P[2] = b
  BY DEF ASeq
<1>5. ASeq(Q)
  BY DEF ASeq
<1> HIDE DEF P, Q
<1>2. /\ ASeq(Cons(a, Q)) /\ Len(Cons(a, Q)) = Len(Q) + 1 /\ Cons(a, Q)[1] = a
      /\ \A k \in 1..Len(Q) : Cons(a, Q)[k + 1] = Q[k]
  BY <1>5, ConsFields
<1>3. Len(Cons(a, Q)) = 2 /\ Cons(a, Q)[2] = b
  BY <1>1, <1>2
<1>4. P = Cons(a, Q)
  BY <1>1, <1>2, <1>3, SameSeq
<1>6. QED  BY <1>4 DEF P, Q

\* The rest of a session with a plan that waits, from its end.
LEMMA ServedRoute ==
    ASSUME NEW asks, NEW n \in Nat
    PROVE  Route(asks, n, At("media", n), <<Expect("FMLEStart"), Step("unpublish")>>)
<1> DEFINE a == Expect("FMLEStart")
           b == Step("unpublish")
           P == <<a, b>>
           Q == <<b>>
<1>1. b.do = "unpublish" /\ a.do = "expect" /\ a.packet = "FMLEStart"
  BY DEF Expect, Step
<1>2. Takes(asks, n, At("media", n), a, At("identify", n))
  BY WaitsTake DEF Accepts
<1>3. Takes(asks, n, At("identify", n), b, At("identify", n))
  BY HomeTakes
<1>4. At("media", n) \in Views /\ At("identify", n) \in Views /\ At("media", n).at = "media"
  BY AtFields DEF Places
<1> HIDE DEF a, b
<1>5. ASeq(P) /\ Len(P) = 2 /\ P[1] = a /\ P[2] = b
  BY DEF ASeq
<1>6. Q # << >> /\ Q[1] = b
  OBVIOUS
<1>7. Route(asks, n, At("identify", n), Q)
  BY <1>1, <1>3, <1>4, RouteEnd DEF Ends
<1>8. P = Cons(a, Q)
  BY TwoCons
<1> HIDE DEF P, Q
<1>9. Succeeds(a, b)
  BY <1>1 DEF Succeeds
<1>10. ~Ends(a) /\ Due("media") = {}
  BY <1>1, DueAt DEF Ends
<1>11. Route(asks, n, At("media", n), P)
  BY <1>2, <1>4, <1>6, <1>7, <1>8, <1>9, <1>10, RouteCons
<1>12. QED  BY <1>11 DEF P, a, b

------------------------------------------------------------------------------
\* What the requests of an FMLE publisher are answered with.
LEMMA FmleRoute ==
    ASSUME NEW asks, NEW n \in Nat, NEW tid, NEW of, NEW name, Asked(asks, n + 1, "fmle", name)
    PROVE  Route(asks, n, At("fc", n), <<Result(tid, of)>> \o Identified("fmle", name))
<1> DEFINE a == Result(tid, of)
           b == Send("SetChunkSize")
           c == Expect("FMLEStart")
           d == Step("reply")
           e == Expect("CreateStream")
           f == Expect("Publish")
           g == Send("onFCPublish")
           h == Send("onStatus")
           i == Serving("fmle", name)
           A == <<a>>
           B == <<b>>
           C == <<c, d, e, d, f, g, h>>
           BC == <<b, c, d, e, d, f, g, h>>
           I == <<i>>
           BCI == <<b, c, d, e, d, f, g, h, i>>
           P == <<a, b, c, d, e, d, f, g, h, i>>
<1>1. <<Result(tid, of)>> \o Identified("fmle", name) = A \o ((B \o C) \o I)
  BY DEF Identified, StartFmlePublish
<1>2. /\ a.do = "send" /\ d.do = "reply" /\ g.do = "send" /\ h.do = "send" /\ b.do = "send"
      /\ i.do = "serve" /\ c.do = "expect" /\ c.packet = "FMLEStart"
      /\ e.do = "expect" /\ e.packet = "CreateStream" /\ f.do = "expect"
  BY DEF Send, Request, Result, Step, Expect, Serving
<1>3. Free(b) /\ Free(g) /\ Free(h) /\ Free(i) /\ Free(c) /\ Free(e) /\ Free(f)
  BY FreeSteps
<1>4. /\ Takes(asks, n, At("fc", n), c, At("create", n))
      /\ Takes(asks, n, At("create", n), e, At("publish", n))
      /\ Takes(asks, n, At("publish", n), f, At("media", n + 1))
  <2>1. <<"fc", "FMLEStart", "create">> \in Accepts /\ <<"create", "CreateStream", "publish">> \in Accepts
    BY DEF Accepts
  <2>2. QED  BY <2>1, WaitsTake
<1>5. Takes(asks, n, At("media", n + 1), i, At("media", n + 1))
  BY HomeTakes
<1> HIDE DEF a, b, c, d, e, f, g, h, i
<1>6. ASeq(A) /\ ASeq(B) /\ ASeq(C) /\ ASeq(BC) /\ ASeq(I) /\ ASeq(BCI) /\ ASeq(P)
  BY DEF ASeq
<1>7. B \o C = BC
  <2>1. IsJoined(B, C, BC)
    BY <1>6 DEF IsJoined
  <2> HIDE DEF B, C, BC
  <2>2. QED  BY <2>1, Joins
<1>8. BC \o I = BCI
  <2>1. IsJoined(BC, I, BCI)
    BY <1>6 DEF IsJoined
  <2> HIDE DEF BC, I, BCI
  <2>2. QED  BY <2>1, Joins
<1>9. A \o BCI = P
  <2>1. IsJoined(A, BCI, P)
    BY <1>6 DEF IsJoined
  <2> HIDE DEF A, BCI, P
  <2>2. QED  BY <2>1, Joins
<1>10. /\ Len(P) = 10 /\ P[1] = a /\ P[2] = b /\ P[3] = c /\ P[4] = d /\ P[5] = e
       /\ P[6] = d /\ P[7] = f /\ P[8] = g /\ P[9] = h /\ P[10] = i
  OBVIOUS
<1> DEFINE q2 == Rest(P, 2)
           q3 == Rest(P, 3)
           q4 == Rest(P, 4)
           q5 == Rest(P, 5)
           q6 == Rest(P, 6)
           q7 == Rest(P, 7)
           q8 == Rest(P, 8)
           q9 == Rest(P, 9)
           q10 == Rest(P, 10)
<1> HIDE DEF A, B, C, BC, I, BCI, P
<1>11. /\ P = Cons(a, q2) /\ q2 = Cons(b, q3) /\ q3 = Cons(c, q4) /\ q4 = Cons(d, q5)
       /\ q5 = Cons(e, q6) /\ q6 = Cons(d, q7) /\ q7 = Cons(f, q8) /\ q8 = Cons(g, q9)
       /\ q9 = Cons(h, q10) /\ q10 = <<i>>
  <2>1. \A x \in 1..10 : Rest(P, x) = Cons(P[x], Rest(P, x + 1))
    BY <1>6, <1>10, RestCons
  <2>2. Rest(P, 1) = P /\ Rest(P, 10 + 1) = << >>
    BY <1>6, <1>10, RestAll
  <2>3. P = Cons(P[1], q2) /\ q2 = Cons(P[2], q3) /\ q3 = Cons(P[3], q4) /\ q4 = Cons(P[4], q5)
    BY <2>1, <2>2
  <2>4. q5 = Cons(P[5], q6) /\ q6 = Cons(P[6], q7) /\ q7 = Cons(P[7], q8) /\ q8 = Cons(P[8], q9)
    BY <2>1
  <2>5. q9 = Cons(P[9], q10) /\ q10 = Cons(P[10], << >>)
    BY <2>1, <2>2
  <2>6. QED  BY <1>10, <2>3, <2>4, <2>5, OneCons
<1> HIDE DEF q2, q3, q4, q5, q6, q7, q8, q9, q10
<1>12. /\ At("fc", n) \in Views /\ At("fc", n).at = "fc" /\ At("create", n) \in Views
       /\ At("create", n).at = "create" /\ At("publish", n) \in Views /\ At("publish", n).at = "publish"
       /\ At("media", n + 1) \in Views
  BY AtFields DEF Places
<1>13. /\ ~Ends(c) /\ ~Ends(e) /\ ~Ends(f) /\ Awaits(c) /\ Awaits(e) /\ Awaits(f)
       /\ Ends(i) /\ ~Pauses(d) /\ Gets(d, "CreateStreamRes")
  BY <1>2 DEF Ends, Awaits, Pauses, Gets
<1>14. Succeeds(c, d) /\ Succeeds(e, d)
  BY <1>2 DEF Succeeds
<1>15. FreeRoute(asks, n, At("media", n + 1), q10)
  BY <1>3, <1>5, <1>11, <1>12, <1>13, FreeEnd
<1>16. FreeRoute(asks, n, At("media", n + 1), q9)
  BY <1>2, <1>3, <1>11, <1>12, <1>15, SendCons
<1>17. FreeRoute(asks, n, At("media", n + 1), q8)
  BY <1>2, <1>3, <1>11, <1>12, <1>16, SendCons
<1>18. FreeRoute(asks, n, At("publish", n), q7)
  <2>1. Due("publish") = {}
    BY DueAt
  <2>2. QED  BY <1>3, <1>4, <1>11, <1>12, <1>13, <1>17, <2>1, FreeCons
<1>19. Route(asks, n, At("publish", n), q6)
  <2>1. q7 # << >> => Succeeds(d, q7[1])
    BY <1>18 DEF FreeRoute, Free
  <2>2. QED  BY <1>2, <1>11, <1>12, <1>18, <2>1, RouteSend DEF FreeRoute
<1>20. Provides(q6, 1, "CreateStreamRes") /\ q6[1] = d
  <2>1. ASeq(q7)
    BY <1>18, RouteIsASeq DEF FreeRoute
  <2>2. QED  BY <1>11, <1>13, <2>1, ProvidesAtOnce, ConsFields
<1>21. FreeRoute(asks, n, At("create", n), q5)
  <2>1. Due("create") = {"CreateStreamRes"}
    BY DueAt
  <2>2. Route(asks, n, At("create", n), q5)
    BY <1>4, <1>11, <1>12, <1>13, <1>14, <1>19, <1>20, <2>1, RouteCons
  <2>3. q5[1] = e
    BY <1>11, <1>19, RouteIsASeq, ConsFields
  <2>4. QED  BY <1>3, <2>2, <2>3 DEF FreeRoute
<1>22. Route(asks, n, At("create", n), q4) /\ q4[1] = d
  <2>1. q5 # << >> => Succeeds(d, q5[1])
    BY <1>21 DEF FreeRoute, Free
  <2>2. q4[1] = d
    BY <1>11, <1>21, RouteIsASeq, ConsFields DEF FreeRoute
  <2>3. QED  BY <1>2, <1>11, <1>12, <1>21, <2>1, <2>2, RouteSend DEF FreeRoute
<1>23. FreeRoute(asks, n, At("fc", n), q3)
  <2>1. Due("fc") = {}
    BY DueAt
  <2>2. Route(asks, n, At("fc", n), q3)
    BY <1>4, <1>11, <1>12, <1>13, <1>14, <1>22, <2>1, RouteCons
  <2>3. q3[1] = c
    BY <1>11, <1>22, RouteIsASeq, ConsFields
  <2>4. QED  BY <1>3, <2>2, <2>3 DEF FreeRoute
<1>24. FreeRoute(asks, n, At("fc", n), q2)
  BY <1>2, <1>3, <1>11, <1>12, <1>23, SendCons
<1>25. Route(asks, n, At("fc", n), P)
  <2>1. q2 # << >> => Succeeds(a, q2[1])
    BY <1>24 DEF FreeRoute, Free
  <2>2. QED  BY <1>2, <1>11, <1>12, <1>24, <2>1, RouteSend DEF FreeRoute
<1>26. QED  BY <1>1, <1>7, <1>8, <1>9, <1>25

LEMMA HandshakeRoute ==
    ASSUME NEW asks
    PROVE  Route(asks, 0, At("c0c1", 0), ServerHandshake \o <<Expect("ConnectApp"), Step("decide")>>)
<1> DEFINE a == Read("c0c1")
           b == Send("s0s1s2")
           c == Read("c2")
           d == Expect("ConnectApp")
           e == Step("decide")
           A == <<a, b, c>>
           D == <<d, e>>
           P == <<a, b, c, d, e>>
<1>1. ServerHandshake \o <<d, e>> = A \o D
  BY DEF ServerHandshake
<1>2. /\ a.do = "read" /\ b.do = "send" /\ c.do = "read" /\ d.do = "expect"
      /\ d.packet = "ConnectApp" /\ e.do = "decide"
  BY DEF Read, Send, Request, Expect, Step
<1>3. Free(a) /\ Free(b) /\ Free(c) /\ Free(d) /\ Gets(b, "s0s1s2")
  BY FreeSteps, GetsSent
<1>4. /\ Takes(asks, 0, At("c0c1", 0), a, At("c2", 0))
      /\ Takes(asks, 0, At("c2", 0), c, At("connect", 0))
      /\ Takes(asks, 0, At("connect", 0), d, At("identify", 0))
  <2>1. <<"connect", "ConnectApp", "identify">> \in Accepts
    BY DEF Accepts
  <2>2. QED  BY <2>1, WaitsTake
<1>5. Takes(asks, 0, At("identify", 0), e, At("identify", 0))
  BY HomeTakes
<1> HIDE DEF a, b, c, d, e
<1>6. ASeq(A) /\ ASeq(D) /\ ASeq(P)
  BY DEF ASeq
<1>7. A \o D = P
  <2>1. IsJoined(A, D, P)
    BY <1>6 DEF IsJoined
  <2> HIDE DEF A, D, P
  <2>2. QED  BY <2>1, Joins
<1>8. Len(P) = 5 /\ P[1] = a /\ P[2] = b /\ P[3] = c /\ P[4] = d /\ P[5] = e
  OBVIOUS
<1> DEFINE q2 == Rest(P, 2)
           q3 == Rest(P, 3)
           q4 == Rest(P, 4)
           q5 == Rest(P, 5)
<1> HIDE DEF A, D, P
<1>9. P = Cons(a, q2) /\ q2 = Cons(b, q3) /\ q3 = Cons(c, q4) /\ q4 = Cons(d, q5) /\ q5 = <<e>>
  <2>1. \A x \in 1..5 : Rest(P, x) = Cons(P[x], Rest(P, x + 1))
    BY <1>6, <1>8, RestCons
  <2>2. Rest(P, 1) = P /\ Rest(P, 5 + 1) = << >>
    BY <1>6, <1>8, RestAll
  <2>3. P = Cons(P[1], q2) /\ q2 = Cons(P[2], q3) /\ q3 = Cons(P[3], q4) /\ q4 = Cons(P[4], q5)
    BY <2>1, <2>2
  <2>4. q5 = Cons(P[5], << >>)
    BY <2>1, <2>2
  <2>5. QED  BY <1>8, <2>3, <2>4, OneCons
<1>10. q5 # << >> /\ Len(q5) = 1 /\ q5[1] = e
  BY <1>9
<1> HIDE DEF q2, q3, q4, q5
<1>11. /\ At("c0c1", 0) \in Views /\ At("c0c1", 0).at = "c0c1" /\ At("c2", 0) \in Views
       /\ At("c2", 0).at = "c2" /\ At("connect", 0) \in Views /\ At("connect", 0).at = "connect"
       /\ At("identify", 0) \in Views
  BY AtFields DEF Places
<1>12. /\ ~Ends(a) /\ ~Ends(c) /\ ~Ends(d) /\ Ends(e) /\ Succeeds(d, e)
  BY <1>2 DEF Ends, Succeeds
<1>13. Route(asks, 0, At("identify", 0), q5)
  BY <1>5, <1>9, <1>11, <1>12, RouteEnd
<1>14. FreeRoute(asks, 0, At("connect", 0), q4)
  <2>1. Due("connect") = {}
    BY DueAt
  <2>2. Route(asks, 0, At("connect", 0), q4)
    BY <1>2, <1>4, <1>9, <1>10, <1>11, <1>12, <1>13, <2>1, RouteCons
  <2>3. q4[1] = d
    BY <1>9, <1>13, RouteIsASeq, ConsFields
  <2>4. QED  BY <1>3, <2>2, <2>3 DEF FreeRoute
<1>15. FreeRoute(asks, 0, At("c2", 0), q3)
  <2>1. Due("c2") = {}
    BY DueAt
  <2>2. QED  BY <1>3, <1>4, <1>9, <1>11, <1>12, <1>14, <2>1, FreeCons
<1>16. FreeRoute(asks, 0, At("c2", 0), q2) /\ Provides(q2, 1, "s0s1s2")
  BY <1>2, <1>3, <1>9, <1>11, <1>15, SendCons
<1>17. FreeRoute(asks, 0, At("c0c1", 0), P)
  <2>1. Due("c0c1") = {"s0s1s2"}
    BY DueAt
  <2>2. QED  BY <1>3, <1>4, <1>9, <1>11, <1>12, <1>16, <2>1, FreeCons
<1>18. QED  BY <1>1, <1>7, <1>17 DEF FreeRoute, d, e

LEMMA CheckRoute ==
    ASSUME NEW asks, NEW n, NEW d \in Nat, NEW data
    PROVE  Route(asks, n, At("check1", d), ServerCheck(data))
<1> DEFINE a == Result(1, "connect")
           b == Send("startPlay")
           c == Expect("startingPlay")
           e == Send("playing")
           f == Send("stopPlay")
           g == Expect("stoppedPlay")
           h == Request("startPublish", 0, data)
           i == Expect("startingPublish")
           j == Send("stopPublish")
           k == Expect("stoppedPublish")
           l == Send("finished")
           m == Expect("final")
           A == <<a>>
           B == <<b, c, e, f, g, h, i, j, k, l, m>>
           P == <<a, b, c, e, f, g, h, i, j, k, l, m>>
<1>1. ServerCheck(data) = A \o B
  BY DEF ServerCheck, ResponseConnectApp
<1>2. /\ a.do = "send" /\ b.do = "send" /\ e.do = "send" /\ f.do = "send"
      /\ h.do = "send" /\ j.do = "send" /\ l.do = "send"
  BY DEF Request, Send, Result
<1>3. /\ Free(a) /\ Free(b) /\ Free(e) /\ Free(f) /\ Free(h) /\ Free(j) /\ Free(l)
  <2>1. "connect" \notin OfAStream
    BY DEF OfAStream
  <2>2. QED  BY <2>1, FreeSteps
<1>4. Gets(f, "stopPlay") /\ Gets(h, "startPublish") /\ Gets(j, "stopPublish") /\ Gets(l, "finished")
  BY GetsSent
<1>5. /\ c = Expect("startingPlay") /\ g = Expect("stoppedPlay") /\ i = Expect("startingPublish")
      /\ k = Expect("stoppedPublish") /\ m = Expect("final")
  OBVIOUS
<1> HIDE DEF a, b, c, e, f, g, h, i, j, k, l, m
<1>6. ASeq(A) /\ ASeq(B) /\ ASeq(P)
  BY DEF ASeq
<1>7. A \o B = P
  <2>1. IsJoined(A, B, P)
    BY <1>6 DEF IsJoined
  <2> HIDE DEF A, B, P
  <2>2. QED  BY <2>1, Joins
<1>8. /\ Len(P) = 12 /\ P[1] = a /\ P[2] = b /\ P[3] = c /\ P[4] = e /\ P[5] = f
      /\ P[6] = g /\ P[7] = h /\ P[8] = i /\ P[9] = j /\ P[10] = k /\ P[11] = l /\ P[12] = m
  OBVIOUS
<1> DEFINE q2 == Rest(P, 2)
           q3 == Rest(P, 3)
           q4 == Rest(P, 4)
           q5 == Rest(P, 5)
           q6 == Rest(P, 6)
           q7 == Rest(P, 7)
           q8 == Rest(P, 8)
           q9 == Rest(P, 9)
           q10 == Rest(P, 10)
           q11 == Rest(P, 11)
           q12 == Rest(P, 12)
           q13 == Rest(P, 13)
<1> HIDE DEF A, B, P
<1>9. /\ P = Cons(a, q2) /\ q2 = Cons(b, q3) /\ q3 = Cons(c, q4) /\ q4 = Cons(e, q5)
      /\ q5 = Cons(f, q6) /\ q6 = Cons(g, q7) /\ q7 = Cons(h, q8) /\ q8 = Cons(i, q9)
      /\ q9 = Cons(j, q10) /\ q10 = Cons(k, q11) /\ q11 = Cons(l, q12) /\ q12 = Cons(m, q13)
      /\ q13 = << >>
  <2>1. \A x \in 1..12 : Rest(P, x) = Cons(P[x], Rest(P, x + 1))
    BY <1>6, <1>8, RestCons
  <2>2. Rest(P, 1) = P /\ Rest(P, 12 + 1) = << >>
    BY <1>6, <1>8, RestAll
  <2>3. P = Cons(P[1], q2) /\ q2 = Cons(P[2], q3) /\ q3 = Cons(P[3], q4) /\ q4 = Cons(P[4], q5)
    BY <2>1, <2>2
  <2>4. q5 = Cons(P[5], q6) /\ q6 = Cons(P[6], q7) /\ q7 = Cons(P[7], q8) /\ q8 = Cons(P[8], q9)
    BY <2>1
  <2>5. q9 = Cons(P[9], q10) /\ q10 = Cons(P[10], q11) /\ q11 = Cons(P[11], q12) /\ q12 = Cons(P[12], q13)
    BY <2>1
  <2>6. QED  BY <1>8, <2>2, <2>3, <2>4, <2>5
<1> HIDE DEF q2, q3, q4, q5, q6, q7, q8, q9, q10, q11, q12, q13
<1>10. /\ At("check1", d) \in Views /\ At("check2", d) \in Views /\ At("check3", d) \in Views
       /\ At("check4", d) \in Views /\ At("check5", d) \in Views /\ At("checked", d) \in Views
  BY AtFields DEF Places
<1>11. /\ "check1" \in Places /\ "check2" \in Places /\ "check3" \in Places /\ "check4" \in Places
       /\ "check5" \in Places
  BY DEF Places
<1>12. /\ <<"check1", "startingPlay", "check2">> \in Accepts
       /\ <<"check2", "stoppedPlay", "check3">> \in Accepts
       /\ <<"check3", "startingPublish", "check4">> \in Accepts
       /\ <<"check4", "stoppedPublish", "check5">> \in Accepts
       /\ <<"check5", "final", "checked">> \in Accepts
  BY DEF Accepts
<1> DEFINE From(place, p) == FreeRoute(asks, n, At(place, d), p)
<1>13. From("checked", q13)
  BY <1>9, <1>10, FreeNowhere
<1>14. From("check5", q12)
  <2>1. /\ q12 = Cons(Expect("final"), q13) /\ "check5" \in Places
        /\ <<"check5", "final", "checked">> \in Accepts /\ Due("check5") = {}
    BY <1>5, <1>9, <1>11, <1>12, DueAt
  <2>2. QED  BY <2>1, <1>13, WaitCons
<1>15. From("check5", q11) /\ Provides(q11, 1, "finished")
  <2>1. l.do = "send" /\ Free(l) /\ Gets(l, "finished") /\ q11 = Cons(l, q12) /\ At("check5", d) \in Views
    BY <1>2, <1>3, <1>4, <1>9, <1>10
  <2>2. QED  BY <2>1, <1>14, SendCons
<1>16. From("check4", q10)
  <2>1. /\ q10 = Cons(Expect("stoppedPublish"), q11) /\ "check4" \in Places
        /\ <<"check4", "stoppedPublish", "check5">> \in Accepts /\ Due("check4") = {"finished"}
    BY <1>5, <1>9, <1>11, <1>12, DueAt
  <2>2. QED  BY <2>1, <1>15, WaitCons
<1>17. From("check4", q9) /\ Provides(q9, 1, "stopPublish")
  <2>1. j.do = "send" /\ Free(j) /\ Gets(j, "stopPublish") /\ q9 = Cons(j, q10) /\ At("check4", d) \in Views
    BY <1>2, <1>3, <1>4, <1>9, <1>10
  <2>2. QED  BY <2>1, <1>16, SendCons
<1>18. From("check3", q8)
  <2>1. /\ q8 = Cons(Expect("startingPublish"), q9) /\ "check3" \in Places
        /\ <<"check3", "startingPublish", "check4">> \in Accepts /\ Due("check3") = {"stopPublish"}
    BY <1>5, <1>9, <1>11, <1>12, DueAt
  <2>2. QED  BY <2>1, <1>17, WaitCons
<1>19. From("check3", q7) /\ Provides(q7, 1, "startPublish")
  <2>1. h.do = "send" /\ Free(h) /\ Gets(h, "startPublish") /\ q7 = Cons(h, q8) /\ At("check3", d) \in Views
    BY <1>2, <1>3, <1>4, <1>9, <1>10
  <2>2. QED  BY <2>1, <1>18, SendCons
<1>20. From("check2", q6)
  <2>1. /\ q6 = Cons(Expect("stoppedPlay"), q7) /\ "check2" \in Places
        /\ <<"check2", "stoppedPlay", "check3">> \in Accepts /\ Due("check2") = {"startPublish"}
    BY <1>5, <1>9, <1>11, <1>12, DueAt
  <2>2. QED  BY <2>1, <1>19, WaitCons
<1>21. From("check2", q5) /\ Provides(q5, 1, "stopPlay")
  <2>1. f.do = "send" /\ Free(f) /\ Gets(f, "stopPlay") /\ q5 = Cons(f, q6) /\ At("check2", d) \in Views
    BY <1>2, <1>3, <1>4, <1>9, <1>10
  <2>2. QED  BY <2>1, <1>20, SendCons
<1>22. From("check2", q4) /\ Provides(q4, 1, "stopPlay")
  <2>1. e.do = "send" /\ Free(e) /\ q4 = Cons(e, q5) /\ At("check2", d) \in Views
    BY <1>2, <1>3, <1>9, <1>10
  <2>2. QED  BY <2>1, <1>21, SendCons
<1>23. From("check1", q3)
  <2>1. /\ q3 = Cons(Expect("startingPlay"), q4) /\ "check1" \in Places
        /\ <<"check1", "startingPlay", "check2">> \in Accepts /\ Due("check1") = {"stopPlay"}
    BY <1>5, <1>9, <1>11, <1>12, DueAt
  <2>2. QED  BY <2>1, <1>22, WaitCons
<1>24. From("check1", q2)
  <2>1. b.do = "send" /\ Free(b) /\ q2 = Cons(b, q3) /\ At("check1", d) \in Views
    BY <1>2, <1>3, <1>9, <1>10
  <2>2. QED  BY <2>1, <1>23, SendCons
<1>25. From("check1", P)
  <2>1. a.do = "send" /\ Free(a) /\ P = Cons(a, q2) /\ At("check1", d) \in Views
    BY <1>2, <1>3, <1>9, <1>10
  <2>2. QED  BY <2>1, <1>24, SendCons
<1>26. QED  BY <1>1, <1>7, <1>25 DEF FreeRoute

------------------------------------------------------------------------------
(***************************************************************************)
(* The client's plans.                                                     *)
(***************************************************************************)
LEMMA RankIsInt == \A v \in Views : Rank(v) \in Int
BY DEF Rank, Views, Places

LEMMA ClientNowhere ==
    ASSUME NEW asks, NEW v \in Views, NEW b
    PROVE  ClientRoute(asks, v, << >>, v, b)
<1> DEFINE p == << >>
           t == <<v>>
<1>1. ASeq(p) /\ Len(p) = 0
  BY EmptyASeq
<1>2. Path(t, 0) /\ t[1] = v /\ Len(t) = 1
  BY OnePath
<1> HIDE DEF p, t
<1>3. 1..Len(p) = {} /\ \A j, k \in 1..Len(t) : ~(j < k)
  BY <1>1, <1>2
<1>4. ClientPath(asks, t, p)
  BY <1>1, <1>2, <1>3 DEF ClientPath
<1>5. QED  BY <1>2, <1>3, <1>4 DEF ClientRoute, p

LEMMA ClientCons ==
    ASSUME NEW asks, NEW v \in Views, NEW u, NEW step, NEW p, NEW w, NEW b \in Int,
           ClientRoute(asks, u, p, w, b), Goes(asks, v, step, u), Rank(v) <= Rank(u),
           NEW c \in Int, c <= b,
           Awaits(step) => Rank(v) < b /\ c <= Rank(v)
    PROVE  ClientRoute(asks, v, Cons(step, p), w, c)
<1>1. PICK t : /\ ClientPath(asks, t, p) /\ t[1] = u /\ t[Len(t)] = w
               /\ \A k \in 1..Len(p) : Awaits(p[k]) => b <= Rank(t[k])
  BY DEF ClientRoute
<1> DEFINE q == Cons(step, p)
           s == Cons(v, t)
           n == Len(p)
<1>2. ASeq(p) /\ n \in Nat /\ Path(t, n) /\ Len(t) = n + 1
  BY <1>1 DEF ClientPath, Path, ASeq
<1>3. /\ ASeq(q) /\ Len(q) = n + 1 /\ q[1] = step
      /\ \A k \in 1..n : q[k + 1] = p[k]
      /\ \A k \in 1..(n + 1) : k = 1 \/ (k - 1 \in 1..n /\ (k - 1) + 1 = k)
  BY <1>2, ConsFields
<1>4. /\ Path(s, n + 1) /\ Len(s) = n + 2 /\ s[1] = v /\ \A k \in 1..(n + 1) : s[k + 1] = t[k]
  <2>1. Path(s, n + 1) /\ Len(s) = n + 2 /\ s[1] = v
    BY <1>2, PathCons
  <2>2. \A k \in 1..(n + 1) : s[k + 1] = t[k]
    BY <1>2, PathCons
  <2>3. QED  BY <2>1, <2>2
<1>5. \A k \in 1..(n + 1) : t[k] \in Views /\ Rank(t[k]) \in Int
  BY <1>2, RankIsInt DEF Path
<1>6. /\ \A k \in 1..n : Goes(asks, t[k], p[k], t[k + 1])
      /\ \A j, k \in 1..(n + 1) : j < k => Rank(t[j]) <= Rank(t[k])
      /\ \A j, k \in 1..n : j < k /\ Awaits(p[j]) /\ Awaits(p[k]) => Rank(t[j]) < Rank(t[k])
      /\ \A k \in 1..n : Awaits(p[k]) => b <= Rank(t[k])
  BY <1>1, <1>2 DEF ClientPath
<1>7. Rank(v) \in Int /\ 1 \in 1..(n + 1) /\ 1 + 1 = 2
  BY <1>2, RankIsInt
<1>8. t[1] = u
  BY <1>1
<1> HIDE DEF q, s, n
<1>9. ASSUME NEW k \in 1..(n + 1) PROVE Goes(asks, s[k], q[k], s[k + 1])
  <2>1. CASE k = 1
    BY <1>3, <1>4, <1>7, <1>8, <2>1
  <2>2. CASE k - 1 \in 1..n /\ (k - 1) + 1 = k
    <3>1. k - 1 \in 1..(n + 1) /\ Goes(asks, t[k - 1], p[k - 1], t[(k - 1) + 1])
      BY <1>2, <1>6, <2>2
    <3>2. s[k] = t[k - 1] /\ q[k] = p[k - 1] /\ s[k + 1] = t[k]
      BY <1>3, <1>4, <2>2, <3>1
    <3>3. QED  BY <2>2, <3>1, <3>2
  <2>3. QED  BY <1>3, <2>1, <2>2
<1>10. \A k \in 1..(n + 1) : Rank(v) <= Rank(t[k])
  <2> SUFFICES ASSUME NEW k \in 1..(n + 1) PROVE Rank(v) <= Rank(t[k])
    OBVIOUS
  <2>1. CASE k = 1
    BY <1>8, <2>1
  <2>2. CASE k # 1
    <3>1. 1 < k
      BY <1>2, <2>2
    <3>2. Rank(t[1]) <= Rank(t[k])
      BY <1>6, <1>7, <3>1
    <3>3. QED  BY <1>5, <1>7, <1>8, <3>2
  <2>3. QED  BY <2>1, <2>2
<1>11. ASSUME NEW j \in 1..(n + 2), NEW k \in 1..(n + 2), j < k
       PROVE  Rank(s[j]) <= Rank(s[k])
  <2>1. k - 1 \in 1..(n + 1) /\ (k - 1) + 1 = k
    BY <1>2, <1>11
  <2>2. s[k] = t[k - 1]
    BY <1>4, <2>1
  <2>3. CASE j = 1
    BY <1>4, <1>10, <2>1, <2>2, <2>3
  <2>4. CASE j # 1
    <3>1. j - 1 \in 1..(n + 1) /\ (j - 1) + 1 = j /\ j - 1 < k - 1
      BY <1>2, <1>11, <2>4
    <3>2. s[j] = t[j - 1]
      BY <1>4, <3>1
    <3>3. QED  BY <1>6, <2>1, <2>2, <3>1, <3>2
  <2>5. QED  BY <2>3, <2>4
<1>12. ASSUME NEW j \in 1..(n + 1), NEW k \in 1..(n + 1), j < k, Awaits(q[j]), Awaits(q[k])
       PROVE  Rank(s[j]) < Rank(s[k])
  <2>1. k - 1 \in 1..n /\ k - 1 \in 1..(n + 1) /\ (k - 1) + 1 = k
    BY <1>2, <1>12
  <2>2. s[k] = t[k - 1] /\ q[k] = p[k - 1]
    BY <1>3, <1>4, <2>1
  <2>3. CASE j = 1
    <3>1. Rank(v) < b /\ b <= Rank(t[k - 1]) /\ Rank(t[k - 1]) \in Int
      BY <1>3, <1>5, <1>6, <1>12, <2>1, <2>2, <2>3
    <3>2. QED  BY <1>4, <1>7, <2>2, <2>3, <3>1
  <2>4. CASE j # 1
    <3>1. j - 1 \in 1..n /\ j - 1 \in 1..(n + 1) /\ (j - 1) + 1 = j /\ j - 1 < k - 1
      BY <1>2, <1>12, <2>4
    <3>2. s[j] = t[j - 1] /\ q[j] = p[j - 1]
      BY <1>3, <1>4, <3>1
    <3>3. QED  BY <1>6, <1>12, <2>1, <2>2, <3>1, <3>2
  <2>5. QED  BY <2>3, <2>4
<1>13. ASSUME NEW k \in 1..(n + 1), Awaits(q[k]) PROVE c <= Rank(s[k])
  <2>1. CASE k = 1
    BY <1>3, <1>4, <1>13, <2>1
  <2>2. CASE k - 1 \in 1..n /\ (k - 1) + 1 = k
    <3>1. k - 1 \in 1..(n + 1) /\ s[k] = t[k - 1] /\ q[k] = p[k - 1]
      BY <1>2, <1>3, <1>4, <2>2
    <3>2. b <= Rank(t[k - 1]) /\ Rank(t[k - 1]) \in Int
      BY <1>5, <1>6, <1>13, <2>2, <3>1
    <3>3. QED  BY <3>1, <3>2
  <2>3. QED  BY <1>3, <2>1, <2>2
<1>14. ClientPath(asks, s, q)
  BY <1>3, <1>4, <1>9, <1>11, <1>12 DEF ClientPath
<1>15. s[Len(s)] = w
  <2>1. n + 1 \in 1..(n + 1) /\ (n + 1) + 1 = n + 2
    BY <1>2
  <2>2. s[n + 2] = t[n + 1]
    BY <1>4, <2>1
  <2>3. QED  BY <1>1, <1>2, <1>4, <2>2
<1>16. \A k \in 1..Len(q) : Awaits(q[k]) => c <= Rank(s[k])
  BY <1>3, <1>13
<1>17. ClientRoute(asks, v, q, w, c)
  BY <1>4, <1>14, <1>15, <1>16 DEF ClientRoute
<1>18. QED  BY <1>17 DEF q

\* What is sent, and what is waited for.
LEMMA ClientSends ==
    ASSUME NEW asks, NEW v \in Views, NEW u \in Views, NEW step, NEW p, NEW w, NEW b \in Int,
           ClientRoute(asks, u, p, w, b), step.do = "send", Moves(asks, v, step, u),
           NEW q, q = Cons(step, p)
    PROVE  ClientRoute(asks, v, q, w, b)
<1>1. Rank(v) <= Rank(u)
  BY RankRises
<1>2. Goes(asks, v, step, u) /\ ~Awaits(step)
  BY DEF Goes, Awaits
<1>3. QED  BY <1>1, <1>2, ClientCons

LEMMA ClientWaits ==
    ASSUME NEW asks, NEW v \in Views, NEW step, NEW p, NEW w, NEW b \in Int,
           ClientRoute(asks, v, p, w, b), Awaits(step), <<v.at, step.packet>> \in Expected,
           Rank(v) < b, NEW q, q = Cons(step, p)
    PROVE  ClientRoute(asks, v, q, w, Rank(v))
<1>1. Rank(v) \in Int /\ Rank(v) <= Rank(v) /\ Rank(v) <= b
  BY RankIsInt
<1>2. Goes(asks, v, step, v)
  BY DEF Goes
<1>3. QED  BY <1>1, <1>2, ClientCons

------------------------------------------------------------------------------
LEMMA RankAt ==
    ASSUME NEW d \in Nat
    PROVE  /\ Rank(At("c0c1", d)) = 10 * d - 23 /\ Rank(At("c2", d)) = 10 * d - 22
           /\ Rank(At("connect", d)) = 10 * d - 21 /\ Rank(At("media", d)) = 10 * d - 5
           /\ Rank(At("identify", d)) = 10 * d /\ Rank(At("level1", d)) = 10 * d + 1
           /\ Rank(At("publish", d)) = 10 * d + 3 /\ Rank(At("check1", d)) = 10 * d + 1
           /\ Rank(At("check2", d)) = 10 * d + 2 /\ Rank(At("check3", d)) = 10 * d + 3
           /\ Rank(At("check4", d)) = 10 * d + 4 /\ Rank(At("check5", d)) = 10 * d + 5
<1>1. \A place : At(place, d).at = place /\ At(place, d).done = d
  BY AtFields
<1>2. \A v : v.done = d =>
        /\ v.at = "c0c1" => Rank(v) = 10 * d - 23
        /\ v.at = "c2" => Rank(v) = 10 * d - 22
        /\ v.at = "connect" => Rank(v) = 10 * d - 21
        /\ v.at = "media" => Rank(v) = 10 * d - 5
        /\ v.at = "identify" => Rank(v) = 10 * d
        /\ v.at = "level1" => Rank(v) = 10 * d + 1
        /\ v.at = "publish" => Rank(v) = 10 * d + 3
        /\ v.at = "check1" => Rank(v) = 10 * d + 1
        /\ v.at = "check2" => Rank(v) = 10 * d + 2
        /\ v.at = "check3" => Rank(v) = 10 * d + 3
        /\ v.at = "check4" => Rank(v) = 10 * d + 4
        /\ v.at = "check5" => Rank(v) = 10 * d + 5
  BY DEF Rank
<1>3. QED  BY <1>1, <1>2

LEMMA AtViews == \A place \in Places, d \in Nat : At(place, d) \in Views
BY AtFields

\* What moves the server, whoever sends it.
LEMMA MovesAt ==
    ASSUME NEW asks, NEW step, NEW d
    PROVE  /\ \A a : <<a, step.command>> \in Idle => Moves(asks, At(a, d), step, At(a, d))
           /\ \A a, b : <<a, step.command, b>> \in Ways => Moves(asks, At(a, d), step, At(b, d))
<1>1. ASSUME NEW a, <<a, step.command>> \in Idle PROVE Moves(asks, At(a, d), step, At(a, d))
  BY <1>1, AtFields DEF Moves
<1>2. ASSUME NEW a, NEW b, <<a, step.command, b>> \in Ways
      PROVE  Moves(asks, At(a, d), step, At(b, d))
  BY <1>2, AtFields DEF Moves
<1>3. QED  BY <1>1, <1>2

LEMMA ClientHandshakeRoute ==
    ASSUME NEW asks, NEW version
    PROVE  \E b \in Int : ClientRoute(asks, At("c0c1", 0), ClientHandshake(version), At("connect", 0), b)
<1> DEFINE a == [Send("c0c1") EXCEPT !.tid = version]
           b == Read("s0s1s2")
           c == Send("c2")
           P == <<a, b, c>>
<1>1. ClientHandshake(version) = P
  BY DEF ClientHandshake
<1>2. /\ a.do = "send" /\ a.command = "c0c1"
      /\ Awaits(b) /\ b.packet = "s0s1s2"
      /\ c.do = "send" /\ c.command = "c2"
  BY DEF Send, Request, Expect, Read, Step, Awaits
<1> HIDE DEF a, b, c
<1>3. ASeq(P) /\ Len(P) = 3 /\ P[1] = a /\ P[2] = b /\ P[3] = c
  BY DEF ASeq
<1> DEFINE q2 == Rest(P, 2)
           q3 == Rest(P, 3)
           q4 == Rest(P, 4)
<1> HIDE DEF P
<1>4. /\ P = Cons(a, q2)
      /\ q2 = Cons(b, q3)
      /\ q3 = Cons(c, q4)
      /\ q4 = << >>
  <2>1. \A x \in 1..3 : Rest(P, x) = Cons(P[x], Rest(P, x + 1))
    BY <1>3, RestCons
  <2>2. Rest(P, 1) = P /\ Rest(P, 3 + 1) = << >>
    BY <1>3, RestAll
  <2>3. P = Cons(P[1], q2) /\ q2 = Cons(P[2], q3) /\ q3 = Cons(P[3], q4)
    BY <2>1, <2>2
  <2>4. QED  BY <1>3, <2>2, <2>3
<1> HIDE DEF q2, q3, q4
<1>5. At("c0c1", 0) \in Views /\ At("c2", 0) \in Views /\ At("connect", 0) \in Views
  BY AtViews DEF Places
<1>6. ClientRoute(asks, At("connect", 0), q4, At("connect", 0), 6)
  BY <1>4, <1>5, ClientNowhere
<1>7. ClientRoute(asks, At("c2", 0), q3, At("connect", 0), 6)
  <2>1. Moves(asks, At("c2", 0), c, At("connect", 0))
    BY <1>2, MovesAt DEF Ways
  <2>2. 6 \in Int
    BY RankIsInt, <1>5
  <2>3. c.do = "send" /\ q3 = Cons(c, q4)
    BY <1>2, <1>4
  <2>4. QED  BY <1>5, <1>6, <2>1, <2>2, <2>3, ClientSends
<1>8. ClientRoute(asks, At("c2", 0), q2, At("connect", 0), Rank(At("c2", 0)))
  <2>1. <<At("c2", 0).at, b.packet>> \in Expected
    BY <1>2, AtFields DEF Expected
  <2>2. 6 \in Int
    BY RankIsInt, <1>5
  <2>5. Rank(At("c2", 0)) < 6
    BY RankAt
  <2>3. Awaits(b) /\ q2 = Cons(b, q3)
    BY <1>2, <1>4
  <2>4. QED  BY <1>5, <1>7, <2>1, <2>2, <2>3, <2>5, ClientWaits
<1>9. ClientRoute(asks, At("c0c1", 0), P, At("connect", 0), Rank(At("c2", 0)))
  <2>1. Moves(asks, At("c0c1", 0), a, At("c2", 0))
    BY <1>2, MovesAt DEF Ways
  <2>2. Rank(At("c2", 0)) \in Int
    BY RankIsInt, <1>5
  <2>3. a.do = "send" /\ P = Cons(a, q2)
    BY <1>2, <1>4
  <2>4. QED  BY <1>5, <1>8, <2>1, <2>2, <2>3, ClientSends
<1>10. Rank(At("c2", 0)) \in Int
  BY RankIsInt, <1>5
<1>11. QED  BY <1>1, <1>9, <1>10

LEMMA ConnectLiveRoute ==
    ASSUME NEW asks
    PROVE  \E b \in Int : ClientRoute(asks, At("connect", 0), ConnectApp("live"), At("identify", 0), b)
<1> DEFINE a == Request("connect", 1, "live")
           b == Send("SetWindowAckSize")
           c == Expect("ConnectAppRes")
           P == <<a, b, c>>
<1>1. ConnectApp("live") = P
  BY DEF ConnectApp
<1>2. /\ a.do = "send" /\ a.command = "connect" /\ a.name = "live"
      /\ b.do = "send" /\ b.command = "SetWindowAckSize"
      /\ Awaits(c) /\ c.packet = "ConnectAppRes"
  BY DEF Send, Request, Expect, Read, Step, Awaits
<1> HIDE DEF a, b, c
<1>3. ASeq(P) /\ Len(P) = 3 /\ P[1] = a /\ P[2] = b /\ P[3] = c
  BY DEF ASeq
<1> DEFINE q2 == Rest(P, 2)
           q3 == Rest(P, 3)
           q4 == Rest(P, 4)
<1> HIDE DEF P
<1>4. /\ P = Cons(a, q2)
      /\ q2 = Cons(b, q3)
      /\ q3 = Cons(c, q4)
      /\ q4 = << >>
  <2>1. \A x \in 1..3 : Rest(P, x) = Cons(P[x], Rest(P, x + 1))
    BY <1>3, RestCons
  <2>2. Rest(P, 1) = P /\ Rest(P, 3 + 1) = << >>
    BY <1>3, RestAll
  <2>3. P = Cons(P[1], q2) /\ q2 = Cons(P[2], q3) /\ q3 = Cons(P[3], q4)
    BY <2>1, <2>2
  <2>4. QED  BY <1>3, <2>2, <2>3
<1> HIDE DEF q2, q3, q4
<1>5. At("connect", 0) \in Views /\ At("identify", 0) \in Views
  BY AtViews DEF Places
<1>6. ClientRoute(asks, At("identify", 0), q4, At("identify", 0), 6)
  BY <1>4, <1>5, ClientNowhere
<1>7. ClientRoute(asks, At("identify", 0), q3, At("identify", 0), Rank(At("identify", 0)))
  <2>1. <<At("identify", 0).at, c.packet>> \in Expected
    BY <1>2, AtFields DEF Expected
  <2>2. 6 \in Int
    BY RankIsInt, <1>5
  <2>5. Rank(At("identify", 0)) < 6
    BY RankAt
  <2>3. Awaits(c) /\ q3 = Cons(c, q4)
    BY <1>2, <1>4
  <2>4. QED  BY <1>5, <1>6, <2>1, <2>2, <2>3, <2>5, ClientWaits
<1>8. ClientRoute(asks, At("identify", 0), q2, At("identify", 0), Rank(At("identify", 0)))
  <2>1. Moves(asks, At("identify", 0), b, At("identify", 0))
    BY <1>2, MovesAt DEF Idle
  <2>2. Rank(At("identify", 0)) \in Int
    BY RankIsInt, <1>5
  <2>3. b.do = "send" /\ q2 = Cons(b, q3)
    BY <1>2, <1>4
  <2>4. QED  BY <1>5, <1>7, <2>1, <2>2, <2>3, ClientSends
<1>9. ClientRoute(asks, At("connect", 0), P, At("identify", 0), Rank(At("identify", 0)))
  <2>1. Moves(asks, At("connect", 0), a, At("identify", 0))
    BY <1>2, AtFields DEF Moves, Connected
  <2>2. Rank(At("identify", 0)) \in Int
    BY RankIsInt, <1>5
  <2>3. a.do = "send" /\ P = Cons(a, q2)
    BY <1>2, <1>4
  <2>4. QED  BY <1>5, <1>8, <2>1, <2>2, <2>3, ClientSends
<1>10. Rank(At("identify", 0)) \in Int
  BY RankIsInt, <1>5
<1>11. QED  BY <1>1, <1>9, <1>10

LEMMA ConnectCheckRoute ==
    ASSUME NEW asks
    PROVE  \E b \in Int : ClientRoute(asks, At("connect", 0), ConnectApp("check"), At("check1", 0), b)
<1> DEFINE a == Request("connect", 1, "check")
           b == Send("SetWindowAckSize")
           c == Expect("ConnectAppRes")
           P == <<a, b, c>>
<1>1. ConnectApp("check") = P
  BY DEF ConnectApp
<1>2. /\ a.do = "send" /\ a.command = "connect" /\ a.name = "check"
      /\ b.do = "send" /\ b.command = "SetWindowAckSize"
      /\ Awaits(c) /\ c.packet = "ConnectAppRes"
  BY DEF Send, Request, Expect, Read, Step, Awaits
<1> HIDE DEF a, b, c
<1>3. ASeq(P) /\ Len(P) = 3 /\ P[1] = a /\ P[2] = b /\ P[3] = c
  BY DEF ASeq
<1> DEFINE q2 == Rest(P, 2)
           q3 == Rest(P, 3)
           q4 == Rest(P, 4)
<1> HIDE DEF P
<1>4. /\ P = Cons(a, q2)
      /\ q2 = Cons(b, q3)
      /\ q3 = Cons(c, q4)
      /\ q4 = << >>
  <2>1. \A x \in 1..3 : Rest(P, x) = Cons(P[x], Rest(P, x + 1))
    BY <1>3, RestCons
  <2>2. Rest(P, 1) = P /\ Rest(P, 3 + 1) = << >>
    BY <1>3, RestAll
  <2>3. P = Cons(P[1], q2) /\ q2 = Cons(P[2], q3) /\ q3 = Cons(P[3], q4)
    BY <2>1, <2>2
  <2>4. QED  BY <1>3, <2>2, <2>3
<1> HIDE DEF q2, q3, q4
<1>5. At("connect", 0) \in Views /\ At("check1", 0) \in Views
  BY AtViews DEF Places
<1>6. ClientRoute(asks, At("check1", 0), q4, At("check1", 0), 6)
  BY <1>4, <1>5, ClientNowhere
<1>7. ClientRoute(asks, At("check1", 0), q3, At("check1", 0), Rank(At("check1", 0)))
  <2>1. <<At("check1", 0).at, c.packet>> \in Expected
    BY <1>2, AtFields DEF Expected
  <2>2. 6 \in Int
    BY RankIsInt, <1>5
  <2>5. Rank(At("check1", 0)) < 6
    BY RankAt
  <2>3. Awaits(c) /\ q3 = Cons(c, q4)
    BY <1>2, <1>4
  <2>4. QED  BY <1>5, <1>6, <2>1, <2>2, <2>3, <2>5, ClientWaits
<1>8. ClientRoute(asks, At("check1", 0), q2, At("check1", 0), Rank(At("check1", 0)))
  <2>1. Moves(asks, At("check1", 0), b, At("check1", 0))
    BY <1>2, MovesAt DEF Idle
  <2>2. Rank(At("check1", 0)) \in Int
    BY RankIsInt, <1>5
  <2>3. b.do = "send" /\ q2 = Cons(b, q3)
    BY <1>2, <1>4
  <2>4. QED  BY <1>5, <1>7, <2>1, <2>2, <2>3, ClientSends
<1>9. ClientRoute(asks, At("connect", 0), P, At("check1", 0), Rank(At("check1", 0)))
  <2>1. Moves(asks, At("connect", 0), a, At("check1", 0))
    BY <1>2, AtFields DEF Moves, Connected
  <2>2. Rank(At("check1", 0)) \in Int
    BY RankIsInt, <1>5
  <2>3. a.do = "send" /\ P = Cons(a, q2)
    BY <1>2, <1>4
  <2>4. QED  BY <1>5, <1>8, <2>1, <2>2, <2>3, ClientSends
<1>10. Rank(At("check1", 0)) \in Int
  BY RankIsInt, <1>5
<1>11. QED  BY <1>1, <1>9, <1>10

LEMMA BandwidthCheckRoute ==
    ASSUME NEW asks
    PROVE  \E b \in Int : ClientRoute(asks, At("check1", 0), BandwidthCheck, At("checked", 0), b)
<1> DEFINE a == Expect("startPlay")
           b == Send("startingPlay")
           c == Expect("stopPlay")
           d == Send("stoppedPlay")
           e == Expect("startPublish")
           f == Send("startingPublish")
           g == Step("publishing")
           h == Send("stopPublish")
           i == Expect("stopPublish")
           j == Send("stoppedPublish")
           k == Expect("finished")
           l == Send("final")
           P == <<a, b, c, d, e, f, g, h, i, j, k, l>>
<1>1. BandwidthCheck = P
  BY DEF BandwidthCheck
<1>2. /\ Awaits(a) /\ a.packet = "startPlay"
      /\ b.do = "send" /\ b.command = "startingPlay"
      /\ Awaits(c) /\ c.packet = "stopPlay"
      /\ d.do = "send" /\ d.command = "stoppedPlay"
      /\ Awaits(e) /\ e.packet = "startPublish"
      /\ f.do = "send" /\ f.command = "startingPublish"
      /\ g.do = "publishing"
      /\ h.do = "send" /\ h.command = "stopPublish"
      /\ Awaits(i) /\ i.packet = "stopPublish"
      /\ j.do = "send" /\ j.command = "stoppedPublish"
      /\ Awaits(k) /\ k.packet = "finished"
      /\ l.do = "send" /\ l.command = "final"
  BY DEF Send, Request, Expect, Read, Step, Awaits
<1> HIDE DEF a, b, c, d, e, f, g, h, i, j, k, l
<1>3. ASeq(P) /\ Len(P) = 12 /\ P[1] = a /\ P[2] = b /\ P[3] = c /\ P[4] = d /\ P[5] = e /\ P[6] = f /\ P[7] = g /\ P[8] = h /\ P[9] = i /\ P[10] = j /\ P[11] = k /\ P[12] = l
  BY DEF ASeq
<1> DEFINE q2 == Rest(P, 2)
           q3 == Rest(P, 3)
           q4 == Rest(P, 4)
           q5 == Rest(P, 5)
           q6 == Rest(P, 6)
           q7 == Rest(P, 7)
           q8 == Rest(P, 8)
           q9 == Rest(P, 9)
           q10 == Rest(P, 10)
           q11 == Rest(P, 11)
           q12 == Rest(P, 12)
           q13 == Rest(P, 13)
<1> HIDE DEF P
<1>4. /\ P = Cons(a, q2)
      /\ q2 = Cons(b, q3)
      /\ q3 = Cons(c, q4)
      /\ q4 = Cons(d, q5)
      /\ q5 = Cons(e, q6)
      /\ q6 = Cons(f, q7)
      /\ q7 = Cons(g, q8)
      /\ q8 = Cons(h, q9)
      /\ q9 = Cons(i, q10)
      /\ q10 = Cons(j, q11)
      /\ q11 = Cons(k, q12)
      /\ q12 = Cons(l, q13)
      /\ q13 = << >>
  <2>1. \A x \in 1..12 : Rest(P, x) = Cons(P[x], Rest(P, x + 1))
    BY <1>3, RestCons
  <2>2. Rest(P, 1) = P /\ Rest(P, 12 + 1) = << >>
    BY <1>3, RestAll
  <2>3. P = Cons(P[1], q2) /\ q2 = Cons(P[2], q3) /\ q3 = Cons(P[3], q4) /\ q4 = Cons(P[4], q5)
    BY <2>1, <2>2
  <2>4. q5 = Cons(P[5], q6) /\ q6 = Cons(P[6], q7) /\ q7 = Cons(P[7], q8) /\ q8 = Cons(P[8], q9)
    BY <2>1, <2>2
  <2>5. q9 = Cons(P[9], q10) /\ q10 = Cons(P[10], q11) /\ q11 = Cons(P[11], q12) /\ q12 = Cons(P[12], q13)
    BY <2>1, <2>2
  <2>6. QED  BY <1>3, <2>2, <2>3, <2>4, <2>5
<1> HIDE DEF q2, q3, q4, q5, q6, q7, q8, q9, q10, q11, q12, q13
<1>5. At("check1", 0) \in Views /\ At("check2", 0) \in Views /\ At("check3", 0) \in Views /\ At("check4", 0) \in Views /\ At("check5", 0) \in Views /\ At("checked", 0) \in Views
  BY AtViews DEF Places
<1>6. ClientRoute(asks, At("checked", 0), q13, At("checked", 0), 6)
  BY <1>4, <1>5, ClientNowhere
<1>7. ClientRoute(asks, At("check5", 0), q12, At("checked", 0), 6)
  <2>1. Moves(asks, At("check5", 0), l, At("checked", 0))
    BY <1>2, MovesAt DEF Ways
  <2>2. 6 \in Int
    BY RankIsInt, <1>5
  <2>3. l.do = "send" /\ q12 = Cons(l, q13)
    BY <1>2, <1>4
  <2>4. QED  BY <1>5, <1>6, <2>1, <2>2, <2>3, ClientSends
<1>8. ClientRoute(asks, At("check5", 0), q11, At("checked", 0), Rank(At("check5", 0)))
  <2>1. <<At("check5", 0).at, k.packet>> \in Expected
    BY <1>2, AtFields DEF Expected
  <2>2. 6 \in Int
    BY RankIsInt, <1>5
  <2>5. Rank(At("check5", 0)) < 6
    BY RankAt
  <2>3. Awaits(k) /\ q11 = Cons(k, q12)
    BY <1>2, <1>4
  <2>4. QED  BY <1>5, <1>7, <2>1, <2>2, <2>3, <2>5, ClientWaits
<1>9. ClientRoute(asks, At("check4", 0), q10, At("checked", 0), Rank(At("check5", 0)))
  <2>1. Moves(asks, At("check4", 0), j, At("check5", 0))
    BY <1>2, MovesAt DEF Ways
  <2>2. Rank(At("check5", 0)) \in Int
    BY RankIsInt, <1>5
  <2>3. j.do = "send" /\ q10 = Cons(j, q11)
    BY <1>2, <1>4
  <2>4. QED  BY <1>5, <1>8, <2>1, <2>2, <2>3, ClientSends
<1>10. ClientRoute(asks, At("check4", 0), q9, At("checked", 0), Rank(At("check4", 0)))
  <2>1. <<At("check4", 0).at, i.packet>> \in Expected
    BY <1>2, AtFields DEF Expected
  <2>2. Rank(At("check5", 0)) \in Int
    BY RankIsInt, <1>5
  <2>5. Rank(At("check4", 0)) < Rank(At("check5", 0))
    BY RankAt
  <2>3. Awaits(i) /\ q9 = Cons(i, q10)
    BY <1>2, <1>4
  <2>4. QED  BY <1>5, <1>9, <2>1, <2>2, <2>3, <2>5, ClientWaits
<1>11. ClientRoute(asks, At("check4", 0), q8, At("checked", 0), Rank(At("check4", 0)))
  <2>1. Moves(asks, At("check4", 0), h, At("check4", 0))
    BY <1>2, MovesAt DEF Idle
  <2>2. Rank(At("check4", 0)) \in Int
    BY RankIsInt, <1>5
  <2>3. h.do = "send" /\ q8 = Cons(h, q9)
    BY <1>2, <1>4
  <2>4. QED  BY <1>5, <1>10, <2>1, <2>2, <2>3, ClientSends
<1>12. ClientRoute(asks, At("check4", 0), q7, At("checked", 0), Rank(At("check4", 0)))
  <2>1. Goes(asks, At("check4", 0), g, At("check4", 0)) /\ ~Awaits(g)
    BY <1>2, AtFields DEF Goes, Awaits
  <2>2. Rank(At("check4", 0)) \in Int /\ Rank(At("check4", 0)) <= Rank(At("check4", 0)) /\ Rank(At("check4", 0)) \in Int /\ Rank(At("check4", 0)) <= Rank(At("check4", 0))
    BY RankIsInt, <1>5
  <2>3. q7 = Cons(g, q8)
    BY <1>4
  <2>4. QED  BY <1>5, <1>11, <2>1, <2>2, <2>3, ClientCons
<1>13. ClientRoute(asks, At("check3", 0), q6, At("checked", 0), Rank(At("check4", 0)))
  <2>1. Moves(asks, At("check3", 0), f, At("check4", 0))
    BY <1>2, MovesAt DEF Ways
  <2>2. Rank(At("check4", 0)) \in Int
    BY RankIsInt, <1>5
  <2>3. f.do = "send" /\ q6 = Cons(f, q7)
    BY <1>2, <1>4
  <2>4. QED  BY <1>5, <1>12, <2>1, <2>2, <2>3, ClientSends
<1>14. ClientRoute(asks, At("check3", 0), q5, At("checked", 0), Rank(At("check3", 0)))
  <2>1. <<At("check3", 0).at, e.packet>> \in Expected
    BY <1>2, AtFields DEF Expected
  <2>2. Rank(At("check4", 0)) \in Int
    BY RankIsInt, <1>5
  <2>5. Rank(At("check3", 0)) < Rank(At("check4", 0))
    BY RankAt
  <2>3. Awaits(e) /\ q5 = Cons(e, q6)
    BY <1>2, <1>4
  <2>4. QED  BY <1>5, <1>13, <2>1, <2>2, <2>3, <2>5, ClientWaits
<1>15. ClientRoute(asks, At("check2", 0), q4, At("checked", 0), Rank(At("check3", 0)))
  <2>1. Moves(asks, At("check2", 0), d, At("check3", 0))
    BY <1>2, MovesAt DEF Ways
  <2>2. Rank(At("check3", 0)) \in Int
    BY RankIsInt, <1>5
  <2>3. d.do = "send" /\ q4 = Cons(d, q5)
    BY <1>2, <1>4
  <2>4. QED  BY <1>5, <1>14, <2>1, <2>2, <2>3, ClientSends
<1>16. ClientRoute(asks, At("check2", 0), q3, At("checked", 0), Rank(At("check2", 0)))
  <2>1. <<At("check2", 0).at, c.packet>> \in Expected
    BY <1>2, AtFields DEF Expected
  <2>2. Rank(At("check3", 0)) \in Int
    BY RankIsInt, <1>5
  <2>5. Rank(At("check2", 0)) < Rank(At("check3", 0))
    BY RankAt
  <2>3. Awaits(c) /\ q3 = Cons(c, q4)
    BY <1>2, <1>4
  <2>4. QED  BY <1>5, <1>15, <2>1, <2>2, <2>3, <2>5, ClientWaits
<1>17. ClientRoute(asks, At("check1", 0), q2, At("checked", 0), Rank(At("check2", 0)))
  <2>1. Moves(asks, At("check1", 0), b, At("check2", 0))
    BY <1>2, MovesAt DEF Ways
  <2>2. Rank(At("check2", 0)) \in Int
    BY RankIsInt, <1>5
  <2>3. b.do = "send" /\ q2 = Cons(b, q3)
    BY <1>2, <1>4
  <2>4. QED  BY <1>5, <1>16, <2>1, <2>2, <2>3, ClientSends
<1>18. ClientRoute(asks, At("check1", 0), P, At("checked", 0), Rank(At("check1", 0)))
  <2>1. <<At("check1", 0).at, a.packet>> \in Expected
    BY <1>2, AtFields DEF Expected
  <2>2. Rank(At("check2", 0)) \in Int
    BY RankIsInt, <1>5
  <2>5. Rank(At("check1", 0)) < Rank(At("check2", 0))
    BY RankAt
  <2>3. Awaits(a) /\ P = Cons(a, q2)
    BY <1>2, <1>4
  <2>4. QED  BY <1>5, <1>17, <2>1, <2>2, <2>3, <2>5, ClientWaits
<1>19. Rank(At("check1", 0)) \in Int
  BY RankIsInt, <1>5
<1>20. QED  BY <1>1, <1>18, <1>19

LEMMA AskToPlayRoute ==
    ASSUME NEW asks, NEW n \in Nat, NEW name, Asked(asks, n + 1, "play", name)
    PROVE  \E b \in Int : ClientRoute(asks, At("identify", n), CreateStream \o Play(name), At("media", n + 1), b)
<1> DEFINE a == Request("createStream", 2, "")
           b == Expect("CreateStreamRes")
           c == Request("play", 0, name)
           d == Send("UserControl")
           e == Send("SetChunkSize")
           P == <<a, b, c, d, e>>
           A == <<a, b>>
           B == <<c, d, e>>
<1>1. CreateStream \o Play(name) = A \o B
  BY DEF CreateStream, Play
<1>2. /\ a.do = "send" /\ a.command = "createStream"
      /\ Awaits(b) /\ b.packet = "CreateStreamRes"
      /\ c.do = "send" /\ c.command = "play" /\ c.name = name
      /\ d.do = "send" /\ d.command = "UserControl"
      /\ e.do = "send" /\ e.command = "SetChunkSize"
  BY DEF Send, Request, Expect, Read, Step, Awaits
<1> HIDE DEF a, b, c, d, e
<1>3. ASeq(P) /\ Len(P) = 5 /\ P[1] = a /\ P[2] = b /\ P[3] = c /\ P[4] = d /\ P[5] = e
  BY DEF ASeq
<1>4. A \o B = P
  <2>1. ASeq(A) /\ ASeq(B)
    BY DEF ASeq
  <2>2. IsJoined(A, B, P)
    BY <1>3, <2>1 DEF IsJoined
  <2> HIDE DEF A, B, P
  <2>3. QED  BY <2>2, Joins
<1> DEFINE q2 == Rest(P, 2)
           q3 == Rest(P, 3)
           q4 == Rest(P, 4)
           q5 == Rest(P, 5)
           q6 == Rest(P, 6)
<1> HIDE DEF P, A, B
<1>5. /\ P = Cons(a, q2)
      /\ q2 = Cons(b, q3)
      /\ q3 = Cons(c, q4)
      /\ q4 = Cons(d, q5)
      /\ q5 = Cons(e, q6)
      /\ q6 = << >>
  <2>1. \A x \in 1..5 : Rest(P, x) = Cons(P[x], Rest(P, x + 1))
    BY <1>3, RestCons
  <2>2. Rest(P, 1) = P /\ Rest(P, 5 + 1) = << >>
    BY <1>3, RestAll
  <2>3. P = Cons(P[1], q2) /\ q2 = Cons(P[2], q3) /\ q3 = Cons(P[3], q4) /\ q4 = Cons(P[4], q5)
    BY <2>1, <2>2
  <2>4. q5 = Cons(P[5], q6)
    BY <2>1, <2>2
  <2>5. QED  BY <1>3, <2>2, <2>3, <2>4
<1> HIDE DEF q2, q3, q4, q5, q6
<1>6. At("identify", n) \in Views /\ At("level1", n) \in Views /\ At("media", n + 1) \in Views
  BY AtViews DEF Places
<1>7. ClientRoute(asks, At("media", n + 1), q6, At("media", n + 1), 10 * n + 6)
  BY <1>5, <1>6, ClientNowhere
<1>8. ClientRoute(asks, At("media", n + 1), q5, At("media", n + 1), 10 * n + 6)
  <2>1. Moves(asks, At("media", n + 1), e, At("media", n + 1))
    BY <1>2, MovesAt DEF Idle
  <2>2. 10 * n + 6 \in Int
    BY RankIsInt, <1>6
  <2>3. e.do = "send" /\ q5 = Cons(e, q6)
    BY <1>2, <1>5
  <2>4. QED  BY <1>6, <1>7, <2>1, <2>2, <2>3, ClientSends
<1>9. ClientRoute(asks, At("media", n + 1), q4, At("media", n + 1), 10 * n + 6)
  <2>1. Moves(asks, At("media", n + 1), d, At("media", n + 1))
    BY <1>2, MovesAt DEF Idle
  <2>2. 10 * n + 6 \in Int
    BY RankIsInt, <1>6
  <2>3. d.do = "send" /\ q4 = Cons(d, q5)
    BY <1>2, <1>5
  <2>4. QED  BY <1>6, <1>8, <2>1, <2>2, <2>3, ClientSends
<1>10. ClientRoute(asks, At("level1", n), q3, At("media", n + 1), 10 * n + 6)
  <2>1. Moves(asks, At("level1", n), c, At("media", n + 1))
    BY <1>2, AtFields DEF Moves
  <2>2. 10 * n + 6 \in Int
    BY RankIsInt, <1>6
  <2>3. c.do = "send" /\ q3 = Cons(c, q4)
    BY <1>2, <1>5
  <2>4. QED  BY <1>6, <1>9, <2>1, <2>2, <2>3, ClientSends
<1>11. ClientRoute(asks, At("level1", n), q2, At("media", n + 1), Rank(At("level1", n)))
  <2>1. <<At("level1", n).at, b.packet>> \in Expected
    BY <1>2, AtFields DEF Expected
  <2>2. 10 * n + 6 \in Int
    BY RankIsInt, <1>6
  <2>5. Rank(At("level1", n)) < 10 * n + 6
    BY RankAt
  <2>3. Awaits(b) /\ q2 = Cons(b, q3)
    BY <1>2, <1>5
  <2>4. QED  BY <1>6, <1>10, <2>1, <2>2, <2>3, <2>5, ClientWaits
<1>12. ClientRoute(asks, At("identify", n), P, At("media", n + 1), Rank(At("level1", n)))
  <2>1. Moves(asks, At("identify", n), a, At("level1", n))
    BY <1>2, MovesAt DEF Ways
  <2>2. Rank(At("level1", n)) \in Int
    BY RankIsInt, <1>6
  <2>3. a.do = "send" /\ P = Cons(a, q2)
    BY <1>2, <1>5
  <2>4. QED  BY <1>6, <1>11, <2>1, <2>2, <2>3, ClientSends
<1>13. Rank(At("level1", n)) \in Int
  BY RankIsInt, <1>6
<1>14. QED  BY <1>1, <1>4, <1>12, <1>13

LEMMA AskToPublishRoute ==
    ASSUME NEW asks, NEW n \in Nat, NEW name, Asked(asks, n + 1, "flash", name)
    PROVE  \E b \in Int : ClientRoute(asks, At("identify", n), CreateStream \o Publish(name), At("media", n + 1), b)
<1> DEFINE a == Request("createStream", 2, "")
           b == Expect("CreateStreamRes")
           c == Send("SetChunkSize")
           d == Request("publish", 0, name)
           P == <<a, b, c, d>>
           A == <<a, b>>
           B == <<c, d>>
<1>1. CreateStream \o Publish(name) = A \o B
  BY DEF CreateStream, Publish
<1>2. /\ a.do = "send" /\ a.command = "createStream"
      /\ Awaits(b) /\ b.packet = "CreateStreamRes"
      /\ c.do = "send" /\ c.command = "SetChunkSize"
      /\ d.do = "send" /\ d.command = "publish" /\ d.name = name
  BY DEF Send, Request, Expect, Read, Step, Awaits
<1> HIDE DEF a, b, c, d
<1>3. ASeq(P) /\ Len(P) = 4 /\ P[1] = a /\ P[2] = b /\ P[3] = c /\ P[4] = d
  BY DEF ASeq
<1>4. A \o B = P
  <2>1. ASeq(A) /\ ASeq(B)
    BY DEF ASeq
  <2>2. IsJoined(A, B, P)
    BY <1>3, <2>1 DEF IsJoined
  <2> HIDE DEF A, B, P
  <2>3. QED  BY <2>2, Joins
<1> DEFINE q2 == Rest(P, 2)
           q3 == Rest(P, 3)
           q4 == Rest(P, 4)
           q5 == Rest(P, 5)
<1> HIDE DEF P, A, B
<1>5. /\ P = Cons(a, q2)
      /\ q2 = Cons(b, q3)
      /\ q3 = Cons(c, q4)
      /\ q4 = Cons(d, q5)
      /\ q5 = << >>
  <2>1. \A x \in 1..4 : Rest(P, x) = Cons(P[x], Rest(P, x + 1))
    BY <1>3, RestCons
  <2>2. Rest(P, 1) = P /\ Rest(P, 4 + 1) = << >>
    BY <1>3, RestAll
  <2>3. P = Cons(P[1], q2) /\ q2 = Cons(P[2], q3) /\ q3 = Cons(P[3], q4) /\ q4 = Cons(P[4], q5)
    BY <2>1, <2>2
  <2>4. QED  BY <1>3, <2>2, <2>3
<1> HIDE DEF q2, q3, q4, q5
<1>6. At("identify", n) \in Views /\ At("level1", n) \in Views /\ At("media", n + 1) \in Views
  BY AtViews DEF Places
<1>7. ClientRoute(asks, At("media", n + 1), q5, At("media", n + 1), 10 * n + 6)
  BY <1>5, <1>6, ClientNowhere
<1>8. ClientRoute(asks, At("level1", n), q4, At("media", n + 1), 10 * n + 6)
  <2>1. Moves(asks, At("level1", n), d, At("media", n + 1))
    BY <1>2, AtFields DEF Moves
  <2>2. 10 * n + 6 \in Int
    BY RankIsInt, <1>6
  <2>3. d.do = "send" /\ q4 = Cons(d, q5)
    BY <1>2, <1>5
  <2>4. QED  BY <1>6, <1>7, <2>1, <2>2, <2>3, ClientSends
<1>9. ClientRoute(asks, At("level1", n), q3, At("media", n + 1), 10 * n + 6)
  <2>1. Moves(asks, At("level1", n), c, At("level1", n))
    BY <1>2, MovesAt DEF Idle
  <2>2. 10 * n + 6 \in Int
    BY RankIsInt, <1>6
  <2>3. c.do = "send" /\ q3 = Cons(c, q4)
    BY <1>2, <1>5
  <2>4. QED  BY <1>6, <1>8, <2>1, <2>2, <2>3, ClientSends
<1>10. ClientRoute(asks, At("level1", n), q2, At("media", n + 1), Rank(At("level1", n)))
  <2>1. <<At("level1", n).at, b.packet>> \in Expected
    BY <1>2, AtFields DEF Expected
  <2>2. 10 * n + 6 \in Int
    BY RankIsInt, <1>6
  <2>5. Rank(At("level1", n)) < 10 * n + 6
    BY RankAt
  <2>3. Awaits(b) /\ q2 = Cons(b, q3)
    BY <1>2, <1>5
  <2>4. QED  BY <1>6, <1>9, <2>1, <2>2, <2>3, <2>5, ClientWaits
<1>11. ClientRoute(asks, At("identify", n), P, At("media", n + 1), Rank(At("level1", n)))
  <2>1. Moves(asks, At("identify", n), a, At("level1", n))
    BY <1>2, MovesAt DEF Ways
  <2>2. Rank(At("level1", n)) \in Int
    BY RankIsInt, <1>6
  <2>3. a.do = "send" /\ P = Cons(a, q2)
    BY <1>2, <1>5
  <2>4. QED  BY <1>6, <1>10, <2>1, <2>2, <2>3, ClientSends
<1>12. Rank(At("level1", n)) \in Int
  BY RankIsInt, <1>6
<1>13. QED  BY <1>1, <1>4, <1>11, <1>12

LEMMA AskToFmlePublishRoute ==
    ASSUME NEW asks, NEW n \in Nat, NEW name, Asked(asks, n + 1, "fmle", name)
    PROVE  \E b \in Int : ClientRoute(asks, At("identify", n), FmlePublish(name), At("media", n + 1), b)
<1> DEFINE a == Request("releaseStream", 2, name)
           b == Request("FCPublish", 3, name)
           c == Request("createStream", 4, "")
           d == Expect("CreateStreamRes")
           e == Request("publish", 0, name)
           P == <<a, b, c, d, e>>
<1>1. FmlePublish(name) = P
  BY DEF FmlePublish
<1>2. /\ a.do = "send" /\ a.command = "releaseStream" /\ a.name = name
      /\ b.do = "send" /\ b.command = "FCPublish"
      /\ c.do = "send" /\ c.command = "createStream"
      /\ Awaits(d) /\ d.packet = "CreateStreamRes"
      /\ e.do = "send" /\ e.command = "publish" /\ e.name = name
  BY DEF Send, Request, Expect, Read, Step, Awaits
<1> HIDE DEF a, b, c, d, e
<1>3. ASeq(P) /\ Len(P) = 5 /\ P[1] = a /\ P[2] = b /\ P[3] = c /\ P[4] = d /\ P[5] = e
  BY DEF ASeq
<1> DEFINE q2 == Rest(P, 2)
           q3 == Rest(P, 3)
           q4 == Rest(P, 4)
           q5 == Rest(P, 5)
           q6 == Rest(P, 6)
<1> HIDE DEF P
<1>4. /\ P = Cons(a, q2)
      /\ q2 = Cons(b, q3)
      /\ q3 = Cons(c, q4)
      /\ q4 = Cons(d, q5)
      /\ q5 = Cons(e, q6)
      /\ q6 = << >>
  <2>1. \A x \in 1..5 : Rest(P, x) = Cons(P[x], Rest(P, x + 1))
    BY <1>3, RestCons
  <2>2. Rest(P, 1) = P /\ Rest(P, 5 + 1) = << >>
    BY <1>3, RestAll
  <2>3. P = Cons(P[1], q2) /\ q2 = Cons(P[2], q3) /\ q3 = Cons(P[3], q4) /\ q4 = Cons(P[4], q5)
    BY <2>1, <2>2
  <2>4. q5 = Cons(P[5], q6)
    BY <2>1, <2>2
  <2>5. QED  BY <1>3, <2>2, <2>3, <2>4
<1> HIDE DEF q2, q3, q4, q5, q6
<1>5. At("identify", n) \in Views /\ At("fc", n) \in Views /\ At("create", n) \in Views /\ At("publish", n) \in Views /\ At("media", n + 1) \in Views
  BY AtViews DEF Places
<1>6. ClientRoute(asks, At("media", n + 1), q6, At("media", n + 1), 10 * n + 6)
  BY <1>4, <1>5, ClientNowhere
<1>7. ClientRoute(asks, At("publish", n), q5, At("media", n + 1), 10 * n + 6)
  <2>1. Moves(asks, At("publish", n), e, At("media", n + 1))
    BY <1>2, AtFields DEF Moves
  <2>2. 10 * n + 6 \in Int
    BY RankIsInt, <1>5
  <2>3. e.do = "send" /\ q5 = Cons(e, q6)
    BY <1>2, <1>4
  <2>4. QED  BY <1>5, <1>6, <2>1, <2>2, <2>3, ClientSends
<1>8. ClientRoute(asks, At("publish", n), q4, At("media", n + 1), Rank(At("publish", n)))
  <2>1. <<At("publish", n).at, d.packet>> \in Expected
    BY <1>2, AtFields DEF Expected
  <2>2. 10 * n + 6 \in Int
    BY RankIsInt, <1>5
  <2>5. Rank(At("publish", n)) < 10 * n + 6
    BY RankAt
  <2>3. Awaits(d) /\ q4 = Cons(d, q5)
    BY <1>2, <1>4
  <2>4. QED  BY <1>5, <1>7, <2>1, <2>2, <2>3, <2>5, ClientWaits
<1>9. ClientRoute(asks, At("create", n), q3, At("media", n + 1), Rank(At("publish", n)))
  <2>1. Moves(asks, At("create", n), c, At("publish", n))
    BY <1>2, MovesAt DEF Ways
  <2>2. Rank(At("publish", n)) \in Int
    BY RankIsInt, <1>5
  <2>3. c.do = "send" /\ q3 = Cons(c, q4)
    BY <1>2, <1>4
  <2>4. QED  BY <1>5, <1>8, <2>1, <2>2, <2>3, ClientSends
<1>10. ClientRoute(asks, At("fc", n), q2, At("media", n + 1), Rank(At("publish", n)))
  <2>1. Moves(asks, At("fc", n), b, At("create", n))
    BY <1>2, MovesAt DEF Ways
  <2>2. Rank(At("publish", n)) \in Int
    BY RankIsInt, <1>5
  <2>3. b.do = "send" /\ q2 = Cons(b, q3)
    BY <1>2, <1>4
  <2>4. QED  BY <1>5, <1>9, <2>1, <2>2, <2>3, ClientSends
<1>11. ClientRoute(asks, At("identify", n), P, At("media", n + 1), Rank(At("publish", n)))
  <2>1. Moves(asks, At("identify", n), a, At("fc", n))
    BY <1>2, AtFields DEF Moves
  <2>2. Rank(At("publish", n)) \in Int
    BY RankIsInt, <1>5
  <2>3. a.do = "send" /\ P = Cons(a, q2)
    BY <1>2, <1>4
  <2>4. QED  BY <1>5, <1>10, <2>1, <2>2, <2>3, ClientSends
<1>12. Rank(At("publish", n)) \in Int
  BY RankIsInt, <1>5
<1>13. QED  BY <1>1, <1>11, <1>12

LEMMA UserCallRoute ==
    ASSUME NEW asks, NEW n \in Nat
    PROVE  \E b \in Int : ClientRoute(asks, At("identify", n), <<Request("call", 9, "")>>, At("identify", n), b)
<1> DEFINE a == Request("call", 9, "")
           P == <<a>>
<1>1. <<Request("call", 9, "")>> = P
  BY DEF Request
<1>2. /\ a.do = "send" /\ a.command = "call"
  BY DEF Send, Request, Expect, Read, Step, Awaits
<1> HIDE DEF a
<1>3. ASeq(P) /\ Len(P) = 1 /\ P[1] = a
  BY DEF ASeq
<1> DEFINE q2 == Rest(P, 2)
<1> HIDE DEF P
<1>4. /\ P = Cons(a, q2)
      /\ q2 = << >>
  <2>1. \A x \in 1..1 : Rest(P, x) = Cons(P[x], Rest(P, x + 1))
    BY <1>3, RestCons
  <2>2. Rest(P, 1) = P /\ Rest(P, 1 + 1) = << >>
    BY <1>3, RestAll
  <2>3. P = Cons(P[1], q2)
    BY <2>1, <2>2
  <2>4. QED  BY <1>3, <2>2, <2>3
<1> HIDE DEF q2
<1>5. At("identify", n) \in Views
  BY AtViews DEF Places
<1>6. ClientRoute(asks, At("identify", n), q2, At("identify", n), 10 * n + 6)
  BY <1>4, <1>5, ClientNowhere
<1>7. ClientRoute(asks, At("identify", n), P, At("identify", n), 10 * n + 6)
  <2>1. Moves(asks, At("identify", n), a, At("identify", n))
    BY <1>2, MovesAt DEF Idle
  <2>2. 10 * n + 6 \in Int
    BY RankIsInt, <1>5
  <2>3. a.do = "send" /\ P = Cons(a, q2)
    BY <1>2, <1>4
  <2>4. QED  BY <1>5, <1>6, <2>1, <2>2, <2>3, ClientSends
<1>8. 10 * n + 6 \in Int
  BY RankIsInt, <1>5
<1>9. QED  BY <1>1, <1>7, <1>8

LEMMA AskToUnpublishRoute ==
    ASSUME NEW asks, NEW n \in Nat
    PROVE  \E b \in Int : ClientRoute(asks, At("media", n), <<Request("FCUnpublish", UnpublishTid, "")>>, At("identify", n), b)
<1> DEFINE a == Request("FCUnpublish", UnpublishTid, "")
           P == <<a>>
<1>1. <<Request("FCUnpublish", UnpublishTid, "")>> = P
  BY DEF Request
<1>2. /\ a.do = "send" /\ a.command = "FCUnpublish"
  BY DEF Send, Request, Expect, Read, Step, Awaits
<1> HIDE DEF a
<1>3. ASeq(P) /\ Len(P) = 1 /\ P[1] = a
  BY DEF ASeq
<1> DEFINE q2 == Rest(P, 2)
<1> HIDE DEF P
<1>4. /\ P = Cons(a, q2)
      /\ q2 = << >>
  <2>1. \A x \in 1..1 : Rest(P, x) = Cons(P[x], Rest(P, x + 1))
    BY <1>3, RestCons
  <2>2. Rest(P, 1) = P /\ Rest(P, 1 + 1) = << >>
    BY <1>3, RestAll
  <2>3. P = Cons(P[1], q2)
    BY <2>1, <2>2
  <2>4. QED  BY <1>3, <2>2, <2>3
<1> HIDE DEF q2
<1>5. At("media", n) \in Views /\ At("identify", n) \in Views
  BY AtViews DEF Places
<1>6. ClientRoute(asks, At("identify", n), q2, At("identify", n), 10 * n + 6)
  BY <1>4, <1>5, ClientNowhere
<1>7. ClientRoute(asks, At("media", n), P, At("identify", n), 10 * n + 6)
  <2>1. Moves(asks, At("media", n), a, At("identify", n))
    BY <1>2, MovesAt DEF Ways
  <2>2. 10 * n + 6 \in Int
    BY RankIsInt, <1>5
  <2>3. a.do = "send" /\ P = Cons(a, q2)
    BY <1>2, <1>4
  <2>4. QED  BY <1>5, <1>6, <2>1, <2>2, <2>3, ClientSends
<1>8. 10 * n + 6 \in Int
  BY RankIsInt, <1>5
<1>9. QED  BY <1>1, <1>7, <1>8

------------------------------------------------------------------------------
(***************************************************************************)
(* What was asked before stays asked.                                      *)
(***************************************************************************)
LEMMA AskedMore ==
    ASSUME NEW asks, ASeq(asks), NEW kind, NEW name
    PROVE  LET more == Append(asks, [kind |-> kind, name |-> name])
           IN  /\ ASeq(more) /\ Len(asks) \in Nat /\ Len(more) = Len(asks) + 1
               /\ Asked(more, Len(asks) + 1, kind, name)
               /\ \A n, k, s : Asked(asks, n, k, s) => Asked(more, n, k, s)
<1> DEFINE x == [kind |-> kind, name |-> name]
           more == Append(asks, x)
<1>1. /\ ASeq(more) /\ Len(more) = Len(asks) + 1 /\ Len(asks) \in Nat
      /\ \A k \in 1..Len(asks) : more[k] = asks[k]
      /\ more[Len(asks) + 1] = x
  BY AppendASeq DEF ASeq
<1> HIDE DEF more
<1>2. Asked(more, Len(asks) + 1, kind, name)
  BY <1>1 DEF Asked
<1>3. ASSUME NEW n, NEW k, NEW s, Asked(asks, n, k, s) PROVE Asked(more, n, k, s)
  BY <1>1, <1>3 DEF Asked
<1>4. QED  BY <1>1, <1>2, <1>3 DEF more

Keeps(asks, more) == \A n, k, s : Asked(asks, n, k, s) => Asked(more, n, k, s)

LEMMA MovesMore ==
    ASSUME NEW asks, NEW more, Keeps(asks, more), NEW v, NEW m, NEW w, Moves(asks, v, m, w)
    PROVE  Moves(more, v, m, w)
BY DEF Moves, Keeps

LEMMA TakesMore ==
    ASSUME NEW asks, NEW more, Keeps(asks, more), NEW n, NEW v, NEW step, NEW w,
           Takes(asks, n, v, step, w)
    PROVE  Takes(more, n, v, step, w)
BY DEF Takes, Keeps

LEMMA WirePathMore ==
    ASSUME NEW asks, NEW more, Keeps(asks, more), NEW v, NEW messages, WirePath(asks, v, messages)
    PROVE  WirePath(more, v, messages)
BY MovesMore DEF WirePath

LEMMA ServerPathMore ==
    ASSUME NEW asks, NEW more, Keeps(asks, more), NEW n, NEW r, NEW p, ServerPath(asks, n, r, p)
    PROVE  ServerPath(more, n, r, p)
<1>1. \A k \in 1..Len(p) : Takes(more, n, r[k], p[k], r[k + 1])
  BY TakesMore DEF ServerPath
<1>2. QED  BY <1>1 DEF ServerPath

\* Nothing changes for the client's calls but what is left of them.
LEMMA HomeStays ==
    ASSUME phase' = phase, asked' = asked
    PROVE  Home' = Home
BY DEF Home

LEMMA InitJourney == Init => JourneyInv
<1> SUFFICES ASSUME Init PROVE JourneyInv
  OBVIOUS
<1> DEFINE home == At("c0c1", 0)
           P == ServerHandshake \o <<Expect("ConnectApp"), Step("decide")>>
<1>1. home \in Views
  BY AtFields DEF Places
<1>2. /\ plan["server"] = P /\ plan["client"] = << >> /\ wire["server"] = << >> /\ asked = << >>
      /\ served = << >> /\ phase = "new" /\ \A e \in Endpoints : status[e] = "open"
  BY DEF Init, Endpoints
<1>3. Tables
  BY DEF Init, Tables
<1>4. History /\ FailedStops
  BY <1>2, EmptyASeq DEF History, Phases, FailedStops
<1>5. Len(asked) = 0 /\ Len(served) = 0
  BY <1>2, EmptyASeq
<1>6. PICK r : ServerPath(asked, 0, r, P) /\ r[1] = home
  BY HandshakeRoute DEF Route
<1>7. P[1].do = "read"
  <2> DEFINE q == <<Expect("ConnectApp"), Step("decide")>>
  <2>1. ASeq(ServerHandshake) /\ Len(ServerHandshake) = 3 /\ ServerHandshake[1] = Read("c0c1")
    BY DEF ASeq, ServerHandshake
  <2>2. ASeq(q)
    BY DEF ASeq
  <2> HIDE DEF q
  <2>3. 1 \in 1..Len(ServerHandshake) /\ (ServerHandshake \o q)[1] = Read("c0c1")
    BY <2>1, <2>2, ConcatASeq
  <2>4. Read("c0c1").do = "read"
    BY DEF Read
  <2>5. QED  BY <2>3, <2>4 DEF q
<1> DEFINE t == <<home>>
<1>8. Path(t, 0) /\ t[1] = home /\ Len(t) = 1
  BY <1>1, OnePath
<1> HIDE DEF home, t, P
<1>9. ServerSide(r, t)
  <2>1. Received(r, P, received["server"])
    BY <1>7 DEF Received
  <2>2. WirePath(asked, t, << >>)
    BY <1>8, EmptyASeq DEF WirePath
  <2>3. QED  BY <1>2, <1>5, <1>6, <1>8, <2>1, <2>2 DEF ServerSide
<1>10. ClientSide(t, t)
  <2>1. ClientPath(asked, t, << >>)
    <3>1. \A j, k \in 1..Len(t) : ~(j < k)
      BY <1>8
    <3>2. QED  BY <1>8, <3>1, EmptyASeq DEF ClientPath
  <2>2. Home = home
    BY <1>2 DEF Home, home
  <2>3. \A k \in 1..Len(t) : Rank(t[k]) <= Rank(t[1])
    <3>1. Rank(home) \in Int
      BY <1>1, RankIsInt
    <3>2. \A k \in 1..Len(t) : k = 1
      BY <1>8
    <3>3. QED  BY <1>8, <3>1, <3>2
  <2>4. QED  BY <1>2, <1>8, <2>1, <2>2, <2>3 DEF ClientSide
<1>11. QED  BY <1>3, <1>4, <1>9, <1>10 DEF JourneyInv, OnJourney

------------------------------------------------------------------------------
(***************************************************************************)
(* The server's steps.                                                     *)
(***************************************************************************)
LEMMA WithinItself == ASSUME NEW v PROVE Within(v, v)
BY DEF Within

LEMMA WithinTail ==
    ASSUME NEW asks, NEW v, NEW messages, WirePath(asks, v, messages), messages # << >>
    PROVE  Within(Tail(v), v)
<1>1. /\ Tail(v)[Len(Tail(v))] = v[Len(v)]
      /\ \A k \in 1..Len(Tail(v)) : k + 1 \in 1..Len(v) /\ Tail(v)[k] = v[k + 1]
  BY WirePathTail
<1>2. QED  BY <1>1 DEF Within

LEMMA ClientUntouched ==
    ASSUME NEW v, NEW t, Linked => ClientSide(v, t), Linked' => Linked,
           plan'["client"] = plan["client"], UNCHANGED <<phase, asked>>,
           NEW v2, Within(v2, v)
    PROVE  Linked' => ClientSide(v2, t)'
<1> SUFFICES ASSUME Linked' PROVE ClientSide(v2, t)'
  OBVIOUS
<1>1. Home' = Home
  BY HomeStays
<1>2. ClientSide(v, t)
  OBVIOUS
<1>3. \A k \in 1..Len(v2) : Rank(v2[k]) <= Rank(t[1])
  BY <1>2 DEF ClientSide, Within
<1>4. QED  BY <1>1, <1>2, <1>3 DEF ClientSide, Within

\* The server goes on with other steps.
LEMMA ServerReplans ==
    ASSUME NEW v, WirePath(asked, v, wire["server"]),
           NEW v2, Consumes(v2, v), UNCHANGED asked,
           Route(asked, Len(served'), v2[1], plan'["server"]),
           \A r : r[1] = v2[1] => Received(r, plan'["server"], received'["server"])
    PROVE  (\E r : ServerSide(r, v2)') /\ Within(v2, v)
<1>1. PICK r : ServerPath(asked, Len(served'), r, plan'["server"]) /\ r[1] = v2[1]
  BY DEF Route
<1>2. WirePath(asked, v2, wire'["server"]) /\ Within(v2, v)
  <2>1. CASE v2 = v /\ wire'["server"] = wire["server"]
    BY <2>1, WithinItself
  <2>2. CASE v2 = Tail(v) /\ wire["server"] # << >> /\ wire'["server"] = Tail(wire["server"])
    <3>1. WirePath(asked, Tail(v), Tail(wire["server"]))
      BY <2>2, WirePathTail
    <3>2. Within(Tail(v), v)
      BY <2>2, WithinTail
    <3>3. QED  BY <2>2, <3>1, <3>2
  <2>3. QED  BY <2>1, <2>2 DEF Consumes
<1>3. ServerSide(r, v2)'
  BY <1>1, <1>2 DEF ServerSide
<1>4. QED  BY <1>2, <1>3

\* What the client's messages are, where the server reads them.
LEMMA MovesFields ==
    ASSUME NEW asks, NEW v, NEW m, NEW w, Moves(asks, v, m, w)
    PROVE  /\ m.command \notin {"_result", "ConnectApp", "CreateStream", "FMLEStart"}
           /\ v.at = "media" => m.command \in {"UserControl", "SetChunkSize", "FCUnpublish"}
           /\ v.at = "connect" => m.command = "connect" /\ w = At(Connected(m.name), v.done)
<1>1. m.command \notin {"_result", "ConnectApp", "CreateStream", "FMLEStart"}
  BY DEF Moves, Idle, Ways
<1>2. ASSUME v.at = "media" PROVE m.command \in {"UserControl", "SetChunkSize", "FCUnpublish"}
  BY <1>2 DEF Moves, Idle, Ways
<1>3. ASSUME v.at = "connect" PROVE m.command = "connect" /\ w = At(Connected(m.name), v.done)
  BY <1>3 DEF Moves, Idle, Ways
<1>4. QED  BY <1>1, <1>2, <1>3

\* The first message that is there, and what the server does next.
LEMMA AtServer ==
    ASSUME IInv, NEW r, NEW v, ServerSide(r, v), plan["server"] # << >>
    PROVE  /\ ServerPath(asked, Len(served), Tail(r), Tail(plan["server"])) /\ Tail(r)[1] = r[2]
           /\ ASeq(plan["server"]) /\ r[1] \in Views /\ r[2] \in Views /\ v[1] = r[1]
           /\ Takes(asked, Len(served), r[1], plan["server"][1], r[2])
           /\ 1 \in 1..Len(plan["server"]) /\ WirePath(asked, v, wire["server"])
           /\ wire["server"] # << >> =>
                /\ WirePath(asked, Tail(v), Tail(wire["server"])) /\ Tail(v)[1] = v[2]
                /\ v[1] \in Views /\ v[2] \in Views
                /\ Moves(asked, v[1], wire["server"][1], v[2])
                /\ Within(Tail(v), v)
                /\ wire["server"][1].command # "_result"
                /\ Decode("server", wire["server"][1]) = PacketOf(wire["server"][1].command)
<1> DEFINE p == plan["server"]
<1>1. ServerPath(asked, Len(served), r, p) /\ WirePath(asked, v, wire["server"]) /\ v[1] = r[1]
  BY DEF ServerSide
<1>2. /\ ServerPath(asked, Len(served), Tail(r), Tail(p)) /\ Tail(r)[1] = r[2]
      /\ r[1] \in Views /\ r[2] \in Views /\ Takes(asked, Len(served), r[1], p[1], r[2])
  BY <1>1, ServerPathTail
<1>3. ASeq(p) /\ 1 \in 1..Len(p)
  BY <1>1, TailFields DEF ServerPath
<1>4. ASSUME wire["server"] # << >>
      PROVE  /\ WirePath(asked, Tail(v), Tail(wire["server"])) /\ Tail(v)[1] = v[2]
             /\ v[1] \in Views /\ v[2] \in Views
             /\ Moves(asked, v[1], wire["server"][1], v[2])
             /\ Within(Tail(v), v)
             /\ wire["server"][1].command # "_result"
             /\ Decode("server", wire["server"][1]) = PacketOf(wire["server"][1].command)
  <2>1. Head(wire["server"]) = wire["server"][1]
    BY <1>1, <1>4, TailFields DEF WirePath
  <2>2. /\ WirePath(asked, Tail(v), Tail(wire["server"])) /\ Tail(v)[1] = v[2]
        /\ v[1] \in Views /\ v[2] \in Views
        /\ Moves(asked, v[1], wire["server"][1], v[2])
    BY <1>1, <1>4, <2>1, WirePathTail
  <2>3. wire["server"][1].command # "_result"
    BY <2>2, NoResultFromClient
  <2>4. Decode("server", wire["server"][1]) = PacketOf(wire["server"][1].command)
    BY <2>3 DEF Decode
  <2>5. Within(Tail(v), v)
    BY <1>1, <1>4, WithinTail
  <2>6. QED  BY <2>2, <2>3, <2>4, <2>5
<1>5. QED  BY <1>1, <1>2, <1>3, <1>4

LEMMA ServerWrites ==
    ASSUME IInv, NEW r, NEW v, ServerSide(r, v), NEW m, Writes("server", m)
    PROVE  \E r2 : ServerSide(r2, v)'
<1> DEFINE p == plan["server"]
<1>1. /\ p # << >> /\ p[1].do \in {"send", "reply"} /\ plan'["server"] = Tail(p)
      /\ wire'["server"] = wire["server"] /\ UNCHANGED <<received, asked, served>>
  BY DEF Writes, Says, Others
<1>2. /\ ServerPath(asked, Len(served), Tail(r), Tail(p)) /\ Tail(r)[1] = r[2]
      /\ Takes(asked, Len(served), r[1], p[1], r[2]) /\ v[1] = r[1]
  BY <1>1, AtServer
<1>3. r[2] = r[1]
  BY <1>1, <1>2 DEF Takes, Awaits
<1>4. Received(Tail(r), Tail(p), received["server"])
  <2> SUFFICES ASSUME 1 \in 1..Len(Tail(p))
               PROVE  Tail(p)[1].do \notin {"decide", "reply", "unpublish"}
    BY DEF Received
  <2>1. Tail(p)[1] = p[2] /\ 2 \in 2..Len(p) /\ 2 - 1 = 1
    <3>1. 1 + 1 \in 1..Len(p) /\ Tail(p)[1] = p[1 + 1] /\ 1 + 1 = 2
      BY <1>1, AtServer, TailFields
    <3>2. QED  BY <3>1
  <2>2. Succeeds(p[1], p[2])
    BY <2>1 DEF ServerSide, ServerPath
  <2>3. QED  BY <1>1, <2>1, <2>2 DEF Succeeds
<1>5. WirePath(asked, v, wire["server"])
  BY DEF ServerSide
<1>6. ServerSide(Tail(r), v)'
  BY <1>1, <1>2, <1>3, <1>4, <1>5 DEF ServerSide
<1>7. QED  BY <1>6

LEMMA ServerFails ==
    ASSUME IInv, NEW r, NEW v, ServerSide(r, v), NEW why, Fails("server", why)
    PROVE  \E r2, v2 : ServerSide(r2, v2)' /\ Within(v2, v)
<1>1. /\ plan'["server"] = << >> /\ UNCHANGED <<asked, served>>
      /\ \/ wire'["server"] = wire["server"]
         \/ wire["server"] # << >> /\ wire'["server"] = Tail(wire["server"])
  BY DEF Fails, LeavesOrReads, Others
<1>2. WirePath(asked, v, wire["server"])
  BY DEF ServerSide
<1>3. PICK v2 : Consumes(v2, v)
  BY <1>1 DEF Consumes
<1>4. v2[1] \in Views
  <2>1. CASE v2 = v
    <3>1. Path(v, Len(wire["server"])) /\ Len(wire["server"]) \in Nat
      BY <1>2 DEF WirePath, ASeq
    <3>2. 1 \in 1..Len(v)
      BY <3>1 DEF Path
    <3>3. QED  BY <2>1, <3>1, <3>2 DEF Path
  <2>2. CASE v2 = Tail(v) /\ wire["server"] # << >>
    BY <1>2, <2>2, WirePathTail
  <2>3. QED  BY <1>3, <2>1, <2>2 DEF Consumes
<1>5. Route(asked, Len(served'), v2[1], plan'["server"])
  BY <1>1, <1>4, RouteNowhere
<1>6. \A r2 : Received(r2, plan'["server"], received'["server"])
  BY <1>1, EmptyASeq DEF Received
<1>7. UNCHANGED asked
  BY <1>1
<1>8. \A r2 : r2[1] = v2[1] => Received(r2, plan'["server"], received'["server"])
  BY <1>6
<1>9. (\E r2 : ServerSide(r2, v2)') /\ Within(v2, v)
  BY <1>2, <1>3, <1>5, <1>7, <1>8, ServerReplans
<1>10. QED  BY <1>9

LEMMA ServerReads ==
    ASSUME IInv, NEW r, NEW v, ServerSide(r, v), Reads("server")
    PROVE  \E r2, v2 : ServerSide(r2, v2)' /\ Within(v2, v)
<1> DEFINE p == plan["server"]
           m == wire["server"][1]
           n == Len(served)
<1>1. /\ p # << >> /\ wire["server"] # << >> /\ plan'["server"] = Tail(p)
      /\ wire'["server"] = Tail(wire["server"]) /\ UNCHANGED <<asked, served>>
      /\ \/ p[1].do = "read"
         \/ /\ p[1].do = "expect" /\ received'["server"] = m
            /\ p[1].packet = Decode("server", m)
  BY DEF Reads, TakesOne, Others
<1>2. /\ ServerPath(asked, n, Tail(r), Tail(p)) /\ Tail(r)[1] = r[2]
      /\ r[1] \in Views /\ r[2] \in Views /\ v[1] = r[1]
      /\ Takes(asked, n, r[1], p[1], r[2]) /\ ASeq(p)
      /\ WirePath(asked, Tail(v), Tail(wire["server"])) /\ Tail(v)[1] = v[2]
      /\ v[2] \in Views /\ Moves(asked, r[1], m, v[2]) /\ Within(Tail(v), v)
      /\ Decode("server", m) = PacketOf(m.command) /\ WirePath(asked, v, wire["server"])
  BY <1>1, AtServer
<1>3. /\ Awaits(p[1]) /\ <<r[1].at, p[1].packet, r[2].at>> \in Accepts
      /\ p[1].do = "expect" => p[1].packet = PacketOf(m.command) /\ received'["server"] = m
  BY <1>1, <1>2 DEF Awaits, Takes
<1>4. 1 \in 1..Len(Tail(p)) => Tail(p)[1] = p[2] /\ Succeeds(p[1], p[2]) /\ 2 \in 1..Len(p)
  <2> SUFFICES ASSUME 1 \in 1..Len(Tail(p))
               PROVE  Tail(p)[1] = p[2] /\ Succeeds(p[1], p[2]) /\ 2 \in 1..Len(p)
    OBVIOUS
  <2>1. 1 + 1 \in 1..Len(p) /\ Tail(p)[1] = p[1 + 1] /\ 1 + 1 = 2
    BY <1>1, <1>2, TailFields
  <2>2. 2 \in 2..Len(p) /\ 2 - 1 = 1
    BY <2>1
  <2>3. QED  BY <2>1, <2>2 DEF ServerSide, ServerPath
<1>5. CASE r[1].at # "connect"
  <2>1. v[2] = r[2]
    <3>1. p[1].do = "expect" => PacketOf(m.command) = p[1].packet
      BY <1>3
    <3>2. QED  BY <1>2, <1>3, <1>5, <3>1, AcceptsAgree
  <2>2. Received(Tail(r), Tail(p), received'["server"])
    <3> SUFFICES ASSUME 1 \in 1..Len(Tail(p)), Tail(p)[1].do \in {"decide", "reply", "unpublish"}
                 PROVE  /\ Tail(p)[1].do # "decide"
                        /\ Tail(p)[1].do = "reply" =>
                             /\ received'["server"].command \in Commands
                             /\ r[2].at = "publish" =>
                                  received'["server"].command = "createStream"
                        /\ Tail(p)[1].do = "unpublish" => received'["server"].command = "FCUnpublish"
      BY <1>2 DEF Received
    <3>1. Tail(p)[1] = p[2] /\ Succeeds(p[1], p[2])
      BY <1>4
    <3>2. p[1].do = "expect" /\ received'["server"] = m /\ p[1].packet = PacketOf(m.command)
      BY <1>3, <3>1 DEF Succeeds
    <3>3. /\ m.command \notin {"_result", "ConnectApp", "CreateStream", "FMLEStart"}
          /\ r[1].at = "media" => m.command \in {"UserControl", "SetChunkSize", "FCUnpublish"}
      BY <1>2, MovesFields
    <3>4. ASSUME p[2].do = "decide" PROVE FALSE
      <4>1. p[1].packet = "ConnectApp"
        BY <3>1, <3>4 DEF Succeeds
      <4>2. QED  BY <1>3, <1>5, <4>1 DEF Accepts
    <3>5. ASSUME p[2].do = "reply"
          PROVE  m.command \in Commands /\ (r[2].at = "publish" => m.command = "createStream")
      <4>1. PacketOf(m.command) \in {"FMLEStart", "CreateStream"}
        BY <3>1, <3>2, <3>5 DEF Succeeds
      <4>2. m.command \in Commands /\ (PacketOf(m.command) = "CreateStream" => m.command = "createStream")
        BY <3>3, <4>1 DEF PacketOf, Commands
      <4>3. r[2].at = "publish" => p[1].packet = "CreateStream"
        BY <1>3 DEF Accepts
      <4>4. QED  BY <3>2, <4>2, <4>3
    <3>6. ASSUME p[2].do = "unpublish" PROVE m.command = "FCUnpublish"
      <4>1. p[1].packet = "FMLEStart"
        BY <3>1, <3>6 DEF Succeeds
      <4>2. r[2].at = "identify"
        <5>1. 2 \in 1..Len(p)
          BY <1>4
        <5>2. Takes(asked, n, r[2], p[2], r[2 + 1])
          BY <5>1 DEF ServerSide, ServerPath
        <5>3. r[2] = At("identify", n)
          BY <3>6, <5>2 DEF Takes, Awaits
        <5>4. QED  BY <5>3, AtFields
      <4>3. r[1].at = "media"
        BY <1>3, <4>1, <4>2 DEF Accepts
      <4>4. QED  BY <3>2, <3>3, <4>1, <4>3 DEF PacketOf
    <3>7. QED  BY <3>1, <3>2, <3>4, <3>5, <3>6
  <2>3. ServerSide(Tail(r), Tail(v))'
    BY <1>1, <1>2, <2>1, <2>2 DEF ServerSide
  <2>4. QED  BY <1>2, <2>3
<1>6. CASE r[1].at = "connect"
  <2>1. /\ p[1].do = "expect" /\ r[2].done = r[1].done
        /\ m.command = "connect" /\ v[2] = At(Connected(m.name), r[1].done)
    BY <1>2, <1>3, <1>6, MovesFields DEF Takes, Awaits
  <2>2. 1 + 1 = Len(p) /\ p[1 + 1].do = "decide"
    <3>1. 1 \in 1..Len(p)
      BY <1>1, AtServer
    <3>2. QED  BY <1>3, <1>6, <3>1 DEF ServerSide, ServerPath
  <2>3. 2 = Len(p) /\ p[2].do = "decide"
    BY <2>2
  <2>4. Tail(p) = <<p[2]>>
    <3>1. /\ ASeq(Tail(p)) /\ Len(Tail(p)) = Len(p) - 1
          /\ \A k \in 1..Len(Tail(p)) : Tail(p)[k] = p[k + 1]
      BY <1>1, <1>2, TailFields
    <3>2. Len(Tail(p)) = 1 /\ Tail(p)[1] = p[1 + 1]
      BY <2>3, <3>1
    <3>3. ASeq(<<p[2]>>) /\ Len(<<p[2]>>) = 1 /\ <<p[2]>>[1] = p[2]
      BY DEF ASeq
    <3>4. \A k \in 1..Len(Tail(p)) : k = 1
      <4>1. \A k \in 1..1 : k = 1
        OBVIOUS
      <4>2. QED  BY <3>2, <4>1
    <3>5. p[1 + 1] = p[2]
      OBVIOUS
    <3>6. \A k \in 1..Len(Tail(p)) : Tail(p)[k] = <<p[2]>>[k]
      BY <3>2, <3>3, <3>4, <3>5
    <3>7. QED  BY <3>1, <3>2, <3>3, <3>6, SameSeq
  <2>5. r[2].done = n
    <3>1. 2 \in 1..Len(p)
      BY <2>3
    <3>2. Takes(asked, n, r[2], p[2], r[2 + 1])
      BY <3>1 DEF ServerSide, ServerPath
    <3>3. QED  BY <2>3, <3>2 DEF Takes, Awaits
  <2>6. v[2].at = Connected(m.name) /\ v[2].done = n
    BY <2>1, <2>5, AtFields
  <2>7. Takes(asked, n, v[2], p[2], v[2])
    <3>1. v[2].at \in {"identify", "check1"}
      BY <2>6 DEF Connected
    <3>2. QED  BY <2>3, <2>6, <3>1 DEF Takes
  <2>8. Route(asked, n, v[2], Tail(p))
    <3>1. Ends(p[2])
      BY <2>3 DEF Ends
    <3>2. Route(asked, n, v[2], <<p[2]>>)
      BY <1>2, <2>7, <3>1, RouteEnd
    <3>3. QED  BY <2>4, <3>2
  <2>9. received'["server"] = m
    BY <1>3, <2>1
  <2>10. \A r2 : r2[1] = v[2] => Received(r2, Tail(p), m)
    <3>1. Tail(p)[1].do = "decide"
      <4>1. <<p[2]>>[1] = p[2]
        OBVIOUS
      <4>2. QED  BY <2>3, <2>4, <4>1
    <3>2. QED  BY <2>1, <2>6, <3>1 DEF Received
  <2>11. Consumes(Tail(v), v)
    BY <1>1 DEF Consumes
  <2>12. QED  BY <1>1, <1>2, <2>8, <2>9, <2>10, <2>11, ServerReplans
<1>7. QED  BY <1>5, <1>6

LEMMA ServerDrops ==
    ASSUME IInv, NEW r, NEW v, ServerSide(r, v), Drops("server")
    PROVE  \E r2, v2 : ServerSide(r2, v2)' /\ Within(v2, v)
<1> DEFINE p == plan["server"]
           m == wire["server"][1]
           n == Len(served)
<1>1. /\ p # << >> /\ wire["server"] # << >> /\ plan'["server"] = p
      /\ wire'["server"] = Tail(wire["server"]) /\ UNCHANGED <<asked, served>>
      /\ received'["server"] = received["server"]
      /\ \/ p[1].do = "expect" /\ p[1].packet # Decode("server", m)
         \/ p[1].do \in {"identify", "level1"} /\ m.command \in IgnoredByIdentify
  BY DEF Drops, TakesOne, Others
<1>2. /\ r[1] \in Views /\ v[1] = r[1] /\ Takes(asked, n, r[1], p[1], r[2])
      /\ WirePath(asked, Tail(v), Tail(wire["server"])) /\ Tail(v)[1] = v[2]
      /\ Moves(asked, r[1], m, v[2]) /\ Within(Tail(v), v)
      /\ Decode("server", m) = PacketOf(m.command)
  BY <1>1, AtServer
<1>3. v[2] = r[1]
  <2>1. CASE p[1].do = "expect" /\ p[1].packet # Decode("server", m)
    BY <1>2, <2>1, DroppedStays
  <2>2. CASE p[1].do \in {"identify", "level1"} /\ m.command \in IgnoredByIdentify
    <3>1. r[1] = At(p[1].do, n)
      BY <1>2, <2>2 DEF Takes, Awaits
    <3>2. r[1].at \in {"identify", "level1"}
      BY <2>2, <3>1, AtFields
    <3>3. <<r[1].at, m.command, v[2].at>> \notin Ways
      BY <2>2, <3>2 DEF Ways, IgnoredByIdentify
    <3>4. QED  BY <1>2, <2>2, <3>2, <3>3 DEF Moves, IgnoredByIdentify
  <2>3. QED  BY <1>1, <2>1, <2>2
<1>4. ServerSide(r, Tail(v))'
  BY <1>1, <1>2, <1>3 DEF ServerSide
<1>5. QED  BY <1>2, <1>4

------------------------------------------------------------------------------
\* Plans that begin with something to send.
Opens(p) == ASeq(p) /\ 1 \in 1..Len(p) /\ p[1].do = "send"

LEMMA OpensConcat ==
    ASSUME NEW p, NEW q, Opens(p), ASeq(q)
    PROVE  Opens(p \o q)
<1>1. /\ ASeq(p \o q) /\ Len(p \o q) = Len(p) + Len(q) /\ (p \o q)[1] = p[1]
      /\ Len(p) \in Nat /\ Len(q) \in Nat /\ 1 \in 1..Len(p)
  BY ConcatASeq DEF Opens, ASeq
<1>2. 1 \in 1..Len(p \o q)
  BY <1>1
<1>3. QED  BY <1>1, <1>2 DEF Opens

LEMMA OpensReceived ==
    ASSUME NEW p, Opens(p)
    PROVE  \A r, m : Received(r, p, m)
BY DEF Opens, Received

LEMMA PlansOpen ==
    /\ \A kind \in {"play", "fmle", "flash"} : \A name : Opens(Identified(kind, name))
    /\ \A tid, of, name : Opens(<<Result(tid, of)>> \o Identified("fmle", name))
    /\ \A tid, of, do : Opens(<<Result(tid, of), Step(do)>>)
    /\ Opens(Accept) /\ Opens(ResponseConnectReject \o <<Step("reject")>>)
    /\ \A data : Opens(ServerCheck(data))
    /\ \A tid : Opens(FmleUnpublish(tid) \o <<Step("identify")>>)
<1>1. \A command, tid, of : Send(command).do = "send" /\ Result(tid, of).do = "send"
  BY DEF Send, Request, Result
<1>2. ASSUME NEW kind \in {"play", "fmle", "flash"}, NEW name PROVE Opens(Identified(kind, name))
  <2> DEFINE a == Send("SetChunkSize")
             S == CASE kind = "play" -> StartPlay
                    [] kind = "fmle" -> StartFmlePublish
                    [] kind = "flash" -> StartFlashPublish
             e == Serving(kind, name)
  <2>1. ASeq(S)
    <3>1. ASeq(StartPlay)
      BY DEF StartPlay, ASeq
    <3>2. ASeq(StartFmlePublish)
      BY DEF StartFmlePublish, ASeq
    <3>3. ASeq(StartFlashPublish)
      BY DEF StartFlashPublish, ASeq
    <3>4. S = StartPlay \/ S = StartFmlePublish \/ S = StartFlashPublish
      OBVIOUS
    <3>5. QED  BY <3>1, <3>2, <3>3, <3>4
  <2>2. a.do = "send"
    BY <1>1
  <2>3. Identified(kind, name) = <<a>> \o S \o <<e>>
    BY DEF Identified
  <2> HIDE DEF a, S, e
  <2>4. Opens(<<a>>) /\ ASeq(<<e>>)
    BY <2>2 DEF Opens, ASeq
  <2>5. Opens(<<a>> \o S)
    BY <2>1, <2>4, OpensConcat
  <2>6. Opens(<<a>> \o S \o <<e>>)
    BY <2>4, <2>5, OpensConcat
  <2>7. QED  BY <2>3, <2>6
<1>3. ASSUME NEW tid, NEW of, NEW q, ASeq(q) PROVE Opens(<<Result(tid, of)>> \o q)
  <2> DEFINE a == Result(tid, of)
  <2>1. a.do = "send"
    BY <1>1
  <2> HIDE DEF a
  <2>2. Opens(<<a>>)
    BY <2>1 DEF Opens, ASeq
  <2>3. Opens(<<a>> \o q)
    BY <1>3, <2>2, OpensConcat
  <2>4. QED  BY <2>3 DEF a
<1>4. ASSUME NEW tid, NEW of, NEW do PROVE Opens(<<Result(tid, of), Step(do)>>)
  <2> DEFINE a == Result(tid, of)
             b == Step(do)
  <2>1. a.do = "send"
    BY <1>1
  <2> HIDE DEF a, b
  <2>2. Opens(<<a, b>>)
    BY <2>1 DEF Opens, ASeq
  <2>3. QED  BY <2>2 DEF a, b
<1>5. Opens(Accept)
  <2> DEFINE a == Send("SetWindowAckSize")
             b == Send("SetPeerBandwidth")
             S == <<a, b>>
             T == ResponseConnectApp
             c == Send("onBWDone")
             d == Step("identify")
             U == <<c, d>>
  <2>1. a.do = "send"
    BY <1>1
  <2>2. ASeq(T)
    BY DEF ASeq, ResponseConnectApp
  <2>3. Accept = S \o T \o U
    BY DEF Accept
  <2> HIDE DEF a, b, T, c, d
  <2>4. Opens(S) /\ ASeq(U)
    BY <2>1 DEF Opens, ASeq
  <2> HIDE DEF S, U
  <2>5. Opens(S \o T)
    BY <2>2, <2>4, OpensConcat
  <2>6. Opens(S \o T \o U)
    BY <2>4, <2>5, OpensConcat
  <2>7. QED  BY <2>3, <2>6
<1>6. Opens(ResponseConnectReject \o <<Step("reject")>>)
  <2> DEFINE a == Send("onStatus")
             b == Step("reject")
  <2>1. a.do = "send"
    BY <1>1
  <2>2. ResponseConnectReject = <<a>>
    BY DEF ResponseConnectReject
  <2> HIDE DEF a, b
  <2>3. Opens(<<a>>) /\ ASeq(<<b>>)
    BY <2>1 DEF Opens, ASeq
  <2>4. Opens(<<a>> \o <<b>>)
    BY <2>3, OpensConcat
  <2>5. QED  BY <2>2, <2>4 DEF b
<1>7. ASSUME NEW data PROVE Opens(ServerCheck(data))
  <2> DEFINE a == Result(1, "connect")
             T == <<Send("startPlay"), Expect("startingPlay"), Send("playing"), Send("stopPlay"),
                    Expect("stoppedPlay"), Request("startPublish", 0, data),
                    Expect("startingPublish"), Send("stopPublish"), Expect("stoppedPublish"),
                    Send("finished"), Expect("final")>>
  <2>1. a.do = "send"
    BY <1>1
  <2>2. ServerCheck(data) = <<a>> \o T
    BY DEF ServerCheck, ResponseConnectApp
  <2>3. ASeq(T)
    BY DEF ASeq
  <2> HIDE DEF a, T
  <2>4. Opens(<<a>>)
    BY <2>1 DEF Opens, ASeq
  <2>5. Opens(<<a>> \o T)
    BY <2>3, <2>4, OpensConcat
  <2>6. QED  BY <2>2, <2>5
<1>8. ASSUME NEW tid PROVE Opens(FmleUnpublish(tid) \o <<Step("identify")>>)
  <2> DEFINE a == Send("onFCUnpublish")
             b == Result(tid, "FCUnpublish")
             c == Send("onStatus")
             d == Step("identify")
             S == <<a, b, c>>
  <2>1. a.do = "send"
    BY <1>1
  <2>2. FmleUnpublish(tid) = S
    BY DEF FmleUnpublish
  <2> HIDE DEF a, b, c, d
  <2>3. Opens(S) /\ ASeq(<<d>>)
    BY <2>1 DEF Opens, ASeq
  <2> HIDE DEF S
  <2>4. Opens(S \o <<d>>)
    BY <2>3, OpensConcat
  <2>5. QED  BY <2>2, <2>4 DEF d
<1>9. ASSUME NEW tid, NEW of, NEW name PROVE Opens(<<Result(tid, of)>> \o Identified("fmle", name))
  <2>1. ASeq(Identified("fmle", name))
    BY <1>2 DEF Opens
  <2>2. QED  BY <1>3, <2>1
<1>10. QED  BY <1>2, <1>4, <1>5, <1>6, <1>7, <1>8, <1>9

------------------------------------------------------------------------------
\* The plan that identify_client() goes on with is one from where the message takes it.
LEMMA IdentifiesRoute ==
    ASSUME NEW asks, NEW n \in Nat, NEW do \in {"identify", "level1"}, NEW m, NEW w \in Views,
           Moves(asks, At(do, n), m, w), m.command \notin IgnoredByIdentify,
           NEW p, p = IF do = "identify" THEN AtFirst(m, PacketOf(m.command))
                                         ELSE AfterCreateStream(m, PacketOf(m.command))
    PROVE  Route(asks, n, w, p) /\ Opens(p)
<1>1. /\ At(do, n).at = do /\ At(do, n).done = n
      /\ \A place : At(place, n).at = place /\ At(place, n).done = n
  BY AtFields
<1>2. CASE do = "identify"
  <2>1. \/ m.command = "call" /\ w = At("identify", n)
        \/ m.command = "createStream" /\ w = At("level1", n)
        \/ m.command = "releaseStream" /\ w = At("fc", n) /\ Asked(asks, n + 1, "fmle", m.name)
    <3>1. CASE <<do, m.command>> \in Idle /\ w = At(do, n)
      BY <1>2, <3>1 DEF Idle, IgnoredByIdentify
    <3>2. CASE <<do, m.command, w.at>> \in Ways /\ w.done = n
      <4>1. m.command = "createStream" /\ w.at = "level1"
        BY <1>2, <3>2 DEF Ways
      <4>2. At("level1", n) \in Views
        BY AtFields DEF Places
      <4>3. w = At("level1", n)
        BY <1>1, <3>2, <4>1, <4>2, SameView
      <4>4. QED  BY <4>1, <4>3
    <3>3. QED  BY <1>1, <1>2, <3>1, <3>2 DEF Moves
  <2>2. CASE m.command = "call" /\ w = At("identify", n)
    <3>1. PacketOf(m.command) = "Call"
      BY <2>2 DEF PacketOf
    <3>2. p = <<Result(m.tid, m.command), Step("identify")>>
      BY <1>2, <3>1 DEF AtFirst
    <3>3. QED  BY <2>2, <3>2, AnswerRoute, PlansOpen
  <2>3. CASE m.command = "createStream" /\ w = At("level1", n)
    <3>1. PacketOf(m.command) = "CreateStream"
      BY <2>3 DEF PacketOf
    <3>2. p = <<Result(m.tid, m.command), Step("level1")>>
      BY <1>2, <3>1 DEF AtFirst
    <3>3. QED  BY <2>3, <3>2, AnswerRoute, PlansOpen
  <2>4. CASE m.command = "releaseStream" /\ w = At("fc", n) /\ Asked(asks, n + 1, "fmle", m.name)
    <3>1. PacketOf(m.command) = "FMLEStart"
      BY <2>4 DEF PacketOf
    <3>2. p = <<Result(m.tid, m.command)>> \o Identified("fmle", m.name)
      BY <1>2, <3>1 DEF AtFirst
    <3>3. Opens(p)
      BY <3>2, PlansOpen
    <3>4. Route(asks, n, w, p)
      BY <2>4, <3>2, FmleRoute
    <3>5. QED  BY <3>3, <3>4
  <2>5. QED  BY <2>1, <2>2, <2>3, <2>4
<1>3. CASE do = "level1"
  <2>1. \/ m.command = "play" /\ w = At("media", n + 1) /\ Asked(asks, w.done, "play", m.name)
        \/ m.command = "publish" /\ w = At("media", n + 1) /\ Asked(asks, w.done, "flash", m.name)
    <3>1. <<do, m.command>> \in Idle => m.command \in IgnoredByIdentify
      BY <1>3 DEF Idle, IgnoredByIdentify
    <3>2. <<do, m.command, w.at>> \notin Ways
      BY <1>3 DEF Ways
    <3>3. QED  BY <1>1, <1>3, <3>1, <3>2 DEF Moves
  <2>2. At("media", n + 1).done = n + 1
    BY AtFields
  <2>3. CASE m.command = "play" /\ w = At("media", n + 1) /\ Asked(asks, w.done, "play", m.name)
    <3>1. PacketOf(m.command) = "Play"
      BY <2>3 DEF PacketOf
    <3>2. p = Identified("play", m.name)
      BY <1>3, <3>1 DEF AfterCreateStream
    <3>3. Asked(asks, n + 1, "play", m.name)
      BY <2>2, <2>3
    <3>4. QED  BY <2>3, <3>2, <3>3, PlayRoute, PlansOpen
  <2>4. CASE m.command = "publish" /\ w = At("media", n + 1) /\ Asked(asks, w.done, "flash", m.name)
    <3>1. PacketOf(m.command) = "Publish"
      BY <2>4 DEF PacketOf
    <3>2. p = Identified("flash", m.name)
      BY <1>3, <3>1 DEF AfterCreateStream
    <3>3. Asked(asks, n + 1, "flash", m.name)
      BY <2>2, <2>4
    <3>4. QED  BY <2>4, <3>2, <3>3, FlashRoute, PlansOpen
  <2>5. QED  BY <2>1, <2>3, <2>4
<1>4. QED  BY <1>2, <1>3

LEMMA IdentifiesOn ==
    ASSUME IInv, History, NEW r, NEW v, ServerSide(r, v), NEW p, Identifies(p)
    PROVE  /\ Route(asked, Len(served), v[2], p) /\ Opens(p)
           /\ Decode("server", wire["server"][1]) = PacketOf(wire["server"][1].command)
           /\ WirePath(asked, v, wire["server"]) /\ Tail(v)[1] = v[2]
<1> DEFINE m == wire["server"][1]
           n == Len(served)
           do == plan["server"][1].do
<1>1. /\ plan["server"] # << >> /\ wire["server"] # << >> /\ plan'["server"] = p
      /\ wire'["server"] = Tail(wire["server"]) /\ UNCHANGED <<asked, served>>
      /\ m.command \notin IgnoredByIdentify /\ do \in {"identify", "level1"}
  BY DEF Identifies, TakesOne, Others
<1>2. p = IF do = "identify" THEN AtFirst(m, Decode("server", m))
                             ELSE AfterCreateStream(m, Decode("server", m))
  BY DEF Identifies
<1>3. /\ r[1] \in Views /\ v[1] = r[1] /\ Takes(asked, n, r[1], plan["server"][1], r[2])
      /\ WirePath(asked, v, wire["server"]) /\ Tail(v)[1] = v[2] /\ v[2] \in Views
      /\ Moves(asked, r[1], m, v[2]) /\ Decode("server", m) = PacketOf(m.command)
  BY <1>1, AtServer
<1>4. r[1] = At(do, n)
  BY <1>1, <1>3 DEF Takes, Awaits
<1>5. n \in Nat
  BY DEF History, ASeq
<1> HIDE DEF m, n, do
<1>6. Route(asked, n, v[2], p) /\ Opens(p)
  BY <1>1, <1>2, <1>3, <1>4, <1>5, IdentifiesRoute
<1>7. QED  BY <1>3, <1>6 DEF m, n

LEMMA ServerIdentifies ==
    ASSUME IInv, History, NEW r, NEW v, ServerSide(r, v), NEW p, Identifies(p)
    PROVE  \E r2, v2 : ServerSide(r2, v2)' /\ Within(v2, v)
<1>1. /\ wire["server"] # << >> /\ plan'["server"] = p
      /\ wire'["server"] = Tail(wire["server"]) /\ UNCHANGED <<asked, served>>
  BY DEF Identifies, TakesOne, Others
<1>2. /\ Route(asked, Len(served), v[2], p) /\ Opens(p)
      /\ WirePath(asked, v, wire["server"]) /\ Tail(v)[1] = v[2]
  BY IdentifiesOn
<1>3. \A r2 : Received(r2, p, received'["server"])
  BY <1>2, OpensReceived
<1>4. Consumes(Tail(v), v) /\ UNCHANGED asked
  BY <1>1 DEF Consumes
<1>5. Route(asked, Len(served'), Tail(v)[1], plan'["server"])
  BY <1>1, <1>2
<1>6. \A r2 : r2[1] = Tail(v)[1] => Received(r2, plan'["server"], received'["server"])
  BY <1>1, <1>3
<1>7. QED  BY <1>2, <1>4, <1>5, <1>6, ServerReplans

\* What the caller of the server goes on with is one from where it is.
LEMMA ServerCalls ==
    ASSUME IInv, History, NEW r, NEW v, ServerSide(r, v),
           (\E p : Decides(p)) \/ Serves \/ Unpublishes
    PROVE  \E r2 : ServerSide(r2, v)'
<1> DEFINE p == plan["server"]
           n == Len(served)
<1>1. n \in Nat
  BY DEF History, ASeq
<1>2. /\ wire'["server"] = wire["server"] /\ UNCHANGED <<asked, received>>
      /\ p # << >> /\ p[1].do \in {"decide", "serve", "unpublish"}
  BY DEF Decides, Serves, Unpublishes, Plans, Others
<1>3. /\ r[1] \in Views /\ v[1] = r[1] /\ Takes(asked, n, r[1], p[1], r[2])
      /\ WirePath(asked, v, wire["server"]) /\ 1 \in 1..Len(p)
      /\ Received(r, p, received["server"])
  BY <1>2, AtServer DEF ServerSide
<1>4. Route(asked, Len(served'), r[1], plan'["server"])
      /\ \A r2 : Received(r2, plan'["server"], received'["server"])
  <2>1. CASE \E q : Decides(q)
    <3>1. PICK q : Decides(q)
      BY <2>1
    <3>2. plan'["server"] = q /\ p[1].do = "decide" /\ served' = served
      BY <3>1 DEF Decides, Plans, Others
    <3>3. r[1].at = Connected(received["server"].name) /\ r[1].done = n
      BY <1>3, <3>2 DEF Takes, Awaits, Received
    <3>4. r[1] = At(Connected(received["server"].name), n)
      BY <1>3, <3>3, ViewIsAt
    <3>5. Route(asked, n, r[1], q) /\ Opens(q)
      <4>1. CASE received["server"].name = "check"
        <5>1. r[1] = At("check1", n) /\ q \in {ServerCheck("no duration"), ServerCheck("1000")}
          BY <3>1, <3>4, <4>1 DEF Decides, Connected
        <5>2. \A data : Route(asked, n, At("check1", n), ServerCheck(data)) /\ Opens(ServerCheck(data))
          BY <1>1, CheckRoute, PlansOpen
        <5>3. QED  BY <5>1, <5>2
      <4>2. CASE received["server"].name # "check"
        <5>1. r[1] = At("identify", n) /\ q \in {Accept, ResponseConnectReject \o <<Step("reject")>>}
          BY <3>1, <3>4, <4>2 DEF Decides, Connected
        <5>2. Route(asked, n, At("identify", n), Accept) /\ Opens(Accept)
          BY <1>1, AcceptRoute, PlansOpen
        <5>3. /\ Route(asked, n, At("identify", n), ResponseConnectReject \o <<Step("reject")>>)
              /\ Opens(ResponseConnectReject \o <<Step("reject")>>)
          BY <1>1, RejectRoute, PlansOpen
        <5>4. QED  BY <5>1, <5>2, <5>3
      <4>3. QED  BY <4>1, <4>2
    <3>6. \A r2 : Received(r2, q, received'["server"])
      BY <3>5, OpensReceived
    <3>7. QED  BY <3>2, <3>5, <3>6
  <2>2. CASE Serves
    <3> DEFINE q == <<Expect("FMLEStart"), Step("unpublish")>>
    <3>1. /\ plan'["server"] = q /\ p[1].do = "serve"
          /\ served' = Append(served, [kind |-> p[1].kind, name |-> p[1].name])
      BY <2>2 DEF Serves, Plans
    <3>2. r[1] = At("media", n + 1)
      BY <1>3, <3>1 DEF Takes, Awaits
    <3>3. Len(served') = n + 1
      BY <3>1, AppendASeq DEF History
    <3>4. Route(asked, n + 1, At("media", n + 1), q)
      BY <1>1, ServedRoute
    <3>5. q[1].do = "expect"
      BY DEF Expect
    <3> HIDE DEF q
    <3>6. \A r2 : Received(r2, q, received'["server"])
      BY <3>5 DEF Received
    <3>7. QED  BY <3>1, <3>2, <3>3, <3>4, <3>6
  <2>3. CASE Unpublishes
    <3> DEFINE q == FmleUnpublish(received["server"].tid) \o <<Step("identify")>>
    <3>1. plan'["server"] = q /\ p[1].do = "unpublish" /\ served' = served
      BY <2>3 DEF Unpublishes, Plans, Others
    <3>2. r[1] = At("identify", n)
      BY <1>3, <3>1 DEF Takes, Awaits
    <3>3. Route(asked, n, At("identify", n), q) /\ Opens(q)
      BY <1>1, UnpublishRoute, PlansOpen
    <3> HIDE DEF q
    <3>4. \A r2 : Received(r2, q, received'["server"])
      BY <3>3, OpensReceived
    <3>5. QED  BY <3>1, <3>2, <3>3, <3>4
  <2>4. QED  BY <2>1, <2>2, <2>3
<1>5. Consumes(v, v) /\ UNCHANGED asked
  BY <1>2 DEF Consumes
<1>6. Route(asked, Len(served'), v[1], plan'["server"])
  BY <1>3, <1>4
<1>7. \A r2 : r2[1] = v[1] => Received(r2, plan'["server"], received'["server"])
  BY <1>4
<1>8. QED  BY <1>3, <1>5, <1>6, <1>7, ServerReplans

------------------------------------------------------------------------------
(***************************************************************************)
(* The client's steps.                                                     *)
(***************************************************************************)
LEMMA ServerUntouched ==
    ASSUME NEW r, NEW v, ServerSide(r, v), plan'["server"] = plan["server"],
           wire'["server"] = wire["server"], received'["server"] = received["server"],
           UNCHANGED served, Keeps(asked, asked')
    PROVE  ServerSide(r, v)'
<1>1. ServerPath(asked', Len(served), r, plan["server"]) /\ WirePath(asked', v, wire["server"])
  BY ServerPathMore, WirePathMore DEF ServerSide
<1>2. QED  BY <1>1 DEF ServerSide

LEMMA ClientWrites ==
    ASSUME IInv, JourneyInv, NEW r, NEW v, NEW t, OnJourney(r, v, t), NEW m, Writes("client", m)
    PROVE  \E v2, t2 : OnJourney(r, v2, t2)'
<1> DEFINE p == plan["client"]
           v2 == Append(v, t[2])
<1>1. /\ p # << >> /\ plan'["client"] = Tail(p) /\ plan'["server"] = plan["server"] /\ ~lost
      /\ wire'["server"] = Append(wire["server"], m)
      /\ UNCHANGED <<received, asked, served, phase>>
  BY DEF Writes, Others, Peer
<1>2. Linked /\ ServerSide(r, v) /\ ClientSide(v, t)
  BY <1>1 DEF JourneyInv, FailedStops, Linked, Endpoints, OnJourney
<1>3. /\ ClientPath(asked, Tail(t), Tail(p)) /\ Goes(asked, t[1], p[1], t[2])
      /\ t[1] \in Views /\ t[2] \in Views
      /\ Tail(t)[1] = t[2] /\ Tail(t)[Len(Tail(t))] = Home
  <2>1. Head(p) = p[1]
    BY <1>1, <1>2, TailFields DEF ClientSide, ClientPath
  <2>2. QED  BY <1>1, <1>2, <2>1, ClientPathTail DEF ClientSide
<1>4. Moves(asked, v[Len(v)], m, t[2])
  <2>1. p[1].do = "send" /\ m.command = p[1].command /\ m.name = p[1].name
    BY <1>3 DEF Writes, Says, Goes, Awaits
  <2>2. Moves(asked, t[1], p[1], t[2])
    BY <1>3, <2>1 DEF Goes, Awaits
  <2>3. Moves(asked, t[1], m, t[2])
    BY <2>1, <2>2 DEF Moves
  <2>4. QED  BY <1>2, <2>3 DEF ClientSide
<1>5. /\ WirePath(asked, v2, Append(wire["server"], m)) /\ v2[1] = v[1] /\ v2[Len(v2)] = t[2]
      /\ \A k \in 1..Len(v2) : (k \in 1..Len(v) /\ v2[k] = v[k]) \/ v2[k] = t[2]
  <2>1. WirePath(asked, v, wire["server"])
    BY <1>2 DEF ServerSide
  <2> DEFINE w == t[2]
             x == wire["server"]
  <2>2. WirePath(asked, v, x) /\ w \in Views /\ Moves(asked, v[Len(v)], m, w)
    BY <1>3, <1>4, <2>1
  <2> HIDE DEF w, x
  <2>3. /\ WirePath(asked, Append(v, w), Append(x, m))
        /\ Append(v, w)[1] = v[1] /\ Append(v, w)[Len(Append(v, w))] = w
    BY <2>2, WirePathAppend
  <2>4. \A k \in 1..Len(Append(v, w)) : (k \in 1..Len(v) /\ Append(v, w)[k] = v[k])
                                        \/ Append(v, w)[k] = w
    BY <2>2, WirePathAppend
  <2>5. QED  BY <2>3, <2>4 DEF w, x
<1>6. Rank(t[1]) <= Rank(t[2]) /\ Rank(t[1]) \in Int /\ Rank(t[2]) \in Int
  <2>1. t[1] = v[Len(v)]
    BY <1>2 DEF ClientSide
  <2>2. QED  BY <1>3, <1>4, <2>1, RankRises
<1> HIDE DEF v2
<1>7. \A k \in 1..Len(v2) : Rank(v2[k]) <= Rank(t[2])
  <2> SUFFICES ASSUME NEW k \in 1..Len(v2) PROVE Rank(v2[k]) <= Rank(t[2])
    OBVIOUS
  <2>1. CASE v2[k] = t[2]
    BY <1>6, <2>1
  <2>2. CASE k \in 1..Len(v) /\ v2[k] = v[k]
    <3>1. v[k] \in Views
      BY <1>2, <2>2 DEF ServerSide, WirePath, Path
    <3>2. Rank(v[k]) <= Rank(t[1]) /\ Rank(v[k]) \in Int
      BY <1>2, <2>2, <3>1, RankIsInt DEF ClientSide
    <3>3. QED  BY <1>6, <2>2, <3>2
  <2>3. QED  BY <1>5, <2>1, <2>2
<1>8. ServerSide(r, v2)'
  BY <1>1, <1>2, <1>5 DEF ServerSide
<1>9. ClientSide(v2, Tail(t))'
  <2>1. Home' = Home
    BY <1>1, HomeStays
  <2>2. QED  BY <1>1, <1>3, <1>5, <1>7, <2>1 DEF ClientSide
<1>10. QED  BY <1>8, <1>9 DEF OnJourney

LEMMA ClientReads ==
    ASSUME IInv, JourneyInv, NEW r, NEW v, NEW t, OnJourney(r, v, t),
           Reads("client") \/ Drops("client") \/ \E why : Fails("client", why)
    PROVE  \E t2 : OnJourney(r, v, t2)'
<1> DEFINE p == plan["client"]
<1>1. /\ plan'["server"] = plan["server"] /\ wire'["server"] = wire["server"]
      /\ received'["server"] = received["server"] /\ UNCHANGED <<asked, served, phase>>
  BY DEF Reads, Drops, TakesOne, Fails, Others, Peer
<1>2. ServerSide(r, v)'
  BY <1>1, ServerUntouched DEF OnJourney, Keeps
<1>3. CASE Reads("client")
  <2>1. /\ p # << >> /\ plan'["client"] = Tail(p) /\ p[1].do \in {"read", "expect"}
        /\ UNCHANGED <<status, lost>>
    BY <1>3 DEF Reads, TakesOne, Others
  <2>2. ASSUME Linked PROVE ClientSide(v, Tail(t))'
    <3>1. ClientSide(v, t)
      BY <2>2 DEF OnJourney
    <3>2. Head(p) = p[1]
      BY <2>1, <3>1, TailFields DEF ClientSide, ClientPath
    <3>3. /\ ClientPath(asked, Tail(t), Tail(p)) /\ Goes(asked, t[1], p[1], t[2])
          /\ Tail(t)[1] = t[2] /\ Tail(t)[Len(Tail(t))] = Home
      BY <2>1, <3>1, <3>2, ClientPathTail DEF ClientSide
    <3>4. t[2] = t[1]
      BY <2>1, <3>3 DEF Goes
    <3>5. Home' = Home
      BY <1>1, HomeStays
    <3>6. QED  BY <1>1, <2>1, <3>1, <3>3, <3>4, <3>5 DEF ClientSide
  <2>3. Linked' => Linked
    BY <2>1 DEF Linked
  <2>4. QED  BY <1>2, <2>2, <2>3 DEF OnJourney
<1>4. CASE Drops("client")
  <2>1. plan'["client"] = p /\ UNCHANGED <<status, lost>>
    BY <1>4 DEF Drops, TakesOne, Others
  <2>2. Linked => ClientSide(v, t)
    BY DEF OnJourney
  <2>3. Linked' => Linked
    BY <2>1 DEF Linked
  <2>4. Linked' => ClientSide(v, t)'
    BY <1>1, <2>1, <2>2, <2>3, ClientUntouched, WithinItself
  <2>5. QED  BY <1>2, <2>4 DEF OnJourney
<1>5. CASE \E why : Fails("client", why)
  <2>1. ~Linked'
    BY <1>5 DEF Fails, Linked
  <2>2. QED  BY <1>2, <2>1 DEF OnJourney
<1>6. QED  BY <1>3, <1>4, <1>5

\* Messages that leave the server where it is, in front of what is left.
LEMMA PublishPath ==
    ASSUME NEW asks, NEW t, NEW p, ClientPath(asks, t, p), NEW n \in Nat, NEW step,
           Goes(asks, t[1], step, t[1]), ~Awaits(step)
    PROVE  LET q == [k \in 1..n |-> step]
               s == [k \in 1..n |-> t[1]] \o t
           IN  ClientPath(asks, s, q \o p) /\ s[1] = t[1] /\ s[Len(s)] = t[Len(t)]
<1> DEFINE q == [k \in 1..n |-> step]
           u == [k \in 1..n |-> t[1]]
           s == u \o t
           c == q \o p
           l == Len(p)
<1>1. /\ ASeq(q) /\ Len(q) = n /\ \A k \in 1..n : q[k] = step
      /\ ASeq(u) /\ Len(u) = n /\ \A k \in 1..n : u[k] = t[1]
  <2>1. DOMAIN q = 1..n /\ DOMAIN u = 1..n
    OBVIOUS
  <2>2. q = [k \in DOMAIN q |-> q[k]] /\ u = [k \in DOMAIN u |-> u[k]]
    OBVIOUS
  <2>3. ASeq(q) /\ Len(q) = n /\ ASeq(u) /\ Len(u) = n
    BY <2>1, <2>2, FunctionIsASeq
  <2>4. QED  BY <2>3
<1>2. /\ ASeq(p) /\ l \in Nat /\ ASeq(t) /\ Len(t) = l + 1 /\ \A k \in 1..(l + 1) : t[k] \in Views
  BY DEF ClientPath, Path, ASeq
<1> HIDE DEF q, u, l
<1>3. /\ ASeq(c) /\ Len(c) = n + l /\ \A k \in 1..n : c[k] = step
      /\ \A k \in 1..l : c[n + k] = p[k]
  BY <1>1, <1>2, ConcatASeq DEF l
<1>4. /\ ASeq(s) /\ Len(s) = n + l + 1 /\ \A k \in 1..n : s[k] = t[1]
      /\ \A k \in 1..(l + 1) : s[n + k] = t[k]
  <2>1. /\ ASeq(s) /\ Len(s) = n + (l + 1) /\ \A k \in 1..n : s[k] = u[k]
        /\ \A k \in 1..(l + 1) : s[n + k] = t[k]
    BY <1>1, <1>2, ConcatASeq
  <2>2. QED  BY <1>1, <1>2, <2>1
<1> HIDE DEF s, c
<1>5. /\ \A k \in 1..l : Goes(asks, t[k], p[k], t[k + 1])
      /\ \A j, k \in 1..(l + 1) : j < k => Rank(t[j]) <= Rank(t[k])
      /\ \A j, k \in 1..l : j < k /\ Awaits(p[j]) /\ Awaits(p[k]) => Rank(t[j]) < Rank(t[k])
  BY <1>2 DEF ClientPath, l
<1>6. 1 \in 1..(l + 1) /\ s[n + 1] = t[1]
  BY <1>2, <1>4
\* Where k is: in front, or at the place j of what was there.
<1>7. \A k \in 1..(n + l + 1) : k \in 1..n \/ (k - n \in 1..(l + 1) /\ n + (k - n) = k)
  BY <1>2
<1>8. \A k \in 1..(n + l + 1) : \E i \in 1..(l + 1) :
        s[k] = t[i] /\ (k \in 1..n => i = 1) /\ (k \notin 1..n => i = k - n)
  <2> SUFFICES ASSUME NEW k \in 1..(n + l + 1)
               PROVE  \E i \in 1..(l + 1) :
                        s[k] = t[i] /\ (k \in 1..n => i = 1) /\ (k \notin 1..n => i = k - n)
    OBVIOUS
  <2>1. CASE k \in 1..n
    BY <1>4, <1>6, <2>1
  <2>2. CASE k \notin 1..n
    <3>1. k - n \in 1..(l + 1) /\ n + (k - n) = k
      BY <1>7, <2>2
    <3>2. s[n + (k - n)] = t[k - n]
      BY <1>4, <3>1
    <3>3. QED  BY <2>2, <3>1, <3>2
  <2>3. QED  BY <2>1, <2>2
<1>9. \A k \in 1..Len(s) : s[k] \in Views
  BY <1>2, <1>4, <1>8
<1>10. ASSUME NEW k \in 1..(n + l) PROVE Goes(asks, s[k], c[k], s[k + 1])
  <2>1. CASE k \in 1..n
    <3>1. s[k + 1] = t[1]
      <4>1. CASE k + 1 \in 1..n
        BY <1>4, <4>1
      <4>2. CASE k + 1 = n + 1
        BY <1>6, <4>2
      <4>3. QED  BY <2>1, <4>1, <4>2
    <3>2. s[k] = t[1] /\ c[k] = step
      BY <1>3, <1>4, <2>1
    <3>3. QED  BY <3>1, <3>2
  <2>2. CASE k \notin 1..n
    <3>1. /\ k - n \in 1..l /\ k - n \in 1..(l + 1) /\ (k - n) + 1 \in 1..(l + 1)
          /\ n + (k - n) = k /\ n + ((k - n) + 1) = k + 1
      BY <1>2, <2>2
    <3>2. s[n + (k - n)] = t[k - n] /\ s[n + ((k - n) + 1)] = t[(k - n) + 1] /\ c[n + (k - n)] = p[k - n]
      BY <1>3, <1>4, <3>1
    <3>3. s[k] = t[k - n] /\ s[k + 1] = t[(k - n) + 1] /\ c[k] = p[k - n]
      BY <3>1, <3>2
    <3>4. QED  BY <1>5, <3>1, <3>3
  <2>3. QED  BY <2>1, <2>2
<1>11. ASSUME NEW j \in 1..(n + l + 1), NEW k \in 1..(n + l + 1), j < k
       PROVE  Rank(s[j]) <= Rank(s[k])
  <2>1. PICK i \in 1..(l + 1) : s[j] = t[i] /\ (j \in 1..n => i = 1) /\ (j \notin 1..n => i = j - n)
    BY <1>8
  <2>2. PICK h \in 1..(l + 1) : s[k] = t[h] /\ (k \in 1..n => h = 1) /\ (k \notin 1..n => h = k - n)
    BY <1>8
  <2>3. i < h \/ i = h
    <3>1. CASE j \in 1..n
      BY <1>2, <2>1, <2>2, <3>1
    <3>2. CASE j \notin 1..n
      BY <1>2, <1>11, <2>1, <2>2, <3>2
    <3>3. QED  BY <3>1, <3>2
  <2>4. CASE i < h
    BY <1>5, <2>1, <2>2, <2>4
  <2>5. CASE i = h
    <3>1. Rank(t[i]) \in Int
      BY <1>2, RankIsInt
    <3>2. QED  BY <2>1, <2>2, <2>5, <3>1
  <2>6. QED  BY <2>3, <2>4, <2>5
<1>12. ASSUME NEW j \in 1..(n + l), NEW k \in 1..(n + l), j < k, Awaits(c[j]), Awaits(c[k])
       PROVE  Rank(s[j]) < Rank(s[k])
  <2>1. j \notin 1..n /\ k \notin 1..n
    BY <1>3, <1>12
  <2>2. /\ j - n \in 1..l /\ j - n \in 1..(l + 1) /\ n + (j - n) = j
        /\ k - n \in 1..l /\ k - n \in 1..(l + 1) /\ n + (k - n) = k /\ j - n < k - n
    BY <1>2, <1>12, <2>1
  <2>3. /\ s[n + (j - n)] = t[j - n] /\ c[n + (j - n)] = p[j - n]
        /\ s[n + (k - n)] = t[k - n] /\ c[n + (k - n)] = p[k - n]
    BY <1>3, <1>4, <2>2
  <2>4. s[j] = t[j - n] /\ c[j] = p[j - n] /\ s[k] = t[k - n] /\ c[k] = p[k - n]
    BY <2>2, <2>3
  <2>5. QED  BY <1>5, <1>12, <2>2, <2>4
<1>13. ClientPath(asks, s, c)
  <2>1. Path(s, Len(c))
    BY <1>3, <1>4, <1>9 DEF Path
  <2>2. QED  BY <1>3, <1>4, <1>10, <1>11, <1>12, <2>1 DEF ClientPath
<1>14. s[1] = t[1] /\ s[Len(s)] = t[Len(t)]
  <2>1. s[1] = t[1]
    <3>1. CASE 1 \in 1..n
      BY <1>4, <3>1
    <3>2. CASE n = 0
      BY <1>6, <3>2
    <3>3. QED  BY <3>1, <3>2
  <2>2. l + 1 \in 1..(l + 1) /\ n + (l + 1) = n + l + 1
    BY <1>2
  <2>3. s[n + (l + 1)] = t[l + 1]
    BY <1>4, <2>2
  <2>4. QED  BY <1>2, <1>4, <2>1, <2>2, <2>3
<1>15. QED  BY <1>13, <1>14 DEF q, u, s, c

------------------------------------------------------------------------------
LEMMA ClientPublishesOn ==
    ASSUME IInv, JourneyInv, NEW r, NEW v, NEW t, OnJourney(r, v, t), NEW n \in Nat, Publishes(n)
    PROVE  \E t2 : OnJourney(r, v, t2)'
<1> DEFINE p == plan["client"]
           step == Send("publishing")
           q == [k \in 1..n |-> step]
           s == [k \in 1..n |-> t[2]] \o Tail(t)
<1>1. /\ p # << >> /\ plan'["client"] = q \o Tail(p) /\ plan'["server"] = plan["server"]
      /\ p[1].do = "publishing" /\ UNCHANGED <<wire, received, status, lost, asked, served, phase>>
  BY DEF Publishes, Plans, Others, Peer
<1>2. ServerSide(r, v)'
  BY <1>1, ServerUntouched DEF OnJourney, Keeps
<1>3. ASSUME Linked PROVE ClientSide(v, s)'
  <2>1. ClientSide(v, t)
    BY <1>3 DEF OnJourney
  <2>2. Head(p) = p[1]
    BY <1>1, <2>1, TailFields DEF ClientSide, ClientPath
  <2>3. /\ ClientPath(asked, Tail(t), Tail(p)) /\ Goes(asked, t[1], p[1], t[2])
        /\ Tail(t)[1] = t[2] /\ Tail(t)[Len(Tail(t))] = Home
    BY <1>1, <2>1, <2>2, ClientPathTail DEF ClientSide
  <2>4. t[1].at = "check4" /\ t[2] = t[1]
    BY <1>1, <2>3 DEF Goes, Awaits
  <2>5. step.do = "send" /\ step.command = "publishing"
    BY DEF Send, Request
  <2> HIDE DEF step
  <2>6. Goes(asked, t[2], step, t[2]) /\ ~Awaits(step)
    BY <2>4, <2>5 DEF Goes, Awaits, Moves, Idle
  <2>7. ClientPath(asked, s, q \o Tail(p)) /\ s[1] = t[2] /\ s[Len(s)] = Home
    <3> DEFINE u == Tail(t)
               o == Tail(p)
    <3>1. ClientPath(asked, u, o) /\ Goes(asked, u[1], step, u[1]) /\ ~Awaits(step)
      BY <2>3, <2>6
    <3> HIDE DEF u, o
    <3>2. LET w == [k \in 1..n |-> u[1]] \o u
          IN  ClientPath(asked, w, q \o o) /\ w[1] = u[1] /\ w[Len(w)] = u[Len(u)]
      BY <3>1, PublishPath
    <3>3. u[1] = t[2] /\ u[Len(u)] = Home
      BY <2>3 DEF u
    <3>4. QED  BY <3>2, <3>3 DEF u, o
  <2>8. Home' = Home
    BY <1>1, HomeStays
  <2> HIDE DEF s
  <2>9. QED  BY <1>1, <2>1, <2>4, <2>7, <2>8 DEF ClientSide
<1>4. Linked' => Linked
  BY <1>1 DEF Linked
<1>5. QED  BY <1>2, <1>3, <1>4 DEF OnJourney

\* A call takes the server on from where the call before left it.
LEMMA CallGoesOn ==
    ASSUME IInv, JourneyInv, NEW r, NEW v, NEW t, OnJourney(r, v, t), NEW p, Calls(p),
           Keeps(asked, asked'), NEW b, Linked => ClientRoute(asked', Home, p, Home', b)
    PROVE  \E t2 : OnJourney(r, v, t2)'
<1>1. /\ plan["client"] = << >> /\ plan'["client"] = p /\ plan'["server"] = plan["server"]
      /\ UNCHANGED <<wire, received, status, lost, served>>
  BY DEF Calls, Plans, Peer
<1>2. ServerSide(r, v)'
  BY <1>1, ServerUntouched DEF OnJourney
<1>3. ASSUME Linked PROVE \E t2 : ClientSide(v, t2)'
  <2>1. ClientSide(v, t)
    BY <1>3 DEF OnJourney
  <2>2. Len(t) = 1
    <3>1. Path(t, Len(plan["client"])) /\ Len(plan["client"]) = 0
      BY <1>1, <2>1, EmptyASeq DEF ClientSide, ClientPath
    <3>2. QED  BY <3>1 DEF Path
  <2>3. t[1] = Home /\ t[1] = v[Len(v)] /\ \A k \in 1..Len(v) : Rank(v[k]) <= Rank(t[1])
    BY <2>1, <2>2 DEF ClientSide
  <2>4. PICK u : ClientPath(asked', u, p) /\ u[1] = Home /\ u[Len(u)] = Home'
    BY <1>3 DEF ClientRoute
  <2>5. ClientSide(v, u)'
    BY <1>1, <2>3, <2>4 DEF ClientSide
  <2>6. QED  BY <2>5
<1>4. Linked' => Linked
  BY <1>1 DEF Linked
<1>5. PICK t2 : Linked => ClientSide(v, t2)'
  BY <1>3
<1>6. OnJourney(r, v, t2)'
  BY <1>2, <1>4, <1>5 DEF OnJourney
<1>7. QED  BY <1>6

LEMMA UserCalls ==
    ASSUME IInv, Tables, UserStep
    PROVE  Tables' /\ (called => called') /\ \E p : Calls(p) /\ MakesCall(p)
<1>1. CASE Handshake
  <2>1. PICK version \in Versions : Call(ClientHandshake(version), "handshaken")
    BY <1>1 DEF Handshake
  <2>2. Tables' /\ Calls(ClientHandshake(version)) /\ phase' = "handshaken"
    BY <2>1, CallFields
  <2>3. QED  BY <1>1, <2>2 DEF Handshake, MakesCall, Prepares
<1>2. CASE Connect
  <2>1. CASE Call(ConnectApp("live"), "connected")
    <3>1. Tables' /\ Calls(ConnectApp("live")) /\ phase' = "connected"
      BY <2>1, CallFields
    <3>2. QED  BY <1>2, <3>1 DEF Connect, MakesCall, Prepares
  <2>2. CASE Call(ConnectApp("check"), "check")
    <3>1. Tables' /\ Calls(ConnectApp("check")) /\ phase' = "check"
      BY <2>2, CallFields
    <3>2. QED  BY <1>2, <3>1 DEF Connect, MakesCall, Prepares
  <2>3. QED  BY <1>2, <2>1, <2>2 DEF Connect
<1>3. CASE CheckBandwidth
  <2>1. Tables' /\ Calls(BandwidthCheck) /\ phase' = "checked"
    BY <1>3, CallFields DEF CheckBandwidth
  <2>2. QED  BY <1>3, <2>1 DEF CheckBandwidth, MakesCall, Prepares
<1>4. CASE UserCall
  <2>1. Tables' /\ Calls(<<Request("call", 9, "")>>) /\ phase' = "connected"
    BY <1>4, CallFields DEF UserCall
  <2>2. QED  BY <1>4, <2>1 DEF UserCall, MakesCall, Prepares
<1>5. CASE AskToUnpublish
  <2>1. Tables' /\ Calls(<<Request("FCUnpublish", UnpublishTid, "")>>) /\ phase' = "connected"
    BY <1>5, CallFields DEF AskToUnpublish
  <2>2. QED  BY <1>5, <2>1 DEF AskToUnpublish, MakesCall, Prepares
<1>6. CASE \E name \in StreamNames : AskToPlay(name) \/ AskToPublish(name) \/ AskToFmlePublish(name)
  <2>1. PICK name \in StreamNames : AskToPlay(name) \/ AskToPublish(name) \/ AskToFmlePublish(name)
    BY <1>6
  <2>2. CASE AskToPlay(name)
    <3> DEFINE p == CreateStream \o Play(name)
    <3>1. /\ Call(p, "play") /\ phase = "connected"
          /\ asked' = Append(asked, [kind |-> "play", name |-> name]) /\ UNCHANGED called
      BY <2>2 DEF AskToPlay, Ask
    <3> HIDE DEF p
    <3>2. Tables' /\ Calls(p) /\ phase' = "play"
      BY <3>1, CallFields
    <3>3. AsksFor(p, phase', name) /\ MakesCall(p)
      BY <3>1, <3>2 DEF MakesCall, AsksFor, p
    <3>4. QED  BY <3>1, <3>2, <3>3
  <2>3. CASE AskToPublish(name)
    <3> DEFINE p == CreateStream \o Publish(name)
    <3>1. /\ Call(p, "flash") /\ phase = "connected"
          /\ asked' = Append(asked, [kind |-> "flash", name |-> name]) /\ UNCHANGED called
      BY <2>3 DEF AskToPublish, Ask
    <3> HIDE DEF p
    <3>2. Tables' /\ Calls(p) /\ phase' = "flash"
      BY <3>1, CallFields
    <3>3. AsksFor(p, phase', name) /\ MakesCall(p)
      BY <3>1, <3>2 DEF MakesCall, AsksFor, p
    <3>4. QED  BY <3>1, <3>2, <3>3
  <2>4. CASE AskToFmlePublish(name)
    <3> DEFINE p == FmlePublish(name)
    <3>1. /\ Call(p, "fmle") /\ phase = "connected"
          /\ asked' = Append(asked, [kind |-> "fmle", name |-> name]) /\ UNCHANGED called
      BY <2>4 DEF AskToFmlePublish, Ask
    <3> HIDE DEF p
    <3>2. Tables' /\ Calls(p) /\ phase' = "fmle"
      BY <3>1, CallFields
    <3>3. AsksFor(p, phase', name) /\ MakesCall(p)
      BY <3>1, <3>2 DEF MakesCall, AsksFor, p
    <3>4. QED  BY <3>1, <3>2, <3>3
  <2>5. QED  BY <2>1, <2>2, <2>3, <2>4
<1>7. QED  BY <1>1, <1>2, <1>3, <1>4, <1>5, <1>6 DEF UserStep

LEMMA UserGoesOn ==
    ASSUME IInv, JourneyInv, UserStep
    PROVE  JourneyInv'
<1>1. Tables /\ History /\ FailedStops
  BY DEF JourneyInv
<1>2. PICK r, v, t : OnJourney(r, v, t)
  BY DEF JourneyInv
<1>3. Tables'
  BY <1>1, UserCalls
<1>4. PICK p : Calls(p) /\ MakesCall(p)
  BY <1>1, UserCalls
<1>5. ASeq(asked) /\ ASeq(served) /\ served' = served /\ Len(asked) \in Nat /\ Len(<< >>) = 0
  BY <1>1, <1>4, EmptyASeq DEF History, Calls, ASeq
<1>6. History' /\ Keeps(asked, asked') /\ \E b : ClientRoute(asked', Home, p, Home', b)
  <2>1. ASSUME UNCHANGED asked PROVE Keeps(asked, asked')
    BY <2>1 DEF Keeps
  <2>2. CASE UNCHANGED asked /\ phase = "new" /\ phase' = "handshaken" /\ \E version : p = ClientHandshake(version)
    <3>1. Home = At("c0c1", 0) /\ Home' = At("connect", 0)
      BY <2>2 DEF Home
    <3>2. History'
      BY <1>1, <1>5, <2>2 DEF History, Phases
    <3>3. QED  BY <2>1, <2>2, <3>1, <3>2, ClientHandshakeRoute
  <2>3. CASE UNCHANGED asked /\ phase = "handshaken" /\ phase' = "connected" /\ p = ConnectApp("live")
    <3>1. asked = << >> /\ History'
      BY <1>1, <1>5, <2>3 DEF History, Phases
    <3>2. Home = At("connect", 0) /\ Home' = At("identify", 0)
      BY <1>5, <2>3, <3>1 DEF Home
    <3>3. QED  BY <2>1, <2>3, <3>1, <3>2, ConnectLiveRoute
  <2>4. CASE UNCHANGED asked /\ phase = "handshaken" /\ phase' = "check" /\ p = ConnectApp("check")
    <3>1. History'
      BY <1>1, <1>5, <2>4 DEF History, Phases
    <3>2. Home = At("connect", 0) /\ Home' = At("check1", 0)
      BY <2>4 DEF Home
    <3>3. QED  BY <2>1, <2>4, <3>1, <3>2, ConnectCheckRoute
  <2>5. CASE UNCHANGED asked /\ phase = "check" /\ phase' = "checked" /\ p = BandwidthCheck
    <3>1. History'
      BY <1>1, <1>5, <2>5 DEF History, Phases
    <3>2. Home = At("check1", 0) /\ Home' = At("checked", 0)
      BY <2>5 DEF Home
    <3>3. QED  BY <2>1, <2>5, <3>1, <3>2, BandwidthCheckRoute
  <2>6. CASE UNCHANGED asked /\ phase = "connected" /\ phase' = "connected" /\ p = <<Request("call", 9, "")>>
    <3>1. History'
      BY <1>1, <1>5, <2>6 DEF History, Phases
    <3>2. Home = At("identify", Len(asked)) /\ Home' = At("identify", Len(asked))
      BY <2>6 DEF Home
    <3>3. QED  BY <1>5, <2>1, <2>6, <3>1, <3>2, UserCallRoute
  <2>7. CASE UNCHANGED asked /\ phase = "fmle" /\ phase' = "connected"
             /\ p = <<Request("FCUnpublish", UnpublishTid, "")>>
    <3>1. History'
      BY <1>1, <1>5, <2>7 DEF History, Phases
    <3>2. Home = At("media", Len(asked)) /\ Home' = At("identify", Len(asked))
      BY <2>7 DEF Home
    <3>3. QED  BY <1>5, <2>1, <2>7, <3>1, <3>2, AskToUnpublishRoute
  <2>8. CASE /\ phase = "connected"
             /\ \E name \in StreamNames :
                  asked' = Append(asked, [kind |-> phase', name |-> name]) /\ AsksFor(p, phase', name)
    <3>1. PICK name \in StreamNames :
            asked' = Append(asked, [kind |-> phase', name |-> name]) /\ AsksFor(p, phase', name)
      BY <2>8
    <3> DEFINE n == Len(asked)
    <3>2. /\ ASeq(asked') /\ n \in Nat /\ Len(asked') = n + 1 /\ Asked(asked', n + 1, phase', name)
          /\ Keeps(asked, asked')
      BY <1>5, <3>1, AskedMore DEF Keeps
    <3>3. History'
      BY <1>5, <3>1, <3>2 DEF History, Phases, AsksFor
    <3>4. Home = At("identify", n) /\ Home' = At("media", n + 1)
      BY <2>8, <3>1, <3>2 DEF Home, AsksFor
    <3> HIDE DEF n
    <3>5. \E b : ClientRoute(asked', At("identify", n), p, At("media", n + 1), b)
      BY <3>1, <3>2, AskToPlayRoute, AskToPublishRoute, AskToFmlePublishRoute DEF AsksFor
    <3>6. QED  BY <3>2, <3>3, <3>4, <3>5
  <2>9. QED  BY <1>4, <2>2, <2>3, <2>4, <2>5, <2>6, <2>7, <2>8 DEF MakesCall, Prepares
<1>7. PICK b : ClientRoute(asked', Home, p, Home', b)
  BY <1>6
<1>8. \E t2 : OnJourney(r, v, t2)'
  BY <1>2, <1>4, <1>6, <1>7, CallGoesOn
<1>9. FailedStops'
  BY <1>1, <1>4 DEF FailedStops, Calls, Plans, Endpoints, Peer
<1>10. QED  BY <1>3, <1>6, <1>8, <1>9 DEF JourneyInv

LEMMA ConnectionLost ==
    ASSUME IInv, JourneyInv, NEW r, NEW v, NEW t, OnJourney(r, v, t), Lose
    PROVE  \E v2 : OnJourney(r, v2, t)'
<1> DEFINE v2 == <<r[1]>>
<1>1. /\ wire'["server"] = << >> /\ UNCHANGED <<plan, received, asked, served>> /\ ~Linked'
  BY DEF Lose, Endpoints, Linked
<1>2. ServerPath(asked, Len(served), r, plan["server"]) /\ r[1] \in Views
  <2>1. ServerPath(asked, Len(served), r, plan["server"])
    BY DEF OnJourney, ServerSide
  <2>2. 1 \in 1..Len(r)
    BY <2>1 DEF ServerPath, Path, ASeq
  <2>3. QED  BY <2>1, <2>2 DEF ServerPath, Path
<1>3. Path(v2, 0) /\ v2[1] = r[1] /\ Len(v2) = 1
  BY <1>2, OnePath
<1> HIDE DEF v2
<1>4. WirePath(asked, v2, << >>)
  BY <1>3, EmptyASeq DEF WirePath
<1>5. ServerSide(r, v2)'
  BY <1>1, <1>2, <1>3, <1>4 DEF ServerSide, OnJourney
<1>6. OnJourney(r, v2, t)'
  BY <1>1, <1>5 DEF OnJourney
<1>7. QED  BY <1>6

------------------------------------------------------------------------------
\* A step of the server alone: what the client still says leads where it led before.
LEMMA ServerGoesOn ==
    ASSUME JourneyInv, NEW r, NEW v, NEW t, OnJourney(r, v, t),
           plan'["client"] = plan["client"], status'["client"] = status["client"],
           UNCHANGED <<phase, asked, lost>>,
           \E r2, v2 : ServerSide(r2, v2)' /\ Within(v2, v)
    PROVE  \E r2, v2, t2 : OnJourney(r2, v2, t2)'
<1>1. PICK r2, v2 : ServerSide(r2, v2)' /\ Within(v2, v)
  OBVIOUS
<1>2. (Linked => ClientSide(v, t)) /\ (Linked' => Linked)
  BY DEF OnJourney, Linked
<1>3. Linked' => ClientSide(v2, t)'
  BY <1>1, <1>2, ClientUntouched
<1>4. OnJourney(r2, v2, t)'
  BY <1>1, <1>3 DEF OnJourney
<1>5. QED  BY <1>4

LEMMA EventKeepsHistory ==
    ASSUME JourneyInv, Event, ~UserStep
    PROVE  History' /\ FailedStops' /\ UNCHANGED <<asked, phase>>
<1>1. /\ ASeq(asked) /\ ASeq(served) /\ phase \in Phases
      /\ phase \in {"new", "handshaken", "check", "checked"} => asked = << >>
  BY DEF JourneyInv, History
<1>2. UNCHANGED <<asked, phase>>
  BY DEF Event, Writes, Fails, Reads, Drops, TakesOne, Identifies, Publishes, Decides, Serves,
         Unpublishes, Lose, Others
<1>3. ASeq(served')
  <2>1. CASE Serves
    BY <1>1, <2>1, AppendASeq DEF Serves
  <2>2. CASE ~Serves
    <3>1. served' = served
      BY <2>2 DEF Event, Writes, Fails, Reads, Drops, TakesOne, Identifies, Publishes, Decides,
                  Unpublishes, Lose, Others
    <3>2. QED  BY <1>1, <3>1
  <2>3. QED  BY <2>1, <2>2
<1>4. ASSUME NEW e \in Endpoints, status'[e] # "open" PROVE plan'[e] = << >>
  <2>1. CASE \E f \in Endpoints : \E why : Fails(f, why)
    <3>1. PICK f \in Endpoints : \E why : Fails(f, why)
      BY <2>1
    <3>2. CASE e = f
      BY <3>1, <3>2 DEF Fails
    <3>3. CASE e # f
      <4>1. e = Peer(f)
        BY <3>3 DEF Peer, Endpoints
      <4>2. status'[e] = status[e] /\ plan'[e] = plan[e]
        BY <3>1, <4>1 DEF Fails
      <4>3. QED  BY <1>4, <4>2 DEF JourneyInv, FailedStops
    <3>4. QED  BY <3>2, <3>3
  <2>2. CASE ~\E f \in Endpoints : \E why : Fails(f, why)
    <3>1. status'[e] = status[e]
      BY <2>2 DEF Event, Writes, Reads, Drops, TakesOne, Identifies, Publishes, Decides, Serves,
                  Unpublishes, Lose, Others, Plans
    <3>2. plan[e] = << >>
      BY <1>4, <3>1 DEF JourneyInv, FailedStops
    <3>3. \A f \in Endpoints : e = f \/ (e = Peer(f) /\ f = Peer(e))
      BY DEF Endpoints, Peer
    <3>4. CASE \E f \in Endpoints : (\E m : Writes(f, m)) \/ Reads(f) \/ Drops(f)
      BY <3>2, <3>3, <3>4 DEF Writes, Reads, Drops, TakesOne
    <3>5. CASE (\E p : Identifies(p) \/ Decides(p)) \/ Serves \/ Unpublishes
      <4>1. plan["server"] # << >> /\ plan'["client"] = plan["client"]
        BY <3>5 DEF Identifies, TakesOne, Decides, Serves, Unpublishes, Plans, Peer
      <4>2. QED  BY <3>2, <4>1 DEF Endpoints
    <3>6. CASE \E n \in Nat : Publishes(n)
      <4>1. plan["client"] # << >> /\ plan'["server"] = plan["server"]
        BY <3>6 DEF Publishes, Plans, Peer
      <4>2. QED  BY <3>2, <4>1 DEF Endpoints
    <3>7. CASE Lose
      BY <3>2, <3>7 DEF Lose
    <3>8. QED  BY <2>2, <3>4, <3>5, <3>6, <3>7 DEF Event
  <2>3. QED  BY <2>1, <2>2
<1>5. QED  BY <1>1, <1>2, <1>3, <1>4 DEF History, FailedStops

LEMMA EventGoesOn ==
    ASSUME IInv, JourneyInv, Event, ~UserStep
    PROVE  \E r2, v2, t2 : OnJourney(r2, v2, t2)'
<1>1. PICK r, v, t : OnJourney(r, v, t)
  BY DEF JourneyInv
<1>2. ServerSide(r, v) /\ History
  BY <1>1 DEF OnJourney, JourneyInv
<1>3. UNCHANGED <<asked, phase>>
  BY EventKeepsHistory
<1>4. CASE \E m : Writes("client", m)
  BY <1>1, <1>4, ClientWrites
<1>5. CASE Reads("client") \/ Drops("client") \/ \E why : Fails("client", why)
  BY <1>1, <1>5, ClientReads
<1>6. CASE \E n \in Nat : Publishes(n)
  BY <1>1, <1>6, ClientPublishesOn
<1>7. CASE Lose
  BY <1>1, <1>7, ConnectionLost
<1>8. CASE (\E m : Writes("server", m)) \/ (\E p : Decides(p)) \/ Serves \/ Unpublishes
  <2>1. \E r2 : ServerSide(r2, v)'
    BY <1>2, <1>8, ServerWrites, ServerCalls
  <2>2. \E r2, v2 : ServerSide(r2, v2)' /\ Within(v2, v)
    BY <2>1, WithinItself
  <2>3. /\ plan'["client"] = plan["client"] /\ status'["client"] = status["client"]
        /\ UNCHANGED lost
    BY <1>8 DEF Writes, Decides, Serves, Unpublishes, Plans, Others, Peer
  <2>4. QED  BY <1>1, <1>3, <2>2, <2>3, ServerGoesOn
<1>9. CASE (\E why : Fails("server", why)) \/ Reads("server") \/ Drops("server") \/ \E p : Identifies(p)
  <2>1. \E r2, v2 : ServerSide(r2, v2)' /\ Within(v2, v)
    BY <1>2, <1>9, ServerFails, ServerReads, ServerDrops, ServerIdentifies
  <2>2. /\ plan'["client"] = plan["client"] /\ status'["client"] = status["client"]
        /\ UNCHANGED lost
    BY <1>9 DEF Fails, Reads, Drops, Identifies, TakesOne, Others, Peer
  <2>3. QED  BY <1>1, <1>3, <2>1, <2>2, ServerGoesOn
<1>10. \A e \in Endpoints : e = "client" \/ e = "server"
  BY DEF Endpoints
<1>11. QED  BY <1>4, <1>5, <1>6, <1>7, <1>8, <1>9, <1>10 DEF Event

LEMMA NextJourney == IInv /\ JourneyInv /\ [Next]_vars => JourneyInv'
<1> SUFFICES ASSUME IInv, JourneyInv, [Next]_vars PROVE JourneyInv'
  OBVIOUS
<1>1. CASE UserStep
  BY <1>1, UserGoesOn
<1>2. CASE Next /\ ~UserStep
  <2>1. Event /\ Tables'
    BY <1>2, EveryStep DEF JourneyInv
  <2>2. QED  BY <1>2, <2>1, EventKeepsHistory, EventGoesOn DEF JourneyInv
<1>3. CASE UNCHANGED vars
  BY <1>3 DEF vars, JourneyInv, Tables, History, FailedStops, OnJourney, ServerSide, ClientSide,
              Linked, Home
<1>4. QED  BY <1>1, <1>2, <1>3

\* At every time the messages on the wire lead from where the server's plan is to where the
\* client's plan begins, unless the client failed or the connection was lost.
THEOREM Journeys == Spec => []JourneyInv
<1>1. QED  BY InitJourney, NextJourney, Inductive, PTL DEF Spec

------------------------------------------------------------------------------
(***************************************************************************)
(* The session refines the abstract one.                                   *)
(***************************************************************************)
LEMMA StepRefines ==
    ASSUME IInv, JourneyInv, [Next]_vars
    PROVE  [Abstract!Next]_<<asked, served>>
<1>1. CASE UserStep
  <2>1. Tables
    BY DEF JourneyInv
  <2>2. /\ UNCHANGED served
        /\ \/ UNCHANGED asked
           \/ \E name \in StreamNames : /\ asked' = Append(asked, [kind |-> phase', name |-> name])
                                        /\ phase' \in {"play", "flash", "fmle"}
    BY <1>1, <2>1, UserCalls DEF Calls, MakesCall, AsksFor
  <2>3. CASE \E name \in StreamNames : /\ asked' = Append(asked, [kind |-> phase', name |-> name])
                                       /\ phase' \in {"play", "flash", "fmle"}
    <3>1. PICK name \in StreamNames : /\ asked' = Append(asked, [kind |-> phase', name |-> name])
                                      /\ phase' \in {"play", "flash", "fmle"}
      BY <2>3
    <3>2. [kind |-> phase', name |-> name] \in Abstract!Streams
      BY <3>1 DEF Abstract!Streams
    <3>3. Abstract!Ask
      BY <2>2, <3>1, <3>2 DEF Abstract!Ask
    <3>4. QED  BY <3>3 DEF Abstract!Next
  <2>4. QED  BY <2>2, <2>3
<1>2. CASE Next /\ ~UserStep
  <2>1. Event /\ UNCHANGED asked
    BY <1>2, EveryStep, EventKeepsHistory DEF JourneyInv
  <2>2. CASE Serves
    <3> DEFINE p == plan["server"]
               n == Len(served)
    <3>1. PICK r, v, t : OnJourney(r, v, t)
      BY DEF JourneyInv
    <3>2. p # << >> /\ p[1].do = "serve" /\ served' = Append(served, [kind |-> p[1].kind, name |-> p[1].name])
      BY <2>2 DEF Serves
    <3>3. Takes(asked, n, r[1], p[1], r[2])
      BY <3>1, <3>2, AtServer DEF OnJourney
    <3>4. r[1].done = n + 1 /\ Asked(asked, r[1].done, p[1].kind, p[1].name)
      <4>1. r[1] = At("media", n + 1) /\ Asked(asked, r[1].done, p[1].kind, p[1].name)
        BY <3>2, <3>3 DEF Takes, Awaits
      <4>2. QED  BY <4>1, AtFields
    <3>5. n + 1 \in 1..Len(asked) /\ asked[n + 1] = [kind |-> p[1].kind, name |-> p[1].name]
      BY <3>4 DEF Asked
    <3>6. n < Len(asked)
      <4>1. n \in Nat /\ Len(asked) \in Nat
        BY DEF JourneyInv, History, ASeq
      <4>2. QED  BY <3>5, <4>1
    <3>7. Abstract!Serve
      BY <2>1, <3>2, <3>5, <3>6 DEF Abstract!Serve
    <3>8. QED  BY <3>7 DEF Abstract!Next
  <2>3. CASE ~Serves
    <3>1. served' = served
      BY <1>2, <2>1, <2>3 DEF Event, Writes, Fails, Reads, Drops, TakesOne, Identifies, Publishes,
                              Decides, Unpublishes, Lose, Others
    <3>2. QED  BY <2>1, <3>1
  <2>4. QED  BY <2>2, <2>3
<1>3. CASE UNCHANGED vars
  BY <1>3 DEF vars
<1>4. QED  BY <1>1, <1>2, <1>3

\* The server serves what the client asked for, in order and as the kind of client that asked,
\* though identify_client() has to find that out from the commands as they come.
THEOREM ServesWhatWasAsked == Spec => RefinesSession
<1>1. Init => Abstract!Init
  BY DEF Init, Abstract!Init
<1>2. IInv /\ JourneyInv /\ [Next]_vars => [Abstract!Next]_<<asked, served>>
  BY StepRefines
<1>3. QED  BY <1>1, <1>2, Inductive, Journeys, PTL DEF Spec, RefinesSession, Abstract!Spec

LEMMA ServerTakesOne ==
    ASSUME NEW sw, NEW cw, NEW hand, CreateIsLast(sw, {}, cw), ASeq(sw), sw # << >>,
           hand \subseteq {sw[1].command} \cap OfAStream
    PROVE  /\ CreateIsLast(Tail(sw), hand, cw)
           /\ \A S : Open(Tail(sw), hand, cw, S) => Open(sw, {}, cw, S)
<1> DEFINE tw == Tail(sw)
<1>1. /\ Len(sw) \in Nat /\ 1 \in 1..Len(sw)
      /\ \A k \in 1..Len(tw) : k + 1 \in 1..Len(sw) /\ tw[k] = sw[k + 1] /\ k \in Nat
  BY TailFields
<1> HIDE DEF tw
<1>2. /\ \A j, k \in 1..Len(sw) :
           j < k /\ sw[j].command = "createStream" => sw[k].command \notin OfAStream
      /\ \A j \in 1..Len(cw) : IsResult(cw[j], {"createStream"}) =>
           /\ NoneOnWay(sw)
           /\ \A k \in 1..Len(cw) : j < k => ~IsResult(cw[k], OfAStream)
  BY DEF CreateIsLast
<1>3. ASSUME NEW j \in 1..Len(tw), NEW k \in 1..Len(tw), j < k, tw[j].command = "createStream"
      PROVE  tw[k].command \notin OfAStream
  <2>1. j + 1 < k + 1
    BY <1>1, <1>3
  <2>2. QED  BY <1>1, <1>2, <1>3, <2>1
<1>4. NoneOnWay(sw) => NoneOnWay(tw) /\ hand = {}
  BY <1>1 DEF NoneOnWay
<1>5. ASSUME "createStream" \in hand PROVE NoneOnWay(tw)
  <2> SUFFICES ASSUME NEW k \in 1..Len(tw) PROVE tw[k].command \notin OfAStream
    BY DEF NoneOnWay
  <2>1. 1 < k + 1 /\ k + 1 \in 1..Len(sw)
    BY <1>1
  <2>2. sw[1].command = "createStream"
    BY <1>5
  <2>3. sw[k + 1].command \notin OfAStream
    BY <1>1, <1>2, <2>1, <2>2
  <2>4. QED  BY <1>1, <2>3
<1>6. CreateIsLast(tw, hand, cw)
  BY <1>2, <1>3, <1>4, <1>5 DEF CreateIsLast
<1>7. ASSUME NEW S, Open(tw, hand, cw, S) PROVE Open(sw, {}, cw, S)
  <2>1. CASE \E k \in 1..Len(tw) : tw[k].command \in S
    BY <1>1, <2>1 DEF Open
  <2>2. CASE hand \cap S # {}
    <3>1. sw[1].command \in S
      BY <2>2
    <3>2. QED  BY <1>1, <3>1 DEF Open
  <2>3. CASE \E k \in 1..Len(cw) : IsResult(cw[k], S)
    BY <2>3 DEF Open
  <2>4. QED  BY <1>7, <2>1, <2>2, <2>3 DEF Open
<1>8. QED  BY <1>6, <1>7 DEF tw

LEMMA ServerHandsOver ==
    ASSUME NEW sw, NEW cw, NEW hand, CreateIsLast(sw, hand, cw), ASeq(cw), NEW m,
           IsResult(m, OfAStream) => m.of \in hand
    PROVE  /\ CreateIsLast(sw, {}, Append(cw, m))
           /\ \A S : S \subseteq OfAStream /\ Open(sw, {}, Append(cw, m), S) => Open(sw, hand, cw, S)
<1> DEFINE aw == Append(cw, m)
           n == Len(cw)
<1>1. /\ n \in Nat /\ Len(aw) = n + 1 /\ \A k \in 1..n : aw[k] = cw[k]
      /\ aw[n + 1] = m
  BY AppendASeq DEF ASeq
<1> HIDE DEF aw
<1>2. \A k \in 1..(n + 1) : k \in 1..n \/ k = n + 1
  BY <1>1
<1>3. /\ \A j, k \in 1..Len(sw) :
           j < k /\ sw[j].command = "createStream" => sw[k].command \notin OfAStream
      /\ "createStream" \in hand => NoneOnWay(sw)
      /\ \A j \in 1..n : IsResult(cw[j], {"createStream"}) =>
           /\ hand = {} /\ NoneOnWay(sw)
           /\ \A k \in 1..n : j < k => ~IsResult(cw[k], OfAStream)
  BY DEF CreateIsLast
<1>4. IsResult(m, {"createStream"}) => "createStream" \in hand
  BY DEF IsResult, OfAStream
<1>5. ASSUME NEW j \in 1..(n + 1), IsResult(aw[j], {"createStream"})
      PROVE  NoneOnWay(sw) /\ \A k \in 1..(n + 1) : j < k => ~IsResult(aw[k], OfAStream)
  <2>1. CASE j \in 1..n
    <3>1. /\ hand = {} /\ NoneOnWay(sw)
          /\ \A k \in 1..n : j < k => ~IsResult(cw[k], OfAStream)
      BY <1>1, <1>3, <1>5, <2>1
    <3>2. ~IsResult(m, OfAStream)
      BY <3>1
    <3>3. QED  BY <1>1, <1>2, <3>1, <3>2
  <2>2. CASE j = n + 1
    <3>1. NoneOnWay(sw)
      BY <1>1, <1>3, <1>4, <1>5, <2>2
    <3>2. \A k \in 1..(n + 1) : ~(j < k)
      BY <1>1, <2>2
    <3>3. QED  BY <3>1, <3>2
  <2>3. QED  BY <1>2, <2>1, <2>2
<1>6. CreateIsLast(sw, {}, aw)
  BY <1>1, <1>3, <1>5 DEF CreateIsLast, n
<1>7. ASSUME NEW S, S \subseteq OfAStream, Open(sw, {}, aw, S) PROVE Open(sw, hand, cw, S)
  <2>1. CASE \E k \in 1..Len(sw) : sw[k].command \in S
    BY <2>1 DEF Open
  <2>2. CASE \E k \in 1..Len(aw) : IsResult(aw[k], S)
    <3>1. PICK k \in 1..(n + 1) : IsResult(aw[k], S)
      BY <1>1, <2>2
    <3>2. CASE k \in 1..n
      BY <1>1, <3>1, <3>2 DEF Open
    <3>3. CASE k = n + 1
      <4>1. m.of \in hand /\ m.of \in S
        BY <1>1, <1>7, <3>1, <3>3 DEF IsResult
      <4>2. QED  BY <4>1 DEF Open
    <3>4. QED  BY <1>2, <3>2, <3>3
  <2>3. QED  BY <1>7, <2>1, <2>2 DEF Open
<1>8. QED  BY <1>6, <1>7 DEF aw

LEMMA ClientTakesOne ==
    ASSUME NEW sw, NEW cw, NEW hand, CreateIsLast(sw, hand, cw), ASeq(cw), cw # << >>
    PROVE  /\ CreateIsLast(sw, hand, Tail(cw))
           /\ \A S : Open(sw, hand, Tail(cw), S) => Open(sw, hand, cw, S)
           /\ IsResult(cw[1], {"createStream"}) /\ hand \subseteq OfAStream
                => ~Open(sw, hand, Tail(cw), OfAStream)
<1> DEFINE tw == Tail(cw)
<1>1. /\ Len(cw) \in Nat /\ 1 \in 1..Len(cw)
      /\ \A k \in 1..Len(tw) : k + 1 \in 1..Len(cw) /\ tw[k] = cw[k + 1] /\ k \in Nat
  BY TailFields
<1> HIDE DEF tw
<1>2. ASSUME NEW j \in 1..Len(tw), IsResult(tw[j], {"createStream"})
      PROVE  /\ hand = {} /\ NoneOnWay(sw)
             /\ \A k \in 1..Len(tw) : j < k => ~IsResult(tw[k], OfAStream)
  <2>1. /\ hand = {} /\ NoneOnWay(sw)
        /\ \A k \in 1..Len(cw) : j + 1 < k => ~IsResult(cw[k], OfAStream)
    BY <1>1, <1>2 DEF CreateIsLast
  <2>2. ASSUME NEW k \in 1..Len(tw), j < k PROVE ~IsResult(tw[k], OfAStream)
    <3>1. j + 1 < k + 1 /\ k + 1 \in 1..Len(cw) /\ tw[k] = cw[k + 1]
      BY <1>1, <2>2
    <3>2. QED  BY <2>1, <3>1
  <2>3. QED  BY <2>1, <2>2
<1>3. CreateIsLast(sw, hand, tw)
  BY <1>2 DEF CreateIsLast
<1>4. \A S : Open(sw, hand, tw, S) => Open(sw, hand, cw, S)
  BY <1>1 DEF Open
<1>5. ASSUME IsResult(cw[1], {"createStream"}), hand \subseteq OfAStream
      PROVE  ~Open(sw, hand, tw, OfAStream)
  <2>1. /\ hand = {} /\ NoneOnWay(sw)
        /\ \A k \in 1..Len(cw) : 1 < k => ~IsResult(cw[k], OfAStream)
    BY <1>1, <1>5 DEF CreateIsLast
  <2>2. \A k \in 1..Len(tw) : 1 < k + 1 /\ k + 1 \in 1..Len(cw) /\ tw[k] = cw[k + 1]
    BY <1>1
  <2>3. QED  BY <2>1, <2>2 DEF Open, NoneOnWay
<1>6. QED  BY <1>3, <1>4, <1>5 DEF tw

LEMMA ClientSaysOne ==
    ASSUME NEW sw, NEW cw, NEW hand, CreateIsLast(sw, hand, cw), ASeq(sw), NEW m,
           m.command \in OfAStream => ~Open(sw, hand, cw, {"createStream"})
    PROVE  /\ CreateIsLast(Append(sw, m), hand, cw)
           /\ \A S : m.command \notin S /\ Open(Append(sw, m), hand, cw, S) => Open(sw, hand, cw, S)
<1> DEFINE aw == Append(sw, m)
           n == Len(sw)
<1>1. /\ n \in Nat /\ Len(aw) = n + 1 /\ \A k \in 1..n : aw[k] = sw[k]
      /\ aw[n + 1] = m
  BY AppendASeq DEF ASeq
<1> HIDE DEF aw
<1>2. \A k \in 1..(n + 1) : k \in 1..n \/ k = n + 1
  BY <1>1
<1>3. m.command \in OfAStream =>
        /\ \A k \in 1..n : sw[k].command # "createStream"
        /\ "createStream" \notin hand
        /\ \A k \in 1..Len(cw) : ~IsResult(cw[k], {"createStream"})
  BY DEF Open
<1>4. ASSUME NEW j \in 1..(n + 1), NEW k \in 1..(n + 1), j < k, aw[j].command = "createStream"
      PROVE  aw[k].command \notin OfAStream
  <2>1. j \in 1..n
    BY <1>1, <1>4
  <2>2. CASE k \in 1..n
    BY <1>1, <1>4, <2>1, <2>2 DEF CreateIsLast
  <2>3. CASE k = n + 1
    BY <1>1, <1>3, <1>4, <2>1, <2>3
  <2>4. QED  BY <1>2, <2>2, <2>3
<1>5. NoneOnWay(sw) /\ m.command \notin OfAStream => NoneOnWay(aw)
  BY <1>1, <1>2 DEF NoneOnWay
<1>6. "createStream" \in hand => NoneOnWay(aw)
  BY <1>3, <1>5 DEF CreateIsLast
<1>7. ASSUME NEW j \in 1..Len(cw), IsResult(cw[j], {"createStream"})
      PROVE  /\ hand = {} /\ NoneOnWay(aw)
             /\ \A k \in 1..Len(cw) : j < k => ~IsResult(cw[k], OfAStream)
  BY <1>3, <1>5, <1>7 DEF CreateIsLast
<1>8. CreateIsLast(aw, hand, cw)
  BY <1>1, <1>4, <1>6, <1>7 DEF CreateIsLast
<1>9. ASSUME NEW S, m.command \notin S, Open(aw, hand, cw, S) PROVE Open(sw, hand, cw, S)
  <2>1. CASE \E k \in 1..Len(aw) : aw[k].command \in S
    BY <1>1, <1>2, <1>9, <2>1 DEF Open
  <2>2. CASE hand \cap S # {} \/ \E k \in 1..Len(cw) : IsResult(cw[k], S)
    BY <2>2 DEF Open
  <2>3. QED  BY <1>9, <2>1, <2>2 DEF Open
<1>10. QED  BY <1>8, <1>9 DEF aw

LEMMA HandEmptied ==
    ASSUME NEW sw, NEW cw, NEW hand, CreateIsLast(sw, hand, cw)
    PROVE  /\ CreateIsLast(sw, {}, cw)
           /\ \A S : Open(sw, {}, cw, S) => Open(sw, hand, cw, S)
BY DEF CreateIsLast, Open

LEMMA NothingOpen == CreateIsLast(<< >>, {}, << >>) /\ \A S : ~Open(<< >>, {}, << >>, S)
<1>1. Len(<< >>) = 0
  BY EmptyASeq
<1>2. QED  BY <1>1 DEF CreateIsLast, Open

------------------------------------------------------------------------------
(***************************************************************************)
(* Transaction ids, and the table of requests that knows them.             *)
(***************************************************************************)
LEMMA TidsApart ==
    ASSUME NEW of \in Commands, NEW other \in Commands, NEW tid,
           HasTid(of, tid), HasTid(other, tid)
    PROVE  ResponseTo(of) = ResponseTo(other) \/ (tid = 2 /\ of \in OfAStream /\ other \in OfAStream)
BY SessionAssumption DEF Commands, HasTid, ResponseTo, OfAStream

LEMMA AnswersNoted ==
    ASSUME NEW table, NEW more, NEW c, NEW m, NotedIn(table, more, m), Said(m, c),
           NEW tid, NEW of, Answers(table, c, tid, of),
           m.command \in OfAStream /\ m.tid = 2 => of \notin OfAStream
    PROVE  Answers(more, c, tid, of)
<1>1. CASE m.command \notin Commands
  BY <1>1 DEF NotedIn
<1>2. CASE m.command \in Commands /\ of \notin Commands
  BY <1>2 DEF Answers
<1>3. CASE m.command \in Commands /\ of \in Commands
  <2>1. /\ HasTid(of, tid) /\ tid \in DOMAIN table /\ ResponseTo(table[tid]) = ResponseTo(of)
        /\ HasTid(m.command, m.tid)
    BY <1>3 DEF Answers, Said
  <2>2. /\ tid \in DOMAIN more /\ (tid = m.tid => more[tid] = m.command)
        /\ (tid # m.tid => more[tid] = table[tid])
    BY <1>3, <2>1 DEF NotedIn
  <2>3. tid = m.tid => ResponseTo(m.command) = ResponseTo(of)
    BY <1>3, <2>1, TidsApart
  <2>4. ResponseTo(more[tid]) = ResponseTo(of)
    BY <2>1, <2>2, <2>3
  <2>5. QED  BY <1>3, <2>1, <2>2, <2>4 DEF Answers
<1>4. QED  BY <1>1, <1>2, <1>3

LEMMA SaidIsAnswered ==
    ASSUME NEW table, NEW more, NEW c, NEW m, NotedIn(table, more, m), Said(m, c)
    PROVE  Sent(more, c, m)
BY DEF NotedIn, Said, Sent, Answers

LEMMA SentIsAnswered ==
    ASSUME NEW table, NEW c, NEW m, Sent(table, c, m), m.command \in Commands \cup {"call"}
    PROVE  Answers(table, c, m.tid, m.command)
BY DEF Sent, Said, Answers, Commands

\* An answer is decoded to what it answers; another message is no error.
LEMMA RepliedDecodes ==
    ASSUME NEW m, Replied(requests["client"], called, m)
    PROVE  /\ Decode("client", m) \in Errors => called
           /\ m.command # "c0c1"
           /\ Decode("client", m) = "CreateStreamRes" => IsResult(m, {"createStream"})
<1>1. m.command \notin Errors \cup {"c0c1", "CreateStreamRes"}
  BY DEF Replied
<1>2. CASE m.command # "_result"
  <2>1. Decode("client", m) = PacketOf(m.command)
    BY <1>2 DEF Decode
  <2>2. PacketOf(m.command) \notin Errors \cup {"CreateStreamRes"}
    BY <1>1 DEF PacketOf, Errors
  <2>3. QED  BY <1>1, <2>1, <2>2
<1>3. CASE m.command = "_result"
  <2>1. Answers(requests["client"], called, m.tid, m.of)
    BY <1>3 DEF Replied
  <2>2. Decode("client", m) = "CreateStreamRes" => m.of = "createStream"
    BY <1>3 DEF Decode, ResponseTo, Errors
  <2>3. m.of \in Commands => Decode("client", m) \notin Errors
    <3>1. ASSUME m.of \in Commands PROVE Decode("client", m) = ResponseTo(m.of)
      BY <1>3, <2>1, <3>1 DEF Answers, Decode
    <3>2. m.of \in Commands => ResponseTo(m.of) \notin Errors
      BY DEF Commands, ResponseTo, Errors
    <3>3. QED  BY <3>1, <3>2
  <2>4. m.of \notin Commands => called
    BY <2>1 DEF Answers
  <2>5. QED  BY <1>1, <1>3, <2>2, <2>3, <2>4 DEF IsResult
<1>4. QED  BY <1>2, <1>3

LEMMA SentDecodes ==
    ASSUME NEW table, NEW c, NEW m, Sent(table, c, m)
    PROVE  Decode("server", m) \notin Errors
BY DEF Sent, Said, OfClient, Decode, PacketOf, Errors

------------------------------------------------------------------------------
(***************************************************************************)
(* The client's plans: whoever asks for a stream waits for it, and asks    *)
(* for one stream at a time.                                               *)
(***************************************************************************)
LEMMA ClientAsksMoved ==
    ASSUME NEW p, NEW p2, NEW d \in Int, NEW c, ASeq(p), ASeq(p2), ClientAsks(p, c), Moved(p2, p, d, c)
    PROVE  ClientAsks(p2, c)
<1>1. Len(p) \in Nat /\ Len(p2) \in Nat
  BY DEF ASeq
<1>2. \A k \in 1..Len(p2) : Inert(p2[k], c) \/ (k + d \in 1..Len(p) /\ p2[k] = p[k + d])
  BY DEF Moved
<1>3. ASSUME NEW k \in 1..Len(p2), p2[k].do = "send" PROVE Said(p2[k], c)
  BY <1>2, <1>3 DEF Inert, ClientAsks
<1>4. ASSUME NEW k \in 1..Len(p2), Asks(p2[k], OfAStream)
      PROVE  \E j \in 1..Len(p2) : k < j /\ AwaitsStream(p2[j])
  <2>1. k + d \in 1..Len(p) /\ p2[k] = p[k + d]
    BY <1>2, <1>4 DEF Inert
  <2>2. PICK j \in 1..Len(p) : k + d < j /\ AwaitsStream(p[j])
    BY <1>4, <2>1 DEF ClientAsks
  <2>3. j # 1 /\ k < j - d
    BY <1>1, <2>1, <2>2
  <2>4. j - d \in 1..Len(p2) /\ p2[j - d] = p[j]
    BY <2>3 DEF Moved
  <2>5. QED  BY <2>2, <2>3, <2>4
<1>5. ASSUME NEW j \in 1..Len(p2), NEW k \in 1..Len(p2), j < k
      PROVE  /\ Asks(p2[j], {"createStream"}) => ~Asks(p2[k], OfAStream)
             /\ AwaitsStream(p2[j]) => ~AwaitsStream(p2[k])
             /\ AsksSecond(p2[j]) => ~AsksSecond(p2[k])
  <2>1. CASE Inert(p2[j], c) \/ Inert(p2[k], c)
    BY <2>1 DEF Inert, Asks, AsksSecond, OfAStream
  <2>2. CASE ~(Inert(p2[j], c) \/ Inert(p2[k], c))
    <3>1. /\ j + d \in 1..Len(p) /\ p2[j] = p[j + d] /\ k + d \in 1..Len(p) /\ p2[k] = p[k + d]
          /\ j + d < k + d
      BY <1>1, <1>2, <1>5, <2>2
    <3>2. /\ Asks(p[j + d], {"createStream"}) => ~Asks(p[k + d], OfAStream)
          /\ AwaitsStream(p[j + d]) => ~AwaitsStream(p[k + d])
          /\ AsksSecond(p[j + d]) => ~AsksSecond(p[k + d])
      BY <3>1 DEF ClientAsks
    <3>3. QED  BY <3>1, <3>2
  <2>3. QED  BY <2>1, <2>2
<1>6. QED  BY <1>3, <1>4, <1>5 DEF ClientAsks

LEMMA MovedTail ==
    ASSUME NEW p, NEW c, ASeq(p), p # << >>
    PROVE  ASeq(Tail(p)) /\ Moved(Tail(p), p, 1, c) /\ Onward(Tail(p), p, 1)
<1>1. /\ ASeq(Tail(p)) /\ Len(p) \in Nat /\ Len(Tail(p)) = Len(p) - 1
      /\ \A k \in 1..Len(Tail(p)) : k + 1 \in 1..Len(p) /\ Tail(p)[k] = p[k + 1]
  BY TailFields
<1>2. ASSUME NEW j \in 1..Len(p), j # 1 PROVE j - 1 \in 1..Len(Tail(p)) /\ Tail(p)[j - 1] = p[j]
  <2>1. j - 1 \in 1..Len(Tail(p)) /\ (j - 1) + 1 = j
    BY <1>1, <1>2
  <2>2. Tail(p)[j - 1] = p[(j - 1) + 1]
    BY <1>1, <2>1
  <2>3. QED  BY <2>1, <2>2
<1>3. Moved(Tail(p), p, 1, c)
  BY <1>1, <1>2 DEF Moved
<1>4. Onward(Tail(p), p, 1)
  BY <1>1, <1>2 DEF Onward
<1>5. QED  BY <1>1, <1>3, <1>4

LEMMA MovedPublishing ==
    ASSUME NEW p, NEW c, ASeq(p), p # << >>, NEW n \in Nat, NEW step, Inert(step, c)
    PROVE  /\ ASeq([k \in 1..n |-> step] \o Tail(p))
           /\ Moved([k \in 1..n |-> step] \o Tail(p), p, 1 - n, c)
           /\ ~Awaits(step) /\ step.command = "publishing" => Onward([k \in 1..n |-> step] \o Tail(p), p, 1 - n)
<1> DEFINE q == [k \in 1..n |-> step]
           tp == Tail(p)
           p2 == q \o tp
           l == Len(tp)
<1>1. ASeq(q) /\ Len(q) = n /\ \A k \in 1..n : q[k] = step
  <2>1. DOMAIN q = 1..n /\ q = [k \in DOMAIN q |-> q[k]]
    OBVIOUS
  <2>2. QED  BY <2>1, FunctionIsASeq
<1>2. /\ ASeq(tp) /\ Len(p) \in Nat /\ l = Len(p) - 1 /\ l \in Nat
      /\ \A k \in 1..l : k + 1 \in 1..Len(p) /\ tp[k] = p[k + 1]
  BY TailFields DEF ASeq
<1> HIDE DEF q, tp
<1>3. /\ ASeq(p2) /\ Len(p2) = n + l /\ \A k \in 1..n : p2[k] = q[k]
      /\ \A k \in 1..l : p2[n + k] = tp[k]
  <2>1. ASeq(q) /\ ASeq(tp)
    BY <1>1, <1>2
  <2>2. ASeq(q \o tp) /\ Len(q \o tp) = Len(q) + Len(tp)
    BY <2>1, ConcatASeq
  <2>3. \A k \in 1..Len(q) : (q \o tp)[k] = q[k]
    BY <2>1, ConcatASeq
  <2>4. \A k \in 1..Len(tp) : (q \o tp)[Len(q) + k] = tp[k]
    BY <2>1, ConcatASeq
  <2>5. QED  BY <1>1, <2>2, <2>3, <2>4
<1> HIDE DEF p2, l
<1>4. ASSUME NEW k \in 1..(n + l)
      PROVE  \/ Inert(p2[k], c) /\ p2[k] = step
             \/ k + (1 - n) \in 1..Len(p) /\ p2[k] = p[k + (1 - n)]
  <2>1. CASE k \in 1..n
    BY <1>1, <1>3, <2>1
  <2>2. CASE k \notin 1..n
    <3>1. k - n \in 1..l /\ n + (k - n) = k /\ (k - n) + 1 = k + (1 - n)
      BY <1>2, <2>2
    <3>2. p2[n + (k - n)] = tp[k - n] /\ tp[k - n] = p[(k - n) + 1] /\ (k - n) + 1 \in 1..Len(p)
      BY <1>2, <1>3, <3>1
    <3>3. QED  BY <3>1, <3>2
  <2>3. QED  BY <2>1, <2>2
<1>5. ASSUME NEW j \in 1..Len(p), j # 1
      PROVE  j - (1 - n) \in 1..(n + l) /\ p2[j - (1 - n)] = p[j]
  <2>1. j - 1 \in 1..l /\ (j - 1) + 1 = j /\ n + (j - 1) = j - (1 - n) /\ n + (j - 1) \in 1..(n + l)
    BY <1>2, <1>5
  <2>2. p2[n + (j - 1)] = tp[j - 1] /\ tp[j - 1] = p[(j - 1) + 1]
    BY <1>2, <1>3, <2>1
  <2>3. QED  BY <2>1, <2>2
<1>6. ASeq(p2) /\ Moved(p2, p, 1 - n, c)
  BY <1>3, <1>4, <1>5 DEF Moved
<1>7. (n + l) + (1 - n) = Len(p) /\ n + l \in Nat
  BY <1>2
<1>8. ~Awaits(step) /\ step.command = "publishing" => Onward(p2, p, 1 - n)
  BY <1>3, <1>4, <1>5, <1>7 DEF Onward
<1>9. QED  BY <1>6, <1>8 DEF p2, q, tp

\* A plan of inert steps, and one that asks for a stream at s, behind a step z perhaps,
\* and waits for it at w.
LEMMA InertPlan ==
    ASSUME NEW p, NEW c, \A k \in 1..Len(p) : Inert(p[k], c)
    PROVE  ClientAsks(p, c)
<1>1. \A k \in 1..Len(p) : /\ ~AwaitsStream(p[k]) /\ ~Asks(p[k], OfAStream)
                           /\ (p[k].do = "send" => Said(p[k], c))
  BY DEF Inert
<1>2. \A k \in 1..Len(p) : ~Asks(p[k], {"createStream"}) /\ ~AsksSecond(p[k])
  BY <1>1 DEF Asks, AsksSecond, OfAStream
<1>3. QED  BY <1>1, <1>2 DEF ClientAsks

LEMMA AsksOnce ==
    ASSUME NEW p, NEW c, Len(p) \in Nat, NEW z \in 1..Len(p), NEW s \in 1..Len(p), NEW w \in 1..Len(p),
           z <= s, s < w,
           \A k \in 1..Len(p) : k \notin {z, s, w} => Inert(p[k], c),
           p[s].do = "send" /\ Said(p[s], c) /\ p[s].command = "createStream",
           p[z].do = "send" /\ Said(p[z], c), AwaitsStream(p[w]),
           z # s => p[z].command = "releaseStream" /\ p[s].tid # 2
    PROVE  ClientAsks(p, c)
<1>1. \A k \in 1..Len(p) : AwaitsStream(p[k]) <=> k = w
  BY DEF AwaitsStream, Inert
<1>2. \A k \in 1..Len(p) : Asks(p[k], OfAStream) => k \in {z, s}
  BY DEF Asks, Inert, AwaitsStream
<1>3. \A k \in 1..Len(p) : Asks(p[k], {"createStream"}) => k = s
  BY <1>2 DEF Asks, OfAStream
<1>4. \A k \in 1..Len(p) : AsksSecond(p[k]) => k = z
  BY <1>2 DEF AsksSecond
<1>5. \A k \in 1..Len(p) : p[k].do = "send" => Said(p[k], c)
  BY DEF Inert, AwaitsStream
<1>6. ASSUME NEW k \in 1..Len(p), Asks(p[k], OfAStream)
      PROVE  \E j \in 1..Len(p) : k < j /\ AwaitsStream(p[j])
  <2>1. k < w
    BY <1>2, <1>6
  <2>2. QED  BY <2>1
<1>7. ASSUME NEW j \in 1..Len(p), NEW k \in 1..Len(p), j < k
      PROVE  /\ Asks(p[j], {"createStream"}) => ~Asks(p[k], OfAStream)
             /\ AwaitsStream(p[j]) => ~AwaitsStream(p[k])
             /\ AsksSecond(p[j]) => ~AsksSecond(p[k])
  BY <1>1, <1>2, <1>3, <1>4, <1>7
<1>8. QED  BY <1>5, <1>6, <1>7 DEF ClientAsks

------------------------------------------------------------------------------
LEMMA OpenMore ==
    ASSUME NEW sw, NEW hand, NEW cw, ~Open(sw, hand, cw, OfAStream)
    PROVE  ~Open(sw, hand, cw, {"createStream"})
BY DEF Open, OfAStream, IsResult

LEMMA SettledMoved ==
    ASSUME NEW p, NEW p2, NEW d \in Int, NEW c, Moved(p2, p, d, c), ~AwaitsStream(p[1]),
           NEW sw, NEW hand, NEW cw, NEW sw2, NEW hand2, NEW cw2,
           Fewer(sw2, hand2, cw2, sw, hand, cw), Settled(p, sw, hand, cw)
    PROVE  Settled(p2, sw2, hand2, cw2)
<1>1. /\ Open(sw2, hand2, cw2, OfAStream) => Open(sw, hand, cw, OfAStream)
      /\ Open(sw2, hand2, cw2, {"createStream"}) => Open(sw, hand, cw, {"createStream"})
  BY DEF Fewer, OfAStream
<1>2. \A k \in 1..Len(p2) : Inert(p2[k], c) \/ (k + d \in 1..Len(p) /\ p2[k] = p[k + d])
  BY DEF Moved
<1>3. ASSUME \A k \in 1..Len(p2) : ~AwaitsStream(p2[k])
      PROVE  \A j \in 1..Len(p) : ~AwaitsStream(p[j])
  <2>1. ASSUME NEW j \in 1..Len(p), j # 1 PROVE ~AwaitsStream(p[j])
    <3>1. j - d \in 1..Len(p2) /\ p2[j - d] = p[j]
      BY <2>1 DEF Moved
    <3>2. QED  BY <1>3, <3>1
  <2>2. QED  BY <2>1
<1>4. ASSUME NEW k \in 1..Len(p2), AsksSecond(p2[k])
      PROVE  \E j \in 1..Len(p) : AsksSecond(p[j])
  <2>1. ~Inert(p2[k], c)
    BY <1>4 DEF AsksSecond, Inert
  <2>2. QED  BY <1>2, <1>4, <2>1
<1>5. ASSUME NEW k \in 1..Len(p2), Asks(p2[k], {"createStream"})
      PROVE  \E j \in 1..Len(p) : Asks(p[j], {"createStream"})
  <2>1. ~Inert(p2[k], c)
    BY <1>5 DEF Asks, Inert, OfAStream
  <2>2. QED  BY <1>2, <1>5, <2>1
<1>6. QED  BY <1>1, <1>3, <1>4, <1>5 DEF Settled

LEMMA SettledStays ==
    ASSUME NEW p, NEW sw, NEW hand, NEW cw, NEW sw2, NEW hand2, NEW cw2,
           Fewer(sw2, hand2, cw2, sw, hand, cw), Settled(p, sw, hand, cw)
    PROVE  Settled(p, sw2, hand2, cw2)
<1>1. /\ Open(sw2, hand2, cw2, OfAStream) => Open(sw, hand, cw, OfAStream)
      /\ Open(sw2, hand2, cw2, {"createStream"}) => Open(sw, hand, cw, {"createStream"})
  BY DEF Fewer, OfAStream
<1>2. QED  BY <1>1 DEF Settled

LEMMA NothingOpenSettles ==
    ASSUME NEW p, NEW sw, NEW hand, NEW cw, ~Open(sw, hand, cw, OfAStream)
    PROVE  Settled(p, sw, hand, cw)
BY OpenMore DEF Settled

\* The client asks, or says something else.
LEMMA SettledSays ==
    ASSUME NEW p, NEW c, ASeq(p), p # << >>, ClientAsks(p, c), p[1].do = "send",
           NEW m, m.command = p[1].command, m.tid = p[1].tid,
           NEW sw, NEW hand, NEW cw, NEW sw2, Settled(p, sw, hand, cw),
           \A S : m.command \notin S /\ Open(sw2, hand, cw, S) => Open(sw, hand, cw, S)
    PROVE  Settled(Tail(p), sw2, hand, cw)
<1> DEFINE tp == Tail(p)
<1>1. /\ 1 \in 1..Len(p) /\ Len(p) \in Nat
      /\ \A k \in 1..Len(tp) : k + 1 \in 1..Len(p) /\ tp[k] = p[k + 1] /\ 1 < k + 1
      /\ \A j \in 1..Len(p) : j # 1 => j - 1 \in 1..Len(tp) /\ tp[j - 1] = p[j]
  <2>1. /\ 1 \in 1..Len(p) /\ Len(p) \in Nat
        /\ \A k \in 1..Len(tp) : k + 1 \in 1..Len(p) /\ tp[k] = p[k + 1] /\ k \in Nat
    BY TailFields
  <2>2. \A j \in 1..Len(p) : j # 1 => j - 1 \in 1..Len(tp) /\ tp[j - 1] = p[j]
    BY MovedTail DEF Moved
  <2>3. QED  BY <2>1, <2>2
<1> HIDE DEF tp
<1>2. /\ m.command \in OfAStream => Asks(p[1], OfAStream)
      /\ m.command = "createStream" => Asks(p[1], {"createStream"})
      /\ m.command \in OfAStream /\ m.command # "createStream" => AsksSecond(p[1])
  <2>1. Said(p[1], c)
    BY <1>1 DEF ClientAsks
  <2>2. m.command = "releaseStream" => p[1].tid = 2
    BY <2>1 DEF Said, HasTid, Commands
  <2>3. QED  BY <2>2 DEF Asks, AsksSecond, OfAStream
<1>3. ASSUME \A k \in 1..Len(tp) : ~AwaitsStream(tp[k])
      PROVE  ~Open(sw2, hand, cw, OfAStream)
  <2>1. \A j \in 1..Len(p) : ~AwaitsStream(p[j])
    BY <1>1, <1>3 DEF AwaitsStream
  <2>2. m.command \notin OfAStream
    BY <1>1, <1>2, <2>1 DEF ClientAsks
  <2>3. ~Open(sw, hand, cw, OfAStream)
    BY <2>1 DEF Settled
  <2>4. QED  BY <2>2, <2>3
<1>4. ASSUME NEW k \in 1..Len(tp), AsksSecond(tp[k])
      PROVE  ~Open(sw2, hand, cw, OfAStream)
  <2>1. k + 1 \in 1..Len(p) /\ AsksSecond(p[k + 1]) /\ 1 < k + 1
    BY <1>1, <1>4
  <2>2. Asks(p[k + 1], OfAStream)
    BY <2>1 DEF AsksSecond
  <2>3. ~Asks(p[1], {"createStream"}) /\ ~AsksSecond(p[1])
    BY <1>1, <2>1, <2>2 DEF ClientAsks
  <2>4. m.command \notin OfAStream
    BY <1>2, <2>3
  <2>5. ~Open(sw, hand, cw, OfAStream)
    BY <2>1 DEF Settled
  <2>6. QED  BY <2>4, <2>5
<1>5. ASSUME NEW k \in 1..Len(tp), Asks(tp[k], {"createStream"})
      PROVE  ~Open(sw2, hand, cw, {"createStream"})
  <2>1. k + 1 \in 1..Len(p) /\ Asks(p[k + 1], {"createStream"}) /\ 1 < k + 1
    BY <1>1, <1>5
  <2>2. Asks(p[k + 1], OfAStream)
    BY <2>1 DEF Asks, OfAStream
  <2>3. m.command # "createStream"
    BY <1>1, <1>2, <2>1, <2>2 DEF ClientAsks
  <2>4. ~Open(sw, hand, cw, {"createStream"})
    BY <2>1 DEF Settled
  <2>5. QED  BY <2>3, <2>4
<1>6. QED  BY <1>3, <1>4, <1>5 DEF Settled, tp

\* What was known when the user had not called.
LEMMA MoreCalled ==
    ASSUME NEW table, NEW c, NEW d, c => d
    PROVE  /\ \A m : Sent(table, c, m) => Sent(table, d, m)
           /\ \A m : Replied(table, c, m) => Replied(table, d, m)
BY DEF Sent, Said, Replied, Answers

LEMMA EmptyHand ==
    ASSUME NEW p, NEW m, 1 \in 1..Len(p) => p[1].do \notin {"send", "reply"}
    PROVE  Hand(p, m) = {}
BY DEF Hand

LEMMA SaysOnlyReplies ==
    ASSUME NEW p, NEW R, SaysOnly(p, R), NEW table, NEW c,
           \A tid, of : <<tid, of>> \in R => Answers(table, c, tid, of)
    PROVE  \A k \in 1..Len(p) : p[k].do = "send" => Replied(table, c, p[k])
BY DEF SaysOnly, OfServer, NotOfServer, Results, Replied

\* The first step of a server's plan, and what is left behind it.
LEMMA BehindServer ==
    ASSUME NEW asks, NEW n, NEW r, NEW p, ServerPath(asks, n, r, p), p # << >>
    PROVE  /\ 1 \in 1..Len(p) /\ ASeq(p)
           /\ \A k \in 1..Len(Tail(p)) : k + 1 \in 1..Len(p) /\ Tail(p)[k] = p[k + 1]
           /\ \A k \in 1..Len(p) : k # 1 /\ p[k].do = "send" => ~IsResult(p[k], OfAStream)
           /\ 1 \in 1..Len(Tail(p)) => Succeeds(p[1], Tail(p)[1])
<1>1. /\ ASeq(p) /\ Len(p) \in Nat /\ 1 \in 1..Len(p)
      /\ \A k \in 1..Len(Tail(p)) : k + 1 \in 1..Len(p) /\ Tail(p)[k] = p[k + 1]
  BY TailFields DEF ServerPath
<1>2. \A k \in 2..Len(p) : Succeeds(p[k - 1], p[k])
  BY DEF ServerPath
<1>3. ASSUME NEW k \in 1..Len(p), k # 1 PROVE Succeeds(p[k - 1], p[k])
  BY <1>2, <1>3
<1>4. \A k \in 1..Len(p) : k # 1 /\ p[k].do = "send" => ~IsResult(p[k], OfAStream)
  BY <1>3 DEF Succeeds
<1>5. ASSUME 1 \in 1..Len(Tail(p)) PROVE Succeeds(p[1], Tail(p)[1])
  <2>1. 2 \in 1..Len(p) /\ Tail(p)[1] = p[2]
    <3>1. 1 + 1 \in 1..Len(p) /\ Tail(p)[1] = p[1 + 1] /\ 1 + 1 = 2
      BY <1>1, <1>5
    <3>2. QED  BY <3>1
  <2>2. Succeeds(p[2 - 1], p[2]) /\ 2 - 1 = 1
    BY <1>3, <2>1
  <2>3. QED  BY <2>1, <2>2
<1>6. QED  BY <1>1, <1>4, <1>5

\* Nothing of a stream is answered, or asked for, when none is open.
LEMMA NothingOfAStream ==
    ASSUME NEW p, NEW m, NEW sw, NEW cw, ~Open(sw, Hand(p, m), cw, OfAStream),
           NEW asks, NEW n, NEW r, ServerPath(asks, n, r, p), Received(r, p, m)
    PROVE  /\ \A k \in 1..Len(sw) : sw[k].command \notin OfAStream
           /\ \A k \in 1..Len(cw) : ~IsResult(cw[k], OfAStream)
           /\ \A k \in 1..Len(p) : p[k].do = "send" => ~IsResult(p[k], OfAStream)
           /\ 1 \in 1..Len(p) /\ p[1].do \in {"reply", "decide", "unpublish"} => m.command \notin OfAStream
<1>1. /\ \A k \in 1..Len(sw) : sw[k].command \notin OfAStream
      /\ \A k \in 1..Len(cw) : ~IsResult(cw[k], OfAStream)
      /\ Hand(p, m) = {}
  BY DEF Open, Hand
<1>2. ASSUME NEW k \in 1..Len(p), p[k].do = "send" PROVE ~IsResult(p[k], OfAStream)
  <2>1. CASE k = 1
    BY <1>1, <1>2, <2>1 DEF Hand, IsResult
  <2>2. CASE k # 1
    <3>1. p # << >>
      BY <1>2, EmptyASeq
    <3>2. QED  BY <1>2, <2>2, <3>1, BehindServer
  <2>3. QED  BY <2>1, <2>2
<1>3. 1 \in 1..Len(p) /\ p[1].do = "reply" => m.command \notin OfAStream
  BY <1>1 DEF Hand
<1>4. 1 \in 1..Len(p) /\ p[1].do \in {"decide", "unpublish"} => m.command \notin OfAStream
  BY DEF Received, OfAStream
<1>5. QED  BY <1>1, <1>2, <1>3, <1>4

------------------------------------------------------------------------------
LEMMA InitAnswers == Init => AnswersInv
<1> SUFFICES ASSUME Init PROVE AnswersInv
  OBVIOUS
<1> DEFINE p == ServerHandshake \o <<Expect("ConnectApp"), Step("decide")>>
<1>1. /\ plan["client"] = << >> /\ plan["server"] = p
      /\ wire["client"] = << >> /\ wire["server"] = << >>
      /\ \A e \in Endpoints : status[e] = "open"
  BY DEF Init, Endpoints
<1>2. SaysOnly(p, {}) /\ p[1].do = "read"
  <2>1. SaysOnly(p, {})
    BY HandshakeSays
  <2>2. ServerHandshake = <<Read("c0c1"), Send("s0s1s2"), Read("c2")>>
    BY DEF ServerHandshake
  <2>3. ServerHandshake \in Seq({Read("c0c1"), Send("s0s1s2"), Read("c2")})
            /\ Len(ServerHandshake) = 3 /\ ServerHandshake[1] = Read("c0c1")
    BY <2>2
  <2>4. ASeq(ServerHandshake)
    BY <2>3, SeqIsASeq
  <2> DEFINE q == <<Expect("ConnectApp"), Step("decide")>>
  <2>5. ASeq(q)
    BY DEF ASeq
  <2> HIDE DEF q
  <2>6. (ServerHandshake \o q)[1] = ServerHandshake[1]
    <3>1. 1 \in 1..Len(ServerHandshake)
      BY <2>3
    <3>2. QED  BY <2>4, <2>5, <3>1, ConcatASeq
  <2>7. QED  BY <2>1, <2>3, <2>6 DEF q, Read
<1> HIDE DEF p
<1>3. ServerAnswers(requests["client"], called, p, received["server"])
  <2> DEFINE T == requests["client"]
  <2>1. \A k \in 1..Len(p) : p[k].do = "send" => Replied(T, called, p[k])
    <3> DEFINE R == {}
    <3>1. SaysOnly(p, R) /\ \A tid, of : <<tid, of>> \in R => Answers(T, called, tid, of)
      BY <1>2
    <3> HIDE DEF T, R
    <3>2. QED  BY <3>1, SaysOnlyReplies
  <2>2. QED  BY <1>2, <2>1 DEF ServerAnswers
<1>4. InHand = {}
  BY <1>1, <1>2, EmptyHand DEF InHand
<1>5. ClientAsks(<< >>, called)
  BY EmptyASeq, InertPlan
<1>6. CreateIsLast(<< >>, {}, << >>) /\ Settled(<< >>, << >>, {}, << >>)
  BY NothingOpen, NothingOpenSettles
<1>7. InTable
  BY <1>1, <1>3, EmptyASeq DEF InTable
<1>8. InOrder
  BY <1>1, <1>4, <1>5, <1>6 DEF InOrder
<1>9. QED  BY <1>1, <1>7, <1>8 DEF AnswersInv

------------------------------------------------------------------------------
(***************************************************************************)
(* The client's steps.                                                     *)
(***************************************************************************)
\* What the client is about to do, and where the server's plan is on its way.
LEMMA AtClient ==
    ASSUME IInv, JourneyInv, plan["client"] # << >>
    PROVE  /\ status["client"] = "open" /\ 1 \in 1..Len(plan["client"]) /\ ASeq(plan["client"])
           /\ ~lost => plan["client"][1].do \in {"send", "read", "expect", "publishing"}
<1>1. status["client"] = "open"
  BY DEF JourneyInv, FailedStops, Endpoints
<1>2. 1 \in 1..Len(plan["client"]) /\ ASeq(plan["client"])
  BY TailFields DEF IInv, Shapes
<1>3. ASSUME ~lost PROVE plan["client"][1].do \in {"send", "read", "expect", "publishing"}
  <2>1. PICK r, v, t : OnJourney(r, v, t)
    BY DEF JourneyInv
  <2>2. ClientPath(asked, t, plan["client"])
    BY <1>1, <1>3, <2>1 DEF OnJourney, Linked, ClientSide
  <2>3. Goes(asked, t[1], plan["client"][1], t[1 + 1])
    BY <1>2, <2>2 DEF ClientPath
  <2>4. QED  BY <2>3 DEF Goes, Awaits
<1>4. QED  BY <1>1, <1>2, <1>3

LEMMA ClientWritesAnswers ==
    ASSUME IInv, JourneyInv, AnswersInv, NEW m, Writes("client", m)
    PROVE  AnswersInv'
<1> DEFINE p == plan["client"]
           sw == wire["server"]
           cw == wire["client"]
           q == plan["server"]
           got == received["server"]
           T == requests["client"]
           U == requests'["client"]
<1>1. /\ p # << >> /\ Says("client", m) /\ ~lost
      /\ plan'["client"] = Tail(p) /\ plan'["server"] = q
      /\ wire'["client"] = cw /\ wire'["server"] = Append(sw, m)
      /\ received' = received /\ status' = status /\ UNCHANGED Others
      /\ Noted("client", m)
  BY DEF Writes, Peer
<1>2. /\ 1 \in 1..Len(p) /\ ASeq(p) /\ Linked /\ p[1].do = "send"
      /\ m.command = p[1].command /\ m.tid = p[1].tid
  <2>1. /\ 1 \in 1..Len(p) /\ ASeq(p) /\ Linked
        /\ p[1].do \in {"send", "read", "expect", "publishing"}
    BY <1>1, AtClient DEF Linked
  <2>2. QED  BY <1>1, <2>1 DEF Says
<1>3. Said(m, called)
  <2>1. Said(p[1], called)
    BY <1>2 DEF AnswersInv, InOrder, ClientAsks
  <2>2. QED  BY <1>2, <2>1 DEF Said
<1>4. ASSUME m.command \in OfAStream, m.tid = 2
      PROVE  ~Open(sw, InHand, cw, OfAStream)
  <2>1. AsksSecond(p[1])
    BY <1>2, <1>4 DEF AsksSecond, Asks
  <2>2. Settled(p, sw, InHand, cw)
    BY <1>2 DEF AnswersInv, InOrder
  <2>3. QED  BY <1>2, <2>1, <2>2 DEF Settled
<1>5. NotedIn(T, U, m)
  BY <1>1 DEF Noted, NotedIn
<1>6. PICK r, v, t : OnJourney(r, v, t)
  BY DEF JourneyInv
<1>7. ServerPath(asked, Len(served), r, q) /\ Received(r, q, got)
  BY <1>6 DEF OnJourney, ServerSide
<1> DEFINE second == m.command \in OfAStream /\ m.tid = 2
<1>8. second => /\ \A k \in 1..Len(sw) : sw[k].command \notin OfAStream
                /\ \A k \in 1..Len(cw) : ~IsResult(cw[k], OfAStream)
                /\ \A k \in 1..Len(q) : q[k].do = "send" => ~IsResult(q[k], OfAStream)
                /\ 1 \in 1..Len(q) /\ q[1].do \in {"reply", "decide", "unpublish"} =>
                     got.command \notin OfAStream
  <2>1. second => ~Open(sw, Hand(q, got), cw, OfAStream)
    BY <1>4 DEF InHand
  <2>2. QED  BY <1>7, <2>1, NothingOfAStream
<1> HIDE DEF p, sw, cw, q, got, T, U, second
<1>9. \A tid, of : Answers(T, called, tid, of) /\ (second => of \notin OfAStream)
                     => Answers(U, called, tid, of)
  BY <1>3, <1>5, AnswersNoted DEF second
<1>10. \A x : Sent(T, called, x) /\ (second => x.command \notin OfAStream) => Sent(U, called, x)
  BY <1>9 DEF Sent
<1>11. \A x : Replied(T, called, x) /\ (second => ~IsResult(x, OfAStream)) => Replied(U, called, x)
  BY <1>9 DEF Replied, IsResult
<1>12. Sent(U, called, m)
  BY <1>3, <1>5, SaidIsAnswered
<1>13. /\ \A k \in 1..Len(sw) : Sent(T, called, sw[k])
       /\ \A k \in 1..Len(cw) : Replied(T, called, cw[k])
       /\ ServerAnswers(T, called, q, got)
  BY DEF AnswersInv, InTable, sw, cw, q, got, T
<1>14. ASeq(sw)
  BY DEF IInv, OnStream, sw
<1>15. \A k \in 1..Len(Append(sw, m)) : Sent(U, called, Append(sw, m)[k])
  <2>1. \A k \in 1..Len(sw) : Sent(U, called, sw[k])
    BY <1>8, <1>10, <1>13
  <2> DEFINE aw == Append(sw, m)
             n == Len(sw)
  <2>2. /\ n \in Nat /\ Len(aw) = n + 1 /\ \A k \in 1..n : aw[k] = sw[k]
        /\ aw[n + 1] = m
    BY <1>14, AppendASeq DEF ASeq
  <2> HIDE DEF aw
  <2>3. \A k \in 1..(n + 1) : k \in 1..n \/ k = n + 1
    BY <2>2
  <2>4. QED  BY <1>12, <2>1, <2>2, <2>3 DEF aw
<1>16. \A k \in 1..Len(cw) : Replied(U, called, cw[k])
  BY <1>8, <1>11, <1>13
<1>17. ServerAnswers(U, called, q, got)
  BY <1>8, <1>10, <1>11, <1>13 DEF ServerAnswers
<1>18. InTable'
  <2>1. called' = called
    BY <1>1 DEF Others
  <2>2. QED  BY <1>1, <1>15, <1>16, <1>17, <2>1 DEF InTable, q, sw, cw, got, U
<1>19. CreateIsLast(sw, InHand, cw) /\ ClientAsks(p, called) /\ Settled(p, sw, InHand, cw)
  BY <1>2 DEF AnswersInv, InOrder, sw, cw, p
<1>20. m.command \in OfAStream => ~Open(sw, InHand, cw, {"createStream"})
  <2>1. CASE m.command = "createStream"
    <3>1. Asks(p[1], {"createStream"})
      BY <1>2, <2>1 DEF Asks
    <3>2. QED  BY <1>2, <1>19, <3>1 DEF Settled
  <2>2. CASE m.command = "releaseStream"
    <3>1. m.tid = 2
      BY <1>3, <2>2 DEF Said, HasTid, Commands
    <3>2. ~Open(sw, InHand, cw, OfAStream)
      BY <1>4, <2>2, <3>1 DEF OfAStream, sw, cw
    <3>3. QED  BY <3>2, OpenMore
  <2>3. QED  BY <2>1, <2>2 DEF OfAStream
<1>21. /\ CreateIsLast(Append(sw, m), InHand, cw)
       /\ \A S : m.command \notin S /\ Open(Append(sw, m), InHand, cw, S) => Open(sw, InHand, cw, S)
  BY <1>14, <1>19, <1>20, ClientSaysOne
<1>22. ClientAsks(Tail(p), called)
  <2>1. ASeq(Tail(p)) /\ Moved(Tail(p), p, 1, called)
    BY <1>1, <1>2, MovedTail DEF p
  <2>2. ASeq(p) /\ ClientAsks(p, called) /\ 1 \in Int
    BY <1>2, <1>19
  <2>3. QED  BY <2>1, <2>2, ClientAsksMoved
<1>23. Settled(Tail(p), Append(sw, m), InHand, cw)
  BY <1>1, <1>2, <1>19, <1>21, SettledSays DEF p
<1>24. InHand' = InHand /\ called' = called
  BY <1>1 DEF InHand, Others, q
<1>25. InOrder'
  BY <1>1, <1>21, <1>22, <1>23, <1>24 DEF InOrder, sw, cw, p
<1>26. \A e \in Endpoints : status'[e] # "open" => Excused'
  BY <1>1 DEF AnswersInv, Excused, Others
<1>27. QED  BY <1>18, <1>25, <1>26 DEF AnswersInv

\* A message is taken, or none, and no more is there than before.
LEMMA ClientTakes ==
    ASSUME IInv, AnswersInv, LeavesOrReads("client")
    PROVE  /\ \A k \in 1..Len(wire'["client"]) :
                Replied(requests["client"], called, wire'["client"][k])
           /\ CreateIsLast(wire["server"], InHand, wire'["client"])
           /\ Fewer(wire["server"], InHand, wire'["client"], wire["server"], InHand, wire["client"])
<1> DEFINE cw == wire["client"]
           sw == wire["server"]
           nw == wire'["client"]
<1>1. /\ \A k \in 1..Len(cw) : Replied(requests["client"], called, cw[k])
      /\ CreateIsLast(sw, InHand, cw) /\ ASeq(cw)
  BY DEF AnswersInv, InTable, InOrder, IInv, Given
<1>2. CASE nw = cw
  BY <1>1, <1>2 DEF Fewer
<1>3. CASE cw # << >> /\ nw = Tail(cw)
  <2>1. \A k \in 1..Len(nw) : k + 1 \in 1..Len(cw) /\ nw[k] = cw[k + 1]
    BY <1>1, <1>3, TailFields
  <2>2. \A k \in 1..Len(nw) : Replied(requests["client"], called, nw[k])
    BY <1>1, <2>1
  <2>3. CreateIsLast(sw, InHand, nw) /\ \A S : Open(sw, InHand, nw, S) => Open(sw, InHand, cw, S)
    BY <1>1, <1>3, ClientTakesOne
  <2>4. QED  BY <2>2, <2>3 DEF Fewer
<1>4. QED  BY <1>2, <1>3 DEF LeavesOrReads

LEMMA ClientReadsAnswers ==
    ASSUME IInv, JourneyInv, AnswersInv, Reads("client") \/ Drops("client")
    PROVE  AnswersInv'
<1> DEFINE p == plan["client"]
           sw == wire["server"]
           cw == wire["client"]
<1>1. /\ p # << >> /\ cw # << >> /\ wire'["client"] = Tail(cw) /\ wire'["server"] = sw
      /\ plan'["server"] = plan["server"] /\ received'["server"] = received["server"]
      /\ UNCHANGED <<requests, status>> /\ UNCHANGED Others
      /\ \/ plan'["client"] = p
         \/ /\ plan'["client"] = Tail(p)
            /\ \/ p[1].do = "read"
               \/ p[1].do = "expect" /\ p[1].packet = Decode("client", cw[1])
  BY DEF Reads, Drops, TakesOne, Peer
<1>2. /\ \A k \in 1..Len(wire'["client"]) : Replied(requests["client"], called, wire'["client"][k])
      /\ CreateIsLast(sw, InHand, wire'["client"])
      /\ Fewer(sw, InHand, wire'["client"], sw, InHand, cw)
  BY <1>1, ClientTakes DEF LeavesOrReads
<1>3. InTable'
  BY <1>1, <1>2 DEF AnswersInv, InTable, Others
<1>4. /\ InHand' = InHand /\ called' = called /\ Linked' = Linked
  BY <1>1 DEF InHand, Others, Linked
<1>5. 1 \in 1..Len(p) /\ ASeq(p) /\ ClientAsks(p, called) /\ ASeq(cw) /\ 1 \in 1..Len(cw)
  <2>1. ASeq(cw)
    BY DEF IInv, Given
  <2>2. QED  BY <1>1, <2>1, AtClient, TailFields DEF AnswersInv, InOrder
<1>6. ClientAsks(plan'["client"], called) /\ (Linked => Settled(plan'["client"], sw, InHand, wire'["client"]))
  <2>1. Linked => Settled(p, sw, InHand, cw)
    BY DEF AnswersInv, InOrder
  <2>2. CASE plan'["client"] = p
    BY <1>2, <1>5, <2>1, <2>2, SettledStays
  <2>3. CASE /\ plan'["client"] = Tail(p)
             /\ \/ p[1].do = "read"
                \/ p[1].do = "expect" /\ p[1].packet = Decode("client", cw[1])
    <3>1. ASeq(Tail(p)) /\ Moved(Tail(p), p, 1, called)
      BY <1>1, <1>5, MovedTail
    <3>2. ClientAsks(Tail(p), called)
      BY <1>5, <3>1, ClientAsksMoved
    <3>3. CASE ~AwaitsStream(p[1])
      <4>1. Linked => Settled(Tail(p), sw, InHand, wire'["client"])
        BY <1>2, <2>1, <3>1, <3>3, SettledMoved
      <4>2. QED  BY <2>3, <3>2, <4>1
    <3>4. CASE AwaitsStream(p[1])
      <4>1. Decode("client", cw[1]) = "CreateStreamRes"
        BY <2>3, <3>4 DEF AwaitsStream
      <4>2. Replied(requests["client"], called, cw[1])
        BY <1>5 DEF AnswersInv, InTable
      <4>3. IsResult(cw[1], {"createStream"})
        BY <4>1, <4>2, RepliedDecodes
      <4>4. InHand \subseteq OfAStream /\ CreateIsLast(sw, InHand, cw)
        BY DEF InHand, Hand, AnswersInv, InOrder
      <4>5. ~Open(sw, InHand, Tail(cw), OfAStream)
        BY <1>1, <1>5, <4>3, <4>4, ClientTakesOne
      <4>6. Settled(Tail(p), sw, InHand, Tail(cw))
        BY <4>5, NothingOpenSettles
      <4>7. QED  BY <1>1, <2>3, <3>2, <4>6
    <3>5. QED  BY <3>3, <3>4
  <2>4. QED  BY <1>1, <2>2, <2>3
<1>7. InOrder'
  BY <1>1, <1>2, <1>4, <1>6 DEF InOrder
<1>8. \A e \in Endpoints : status'[e] # "open" => Excused'
  BY <1>1 DEF AnswersInv, Excused, Others
<1>9. QED  BY <1>3, <1>7, <1>8 DEF AnswersInv

LEMMA ClientPublishesAnswers ==
    ASSUME IInv, JourneyInv, AnswersInv, NEW n \in Nat, Publishes(n)
    PROVE  AnswersInv'
<1> DEFINE p == plan["client"]
           s == Send("publishing")
           p2 == [k \in 1..n |-> s] \o Tail(p)
           sw == wire["server"]
           cw == wire["client"]
<1>1. /\ p # << >> /\ p[1].do = "publishing" /\ plan'["client"] = p2
      /\ plan'["server"] = plan["server"]
      /\ UNCHANGED <<wire, requests, received, status>> /\ UNCHANGED Others
  BY DEF Publishes, Plans, Peer
<1>2. Inert(s, called)
  BY DEF Inert, Send, Request, AwaitsStream, Asks, OfAStream, Said, OfClient, Commands
<1> HIDE DEF s
<1>3. ASeq(p) /\ ClientAsks(p, called) /\ (Linked => Settled(p, sw, InHand, cw))
  BY <1>1, AtClient DEF AnswersInv, InOrder
<1>4. ASeq(p2) /\ Moved(p2, p, 1 - n, called)
  BY <1>1, <1>2, <1>3, MovedPublishing
<1>5. 1 - n \in Int /\ ~AwaitsStream(p[1])
  BY <1>1 DEF AwaitsStream
<1> HIDE DEF p2
<1>6. ClientAsks(p2, called)
  BY <1>3, <1>4, <1>5, ClientAsksMoved
<1>7. Linked => Settled(p2, sw, InHand, cw)
  <2>1. Fewer(sw, InHand, cw, sw, InHand, cw)
    BY DEF Fewer
  <2>2. QED  BY <1>3, <1>4, <1>5, <2>1, SettledMoved
<1>8. InHand' = InHand /\ called' = called /\ Linked' = Linked
  BY <1>1 DEF InHand, Others, Linked
<1>9. InOrder'
  BY <1>1, <1>6, <1>7, <1>8 DEF InOrder, AnswersInv
<1>10. InTable'
  BY <1>1, <1>8 DEF InTable, AnswersInv
<1>11. \A e \in Endpoints : status'[e] # "open" => Excused'
  BY <1>1 DEF AnswersInv, Excused, Others
<1>12. QED  BY <1>9, <1>10, <1>11 DEF AnswersInv

------------------------------------------------------------------------------
(***************************************************************************)
(* The server's steps, and what ends the calls.                            *)
(***************************************************************************)
\* A step of the server that leaves the client's calls and its table as they were.
LEMMA ServerAnswersOn ==
    ASSUME AnswersInv, plan'["client"] = plan["client"], status'["client"] = status["client"],
           requests'["client"] = requests["client"], UNCHANGED <<called, lost>>,
           \A k \in 1..Len(wire'["server"]) : Sent(requests["client"], called, wire'["server"][k]),
           \A k \in 1..Len(wire'["client"]) : Replied(requests["client"], called, wire'["client"][k]),
           ServerAnswers(requests["client"], called, plan'["server"], received'["server"]),
           CreateIsLast(wire'["server"], InHand', wire'["client"]),
           Fewer(wire'["server"], InHand', wire'["client"], wire["server"], InHand, wire["client"]),
           \A e \in Endpoints : status'[e] # "open" => Excused'
    PROVE  AnswersInv'
<1>1. InTable'
  BY DEF InTable
<1>2. Linked => Settled(plan["client"], wire'["server"], InHand', wire'["client"])
  BY SettledStays DEF AnswersInv, InOrder
<1>3. InOrder'
  BY <1>2 DEF AnswersInv, InOrder, Linked
<1>4. QED  BY <1>1, <1>3 DEF AnswersInv

LEMMA ExcusesStay ==
    ASSUME AnswersInv, UNCHANGED <<status, called, lost>>
    PROVE  \A e \in Endpoints : status'[e] # "open" => Excused'
BY DEF AnswersInv, Excused

LEMMA ServerWritesAnswers ==
    ASSUME IInv, JourneyInv, AnswersInv, NEW m, Writes("server", m)
    PROVE  AnswersInv'
<1> DEFINE p == plan["server"]
           sw == wire["server"]
           cw == wire["client"]
           got == received["server"]
           T == requests["client"]
<1>1. /\ p # << >> /\ Says("server", m)
      /\ plan'["server"] = Tail(p) /\ plan'["client"] = plan["client"]
      /\ wire'["server"] = sw /\ wire'["client"] = Append(cw, m)
      /\ requests'["client"] = requests["client"]
      /\ UNCHANGED <<received, status, called, lost>>
  BY DEF Writes, Peer, Others
<1>2. PICK r, v, t : OnJourney(r, v, t)
  BY DEF JourneyInv
<1>3. ServerPath(asked, Len(served), r, p) /\ Received(r, p, got)
  BY <1>2 DEF OnJourney, ServerSide
<1>4. /\ 1 \in 1..Len(p) /\ ASeq(p)
      /\ \A k \in 1..Len(Tail(p)) : k + 1 \in 1..Len(p) /\ Tail(p)[k] = p[k + 1]
      /\ \A k \in 1..Len(p) : k # 1 /\ p[k].do = "send" => ~IsResult(p[k], OfAStream)
      /\ 1 \in 1..Len(Tail(p)) => Succeeds(p[1], Tail(p)[1])
  BY <1>1, <1>3, BehindServer
<1>5. /\ \A k \in 1..Len(sw) : Sent(T, called, sw[k])
      /\ \A k \in 1..Len(cw) : Replied(T, called, cw[k])
      /\ ServerAnswers(T, called, p, got) /\ CreateIsLast(sw, InHand, cw)
      /\ ASeq(cw)
  BY DEF AnswersInv, InTable, InOrder, IInv, Given
<1>6. p[1].do \in {"send", "reply"}
  BY <1>1 DEF Says
<1>7. Replied(T, called, m)
  <2>1. CASE /\ p[1].do = "send" /\ m.command = p[1].command /\ m.tid = p[1].tid /\ m.of = p[1].of
    <3>1. Replied(T, called, p[1])
      BY <1>4, <1>5, <2>1 DEF ServerAnswers
    <3>2. QED  BY <2>1, <3>1 DEF Replied
  <2>2. CASE /\ p[1].do = "reply" /\ m.command = "_result" /\ m.tid = got.tid /\ m.of = got.command
    <3>1. got.command \in Commands
      BY <1>3, <1>4, <2>2 DEF Received
    <3>2. Sent(T, called, got)
      BY <1>4, <1>5, <2>2 DEF ServerAnswers
    <3>3. Answers(T, called, got.tid, got.command)
      BY <3>1, <3>2, SentIsAnswered
    <3>4. QED  BY <2>2, <3>3 DEF Replied, Errors
  <2>3. QED  BY <1>1, <2>1, <2>2 DEF Says
<1>8. IsResult(m, OfAStream) => m.of \in InHand
  BY <1>1, <1>4 DEF InHand, Hand, Says, IsResult
<1>9. 1 \in 1..Len(Tail(p)) =>
        /\ Tail(p)[1].do \notin {"reply", "decide", "unpublish"}
        /\ Tail(p)[1].do = "send" => ~IsResult(Tail(p)[1], OfAStream)
  BY <1>4, <1>6 DEF Succeeds
<1>10. InHand' = {}
  <2>1. Hand(Tail(p), got) = {}
    BY <1>9 DEF Hand, IsResult
  <2>2. QED  BY <1>1, <2>1 DEF InHand
<1>11. /\ CreateIsLast(sw, {}, Append(cw, m))
       /\ \A S : S \subseteq OfAStream /\ Open(sw, {}, Append(cw, m), S) => Open(sw, InHand, cw, S)
  BY <1>5, <1>8, ServerHandsOver
<1> HIDE DEF p, sw, cw, got, T
<1>12. \A k \in 1..Len(Append(cw, m)) : Replied(T, called, Append(cw, m)[k])
  <2> DEFINE aw == Append(cw, m)
             n == Len(cw)
  <2>1. /\ n \in Nat /\ Len(aw) = n + 1 /\ \A k \in 1..n : aw[k] = cw[k]
        /\ aw[n + 1] = m
    BY <1>5, AppendASeq DEF ASeq
  <2> HIDE DEF aw
  <2>2. \A k \in 1..(n + 1) : k \in 1..n \/ k = n + 1
    BY <2>1
  <2>3. QED  BY <1>5, <1>7, <2>1, <2>2 DEF aw
<1>13. ServerAnswers(T, called, Tail(p), got)
  BY <1>4, <1>5, <1>9 DEF ServerAnswers
<1>14. QED  BY <1>1, <1>5, <1>10, <1>11, <1>12, <1>13, ExcusesStay, ServerAnswersOn
                DEF Fewer, p, sw, cw, got, T

\* A message is taken, and answered, or not.
LEMMA ServerTakes ==
    ASSUME IInv, AnswersInv, CreateIsLast(wire["server"], {}, wire["client"]), wire["server"] # << >>,
           NEW hand, hand \subseteq {wire["server"][1].command} \cap OfAStream
    PROVE  /\ \A k \in 1..Len(Tail(wire["server"])) :
                Sent(requests["client"], called, Tail(wire["server"])[k])
           /\ Sent(requests["client"], called, wire["server"][1])
           /\ CreateIsLast(Tail(wire["server"]), hand, wire["client"])
           /\ Fewer(Tail(wire["server"]), hand, wire["client"], wire["server"], {}, wire["client"])
<1> DEFINE sw == wire["server"]
           cw == wire["client"]
<1>1. (\A k \in 1..Len(sw) : Sent(requests["client"], called, sw[k])) /\ ASeq(sw)
  BY DEF AnswersInv, InTable, IInv, OnStream
<1>2. 1 \in 1..Len(sw) /\ \A k \in 1..Len(Tail(sw)) : k + 1 \in 1..Len(sw) /\ Tail(sw)[k] = sw[k + 1]
  BY <1>1, TailFields
<1>3. /\ CreateIsLast(Tail(sw), hand, cw)
      /\ \A S : Open(Tail(sw), hand, cw, S) => Open(sw, {}, cw, S)
  BY <1>1, ServerTakesOne
<1>4. QED  BY <1>1, <1>2, <1>3 DEF Fewer

LEMMA ServerReadsAnswers ==
    ASSUME IInv, JourneyInv, AnswersInv, Reads("server") \/ Drops("server")
    PROVE  AnswersInv'
<1> DEFINE p == plan["server"]
           sw == wire["server"]
           cw == wire["client"]
           got == received["server"]
           new == received'["server"]
           T == requests["client"]
<1>1. /\ p # << >> /\ sw # << >> /\ wire'["server"] = Tail(sw) /\ wire'["client"] = cw
      /\ plan'["client"] = plan["client"] /\ UNCHANGED <<requests, status, called, lost>>
      /\ p[1].do \in {"read", "expect", "identify", "level1"}
      /\ \/ plan'["server"] = p /\ new = got
         \/ /\ plan'["server"] = Tail(p)
            /\ \/ p[1].do = "read" /\ new = got
               \/ p[1].do = "expect" /\ new = sw[1]
  BY DEF Reads, Drops, TakesOne, Peer, Others
<1>2. PICK r, v, t : OnJourney(r, v, t)
  BY DEF JourneyInv
<1>3. ServerPath(asked, Len(served), r, p)
  BY <1>2 DEF OnJourney, ServerSide
<1>4. /\ 1 \in 1..Len(p) /\ ASeq(p)
      /\ \A k \in 1..Len(Tail(p)) : k + 1 \in 1..Len(p) /\ Tail(p)[k] = p[k + 1]
      /\ 1 \in 1..Len(Tail(p)) => Succeeds(p[1], Tail(p)[1])
  BY <1>1, <1>3, BehindServer
<1>5. /\ \A k \in 1..Len(cw) : Replied(T, called, cw[k])
      /\ ServerAnswers(T, called, p, got) /\ CreateIsLast(sw, InHand, cw)
  BY DEF AnswersInv, InTable, InOrder
<1>6. InHand = {}
  BY <1>1, EmptyHand DEF InHand
<1>7. InHand' \subseteq {sw[1].command} \cap OfAStream
  <2>1. CASE plan'["server"] = p /\ new = got
    BY <1>6, <2>1 DEF InHand
  <2>2. CASE plan'["server"] = Tail(p) /\ p[1].do = "read"
    <3>1. 1 \in 1..Len(Tail(p)) => /\ Tail(p)[1].do # "reply"
                                   /\ Tail(p)[1].do = "send" => ~IsResult(Tail(p)[1], OfAStream)
      BY <1>4, <2>2 DEF Succeeds
    <3>2. Hand(Tail(p), new) = {}
      BY <3>1 DEF Hand, IsResult
    <3>3. QED  BY <2>2, <3>2 DEF InHand
  <2>3. CASE plan'["server"] = Tail(p) /\ new = sw[1]
    <3>1. 1 \in 1..Len(Tail(p)) /\ Tail(p)[1].do = "send" => ~IsResult(Tail(p)[1], OfAStream)
      BY <1>4 DEF Succeeds
    <3>2. Hand(Tail(p), new) \subseteq {new.command} \cap OfAStream
      BY <3>1 DEF Hand, IsResult
    <3>3. QED  BY <2>3, <3>2 DEF InHand
  <2>4. QED  BY <1>1, <2>1, <2>2, <2>3
<1>8. /\ \A k \in 1..Len(Tail(sw)) : Sent(T, called, Tail(sw)[k])
      /\ Sent(T, called, sw[1])
      /\ CreateIsLast(Tail(sw), InHand', cw)
      /\ Fewer(Tail(sw), InHand', cw, sw, {}, cw)
  BY <1>1, <1>5, <1>6, <1>7, ServerTakes
<1>9. ServerAnswers(T, called, plan'["server"], new)
  <2>1. CASE plan'["server"] = p /\ new = got
    BY <1>5, <2>1
  <2>2. CASE plan'["server"] = Tail(p)
    <3>1. \A k \in 1..Len(Tail(p)) : Tail(p)[k].do = "send" => Replied(T, called, Tail(p)[k])
      BY <1>4, <1>5 DEF ServerAnswers
    <3>2. 1 \in 1..Len(Tail(p)) /\ Tail(p)[1].do \in {"reply", "decide", "unpublish"} => new = sw[1]
      BY <1>1, <1>4, <2>2 DEF Succeeds
    <3>3. QED  BY <1>8, <2>2, <3>1, <3>2 DEF ServerAnswers
  <2>3. QED  BY <1>1, <2>1, <2>2
<1>10. QED  BY <1>1, <1>5, <1>6, <1>8, <1>9, ExcusesStay, ServerAnswersOn

\* A new plan of the server's, that begins with something to send, if anything.
LEMMA ServerCallsAnswers ==
    ASSUME IInv, JourneyInv, AnswersInv, (\E p : Decides(p)) \/ Serves \/ Unpublishes
    PROVE  AnswersInv'
<1> DEFINE p == plan["server"]
           q == plan'["server"]
           sw == wire["server"]
           cw == wire["client"]
           got == received["server"]
           T == requests["client"]
<1>1. /\ p # << >> /\ p[1].do \in {"decide", "serve", "unpublish"}
      /\ plan'["client"] = plan["client"]
      /\ UNCHANGED <<wire, requests, received, status, called, lost>>
  BY DEF Decides, Serves, Unpublishes, Plans, Peer, Others
<1>2. PICK r, v, t : OnJourney(r, v, t)
  BY DEF JourneyInv
<1>3. ServerPath(asked, Len(served), r, p) /\ Received(r, p, got)
  BY <1>2 DEF OnJourney, ServerSide
<1>4. 1 \in 1..Len(p)
  BY <1>1, <1>3, BehindServer
<1>5. /\ \A k \in 1..Len(sw) : Sent(T, called, sw[k])
      /\ \A k \in 1..Len(cw) : Replied(T, called, cw[k])
      /\ ServerAnswers(T, called, p, got) /\ CreateIsLast(sw, InHand, cw)
  BY DEF AnswersInv, InTable, InOrder
<1>6. InHand = {}
  BY <1>1, EmptyHand DEF InHand
<1>7. \E R : /\ SaysOnly(q, R) /\ (1 \in 1..Len(q) => q[1].do \in {"send", "expect"})
             /\ \A tid, of : <<tid, of>> \in R => Answers(T, called, tid, of) /\ of \notin OfAStream
  <2>1. CASE \E x : Decides(x)
    <3>1. PICK x : Decides(x)
      BY <2>1
    <3>2. q = x /\ p[1].do = "decide"
      BY <3>1 DEF Decides, Plans
    <3>3. x \in {ServerCheck("no duration"), ServerCheck("1000"), Accept,
                 ResponseConnectReject \o <<Step("reject")>>}
      BY <3>1 DEF Decides
    <3> DEFINE R == {<<1, "connect">>}
    <3>4. SaysOnly(x, R) /\ Opens(x)
      <4>1. \A data : SaysOnly(ServerCheck(data), R) /\ Opens(ServerCheck(data))
        BY CheckSays, PlansOpen
      <4>2. SaysOnly(Accept, R) /\ Opens(Accept)
        BY AcceptSays, PlansOpen
      <4>3. /\ SaysOnly(ResponseConnectReject \o <<Step("reject")>>, R)
            /\ Opens(ResponseConnectReject \o <<Step("reject")>>)
        BY RejectSays, PlansOpen
      <4>4. QED  BY <3>3, <4>1, <4>2, <4>3
    <3>5. Answers(T, called, 1, "connect")
      <4>1. got.command = "connect" /\ Sent(T, called, got)
        BY <1>3, <1>4, <1>5, <3>2 DEF Received, ServerAnswers
      <4>2. Answers(T, called, got.tid, "connect")
        BY <4>1, SentIsAnswered DEF Commands
      <4>3. got.tid = 1
        BY <4>2 DEF Answers, HasTid, Commands
      <4>4. QED  BY <4>2, <4>3
    <3>6. \A tid, of : <<tid, of>> \in R => Answers(T, called, tid, of) /\ of \notin OfAStream
      BY <3>5 DEF OfAStream
    <3>7. QED  BY <3>2, <3>4, <3>6 DEF Opens
  <2>2. CASE Serves
    <3> DEFINE R == {}
               x == <<Expect("FMLEStart"), Step("unpublish")>>
    <3>1. q = x
      BY <2>2 DEF Serves, Plans
    <3>2. x[1].do = "expect"
      BY DEF Expect
    <3>3. SaysOnly(x, R)
      BY MediaSays
    <3>4. \A tid, of : <<tid, of>> \in R => Answers(T, called, tid, of) /\ of \notin OfAStream
      OBVIOUS
    <3>5. QED  BY <3>1, <3>2, <3>3, <3>4
  <2>3. CASE Unpublishes
    <3> DEFINE R == {<<got.tid, "FCUnpublish">>}
               x == FmleUnpublish(got.tid) \o <<Step("identify")>>
    <3>1. q = x /\ p[1].do = "unpublish"
      BY <2>3 DEF Unpublishes, Plans
    <3>2. SaysOnly(x, R) /\ Opens(x)
      BY UnpublishSays, PlansOpen
    <3>3. got.command = "FCUnpublish" /\ Sent(T, called, got)
      BY <1>3, <1>4, <1>5, <3>1 DEF Received, ServerAnswers
    <3>4. Answers(T, called, got.tid, "FCUnpublish")
      BY <3>3, SentIsAnswered DEF Commands
    <3>5. \A tid, of : <<tid, of>> \in R => Answers(T, called, tid, of) /\ of \notin OfAStream
      BY <3>4 DEF OfAStream
    <3>6. QED  BY <3>1, <3>2, <3>5 DEF Opens
  <2>4. QED  BY <2>1, <2>2, <2>3
<1>8. PICK R : /\ SaysOnly(q, R) /\ (1 \in 1..Len(q) => q[1].do \in {"send", "expect"})
               /\ \A tid, of : <<tid, of>> \in R => Answers(T, called, tid, of) /\ of \notin OfAStream
  BY <1>7
<1> HIDE DEF q, T, got
<1>9. \A k \in 1..Len(q) : q[k].do = "send" => Replied(T, called, q[k])
  BY <1>8, SaysOnlyReplies
<1>10. ServerAnswers(T, called, q, got)
  BY <1>8, <1>9 DEF ServerAnswers
<1>11. Hand(q, got) = {}
  <2>1. ASSUME 1 \in 1..Len(q), q[1].do = "send", q[1].command = "_result"
        PROVE  q[1].of \notin OfAStream
    <3>1. <<q[1].tid, q[1].of>> \in R
      BY <1>8, <2>1 DEF SaysOnly, Results
    <3>2. QED  BY <1>8, <3>1
  <2>2. 1 \in 1..Len(q) => q[1].do # "reply"
    BY <1>8
  <2>3. QED  BY <2>1, <2>2 DEF Hand
<1>12. InHand' = {}
  BY <1>1, <1>11 DEF InHand, q, got
<1>13. Fewer(sw, {}, cw, sw, {}, cw)
  BY DEF Fewer
<1>14. QED  BY <1>1, <1>5, <1>6, <1>10, <1>12, <1>13, ExcusesStay, ServerAnswersOn DEF q, got, T

------------------------------------------------------------------------------
\* What a server that identifies its client answers, it was asked.
LEMMA ServerIdentifiesAnswers ==
    ASSUME IInv, JourneyInv, AnswersInv, NEW p, Identifies(p)
    PROVE  AnswersInv'
<1> DEFINE sw == wire["server"]
           cw == wire["client"]
           m == sw[1]
           packet == Decode("server", m)
           T == requests["client"]
           new == received'["server"]
<1>1. /\ plan["server"] # << >> /\ sw # << >> /\ wire'["server"] = Tail(sw) /\ wire'["client"] = cw
      /\ plan'["client"] = plan["client"] /\ UNCHANGED <<requests, status, called, lost>>
      /\ plan["server"][1].do \in {"identify", "level1"} /\ plan'["server"] = p
      /\ p \in {AtFirst(m, packet), AfterCreateStream(m, packet)}
  BY DEF Identifies, TakesOne, Peer, Others
<1>2. PICK r, v, t : OnJourney(r, v, t)
  BY DEF JourneyInv
<1>3. Opens(p) /\ packet = PacketOf(m.command)
  BY <1>2, IdentifiesOn DEF OnJourney, JourneyInv
<1>4. (\A k \in 1..Len(cw) : Replied(T, called, cw[k])) /\ CreateIsLast(sw, InHand, cw)
  BY DEF AnswersInv, InTable, InOrder
<1>5. InHand = {}
  BY <1>1, EmptyHand DEF InHand
<1> DEFINE R == {x \in {<<m.tid, m.command>>} : packet \in {"CreateStream", "FMLEStart", "Call"}}
<1>6. SaysOnly(p, R)
  <2>1. packet \in {"CreateStream", "FMLEStart", "Call"} => <<m.tid, m.command>> \in R
    OBVIOUS
  <2> HIDE DEF m, packet, R
  <2>2. QED  BY <1>1, <2>1, RoundsSay
<1>7. InHand' \subseteq {m.command} \cap OfAStream
  <2>1. ASSUME 1 \in 1..Len(p), p[1].do = "send", p[1].command = "_result"
        PROVE  p[1].of = m.command
    <3>1. <<p[1].tid, p[1].of>> \in R
      BY <1>6, <2>1 DEF SaysOnly, Results
    <3>2. QED  BY <3>1
  <2>2. p[1].do # "reply"
    BY <1>3 DEF Opens
  <2>3. Hand(p, new) \subseteq {m.command} \cap OfAStream
    BY <2>1, <2>2 DEF Hand
  <2>4. QED  BY <1>1, <2>3 DEF InHand
<1>8. /\ \A k \in 1..Len(Tail(sw)) : Sent(T, called, Tail(sw)[k])
      /\ Sent(T, called, m)
      /\ CreateIsLast(Tail(sw), InHand', cw)
      /\ Fewer(Tail(sw), InHand', cw, sw, {}, cw)
  BY <1>1, <1>4, <1>5, <1>7, ServerTakes
<1>9. packet \in {"CreateStream", "FMLEStart", "Call"} => Answers(T, called, m.tid, m.command)
  <2>1. m.command \in OfClient
    BY <1>8 DEF Sent, Said
  <2>2. packet \in {"CreateStream", "FMLEStart", "Call"} => m.command \in Commands \cup {"call"}
    BY <1>3, <2>1 DEF PacketOf, OfClient, Commands
  <2>3. QED  BY <1>8, <2>2, SentIsAnswered
<1>10. \A tid, of : <<tid, of>> \in R => Answers(T, called, tid, of)
  BY <1>9
<1>11. ServerAnswers(T, called, p, new)
  <2> HIDE DEF T, R
  <2>1. \A k \in 1..Len(p) : p[k].do = "send" => Replied(T, called, p[k])
    BY <1>6, <1>10, SaysOnlyReplies
  <2>2. QED  BY <1>3, <2>1 DEF ServerAnswers, Opens
<1>12. QED  BY <1>1, <1>4, <1>5, <1>8, <1>11, ExcusesStay, ServerAnswersOn

\* Who fails has a reason.
LEMMA FailsExcused ==
    ASSUME IInv, JourneyInv, AnswersInv, NEW e \in Endpoints, NEW why, Fails(e, why)
    PROVE  \A f \in Endpoints : status'[f] # "open" => Excused'
<1>1. /\ Reason(e, why) /\ status'[e] = why /\ status'[Peer(e)] = status[Peer(e)]
      /\ UNCHANGED <<called, lost>> /\ status[e] = "open"
  BY DEF Fails, Others, JourneyInv, FailedStops
<1>2. \A f \in Endpoints : f = e \/ f = Peer(e)
  BY DEF Endpoints, Peer
<1>3. Excused => Excused'
  BY <1>1 DEF Excused, Endpoints, Peer
<1>4. ASSUME status[Peer(e)] # "open" PROVE Excused
  BY <1>4 DEF AnswersInv, Endpoints, Peer
<1>5. Excused'
  <2>1. CASE lost \/ status[Peer(e)] # "open"
    BY <1>3, <1>4, <2>1 DEF Excused
  <2>2. CASE /\ wire[e] # << >>
             /\ \/ wire[e][1].command = "c0c1" /\ why = "PLAIN_REQUIRED"
                \/ Decode(e, wire[e][1]) \in Errors
    <3>1. 1 \in 1..Len(wire[e])
      BY <2>2, TailFields DEF IInv, Given, OnStream, Endpoints
    <3>2. CASE e = "client"
      <4>1. Replied(requests["client"], called, wire["client"][1])
        BY <3>1, <3>2 DEF AnswersInv, InTable
      <4>2. called
        BY <2>2, <3>2, <4>1, RepliedDecodes
      <4>3. QED  BY <1>1, <4>2 DEF Excused
    <3>3. CASE e = "server"
      <4>1. Sent(requests["client"], called, wire["server"][1])
        BY <3>1, <3>3 DEF AnswersInv, InTable
      <4>2. why = "PLAIN_REQUIRED"
        BY <2>2, <3>3, <4>1, SentDecodes
      <4>3. QED  BY <1>1, <3>3, <4>2 DEF Excused
    <3>4. QED  BY <3>2, <3>3 DEF Endpoints
  <2>3. CASE e = "client" /\ why = "BWTC_DATA"
    BY <1>1, <2>3 DEF Excused
  <2>4. CASE e = "server" /\ why = "REJECTED"
    BY <1>1, <2>4 DEF Excused
  <2>5. QED  BY <1>1, <2>1, <2>2, <2>3, <2>4 DEF Reason
<1>6. QED  BY <1>5

LEMMA FailsAnswers ==
    ASSUME IInv, JourneyInv, AnswersInv, NEW e \in Endpoints, NEW why, Fails(e, why)
    PROVE  AnswersInv'
<1> DEFINE sw == wire["server"]
           cw == wire["client"]
           T == requests["client"]
<1>1. \A f \in Endpoints : status'[f] # "open" => Excused'
  BY FailsExcused
<1>2. /\ status'[e] = why /\ why # "open" /\ LeavesOrReads(e)
      /\ plan'[e] = << >> /\ plan'[Peer(e)] = plan[Peer(e)] /\ wire'[Peer(e)] = wire[Peer(e)]
      /\ status'[Peer(e)] = status[Peer(e)]
      /\ UNCHANGED <<requests, received, called, lost>>
  BY DEF Fails, Others
<1>3. Len(<< >>) = 0
  BY EmptyASeq
<1>4. CASE e = "client"
  <2>1. /\ \A k \in 1..Len(wire'["client"]) : Replied(T, called, wire'["client"][k])
        /\ CreateIsLast(sw, InHand, wire'["client"])
    BY <1>2, <1>4, ClientTakes
  <2>2. /\ plan'["client"] = << >> /\ plan'["server"] = plan["server"] /\ wire'["server"] = sw
        /\ InHand' = InHand /\ ~Linked'
    BY <1>2, <1>4 DEF Peer, InHand, Linked
  <2>3. ClientAsks(<< >>, called)
    BY <1>3, InertPlan
  <2>4. InTable'
    BY <1>2, <2>1, <2>2 DEF AnswersInv, InTable
  <2>5. InOrder'
    BY <1>2, <2>1, <2>2, <2>3 DEF InOrder
  <2>6. QED  BY <1>1, <2>4, <2>5 DEF AnswersInv
<1>5. CASE e = "server"
  <2>1. /\ plan'["server"] = << >> /\ plan'["client"] = plan["client"] /\ wire'["client"] = cw
        /\ status'["client"] = status["client"]
    BY <1>2, <1>5 DEF Peer
  <2>2. InHand' = {}
    BY <1>3, <2>1, EmptyHand DEF InHand
  <2>3. /\ CreateIsLast(sw, {}, cw) /\ Fewer(sw, {}, cw, sw, InHand, cw)
        /\ \A k \in 1..Len(sw) : Sent(T, called, sw[k])
        /\ \A k \in 1..Len(cw) : Replied(T, called, cw[k])
    BY HandEmptied DEF AnswersInv, InOrder, InTable, Fewer
  <2>4. /\ \A k \in 1..Len(wire'["server"]) : Sent(T, called, wire'["server"][k])
        /\ CreateIsLast(wire'["server"], {}, cw)
        /\ Fewer(wire'["server"], {}, cw, sw, {}, cw)
    <3>1. CASE wire'["server"] = sw
      BY <2>3, <3>1 DEF Fewer
    <3>2. CASE sw # << >> /\ wire'["server"] = Tail(sw)
      <4>1. {} \subseteq {sw[1].command} \cap OfAStream
        OBVIOUS
      <4>2. QED  BY <2>3, <3>2, <4>1, ServerTakes
    <3>3. QED  BY <1>2, <1>5, <3>1, <3>2 DEF LeavesOrReads
  <2>5. Fewer(wire'["server"], {}, cw, sw, InHand, cw)
    BY <2>3, <2>4 DEF Fewer
  <2>6. ServerAnswers(T, called, << >>, received["server"])
    BY <1>3 DEF ServerAnswers
  <2>7. QED  BY <1>1, <1>2, <2>1, <2>2, <2>3, <2>4, <2>5, <2>6, ServerAnswersOn
<1>6. QED  BY <1>4, <1>5 DEF Endpoints

LEMMA LostAnswers ==
    ASSUME AnswersInv, Lose
    PROVE  AnswersInv'
<1>1. /\ wire'["client"] = << >> /\ wire'["server"] = << >> /\ lost'
      /\ UNCHANGED <<plan, requests, received, status, called>>
  BY DEF Lose, Endpoints
<1>2. Len(<< >>) = 0
  BY EmptyASeq
<1>3. CreateIsLast(<< >>, InHand, << >>)
  BY <1>2 DEF CreateIsLast, NoneOnWay
<1>4. InHand' = InHand /\ ~Linked' /\ Excused'
  BY <1>1 DEF InHand, Linked, Excused
<1>5. InTable'
  BY <1>1, <1>2 DEF AnswersInv, InTable
<1>6. InOrder'
  BY <1>1, <1>3, <1>4 DEF AnswersInv, InOrder
<1>7. QED  BY <1>4, <1>5, <1>6 DEF AnswersInv

------------------------------------------------------------------------------
(***************************************************************************)
(* The calls of the client's user.                                         *)
(***************************************************************************)
LEMMA InertSteps ==
    ASSUME NEW c
    PROVE  /\ \A command \in OfClient \ (Commands \cup {"call"}) : \A tid, name :
                Inert(Request(command, tid, name), c)
           /\ \A command \in OfClient \ (Commands \cup {"call"}) : Inert(Send(command), c)
           /\ \A tid : Inert([Send("c0c1") EXCEPT !.tid = tid], c)
           /\ \A name : Inert(Request("connect", 1, name), c)
           /\ \A name : Inert(Request("FCPublish", 3, name), c)
           /\ \A name : Inert(Request("FCUnpublish", UnpublishTid, name), c)
           /\ c => \A tid, name : Inert(Request("call", tid, name), c)
           /\ \A packet : packet # "CreateStreamRes" => Inert(Expect(packet), c)
           /\ \A bytes : Inert(Read(bytes), c)
           /\ Inert(Step("publishing"), c)
<1>1. /\ \A command, tid, name :
           /\ Request(command, tid, name).do = "send" /\ Request(command, tid, name).command = command
           /\ Request(command, tid, name).tid = tid
      /\ \A command : Send(command).do = "send" /\ Send(command).command = command
      /\ \A packet : Expect(packet).do = "expect" /\ Expect(packet).packet = packet
      /\ \A bytes : Read(bytes).do = "read"
      /\ Step("publishing").do = "publishing"
  BY DEF Request, Send, Expect, Read, Step
<1>2. ASSUME NEW s, s.do = "send", s.command \in OfClient \ OfAStream, s.command = "call" => c,
             s.command \in Commands => HasTid(s.command, s.tid)
      PROVE  Inert(s, c)
  BY <1>2 DEF Inert, AwaitsStream, Asks, Said
<1>3. ASSUME NEW s, s.do # "send", s.do = "expect" => s.packet # "CreateStreamRes"
      PROVE  Inert(s, c)
  BY <1>3 DEF Inert, AwaitsStream, Asks
<1>4. /\ OfClient \ (Commands \cup {"call"}) \subseteq OfClient \ OfAStream
      /\ {"connect", "FCPublish", "FCUnpublish", "call", "c0c1"} \subseteq OfClient \ OfAStream
      /\ HasTid("connect", 1) /\ HasTid("FCPublish", 3) /\ HasTid("FCUnpublish", UnpublishTid)
      /\ "c0c1" \notin Commands
  BY DEF OfClient, Commands, OfAStream, HasTid
<1>5. /\ \A command \in OfClient \ (Commands \cup {"call"}) : \A tid, name :
           Inert(Request(command, tid, name), c)
      /\ \A command \in OfClient \ (Commands \cup {"call"}) : Inert(Send(command), c)
  BY <1>1, <1>2, <1>4
<1>6. \A tid : Inert([Send("c0c1") EXCEPT !.tid = tid], c)
  <2> SUFFICES ASSUME NEW tid PROVE Inert([Send("c0c1") EXCEPT !.tid = tid], c)
    OBVIOUS
  <2> DEFINE s == [Send("c0c1") EXCEPT !.tid = tid]
  <2>1. s.do = "send" /\ s.command = "c0c1"
    BY DEF Send, Request
  <2> HIDE DEF s
  <2>2. Inert(s, c)
    BY <1>2, <1>4, <2>1
  <2>3. QED  BY <2>2 DEF s
<1>7. /\ \A name : Inert(Request("connect", 1, name), c)
      /\ \A name : Inert(Request("FCPublish", 3, name), c)
      /\ \A name : Inert(Request("FCUnpublish", UnpublishTid, name), c)
  BY <1>1, <1>2, <1>4
<1>8. c => \A tid, name : Inert(Request("call", tid, name), c)
  <2> SUFFICES ASSUME c, NEW tid, NEW name PROVE Inert(Request("call", tid, name), c)
    OBVIOUS
  <2> DEFINE s == Request("call", tid, name)
  <2>1. s.do = "send" /\ s.command = "call"
    BY <1>1
  <2> HIDE DEF s
  <2>2. s.command \notin Commands
    BY <2>1 DEF Commands
  <2>3. Inert(s, c)
    BY <1>2, <1>4, <2>1, <2>2
  <2>4. QED  BY <2>3 DEF s
<1>9. /\ \A packet : packet # "CreateStreamRes" => Inert(Expect(packet), c)
      /\ \A bytes : Inert(Read(bytes), c)
      /\ Inert(Step("publishing"), c)
  BY <1>1, <1>3
<1>10. QED  BY <1>5, <1>6, <1>7, <1>8, <1>9

LEMMA AllInert ==
    ASSUME NEW S, NEW c, \A step \in S : Inert(step, c), NEW p \in Seq(S)
    PROVE  ClientAsks(p, c)
<1>1. \A k \in 1..Len(p) : Inert(p[k], c)
  OBVIOUS
<1>2. QED  BY <1>1, InertPlan

------------------------------------------------------------------------------
LEMMA PreparedAsks ==
    ASSUME NEW p, Prepares(p)
    PROVE  ClientAsks(p, called')
<1> DEFINE c == called'
<1>1. ASSUME NEW version PROVE ClientAsks(ClientHandshake(version), c)
  <2> DEFINE S == {[Send("c0c1") EXCEPT !.tid = version], Read("s0s1s2"), Send("c2")}
  <2>1. ClientHandshake(version) \in Seq(S)
    BY DEF ClientHandshake
  <2>2. \A step \in S : Inert(step, c)
    <3>1. "c2" \in OfClient \ (Commands \cup {"call"})
      BY DEF OfClient, Commands
    <3>2. QED  BY <3>1, InertSteps
  <2> HIDE DEF S
  <2>3. QED  BY <2>1, <2>2, AllInert
<1>2. ASSUME NEW app PROVE ClientAsks(ConnectApp(app), c)
  <2> DEFINE S == {Request("connect", 1, app), Send("SetWindowAckSize"), Expect("ConnectAppRes")}
  <2>1. ConnectApp(app) \in Seq(S)
    BY DEF ConnectApp
  <2>2. \A step \in S : Inert(step, c)
    <3>1. "SetWindowAckSize" \in OfClient \ (Commands \cup {"call"})
      BY DEF OfClient, Commands
    <3>2. QED  BY <3>1, InertSteps
  <2> HIDE DEF S
  <2>3. QED  BY <2>1, <2>2, AllInert
<1>3. ClientAsks(BandwidthCheck, c)
  <2> DEFINE C == {"startingPlay", "stoppedPlay", "startingPublish", "stopPublish",
                   "stoppedPublish", "final"}
             S == {Send(x) : x \in C}
                    \cup {Expect(x) : x \in {"startPlay", "stopPlay", "startPublish",
                                             "stopPublish", "finished"}}
                    \cup {Step("publishing")}
  <2>1. BandwidthCheck \in Seq(S)
    BY DEF BandwidthCheck
  <2>2. \A step \in S : Inert(step, c)
    <3>1. C \subseteq OfClient \ (Commands \cup {"call"})
      BY DEF OfClient, Commands
    <3> HIDE DEF C
    <3>2. \A x \in C : Inert(Send(x), c)
      BY <3>1, InertSteps
    <3>3. \A x \in {"startPlay", "stopPlay", "startPublish", "stopPublish", "finished"} :
            Inert(Expect(x), c)
      BY InertSteps
    <3>4. QED  BY <3>2, <3>3, InertSteps
  <2> HIDE DEF S
  <2>3. QED  BY <2>1, <2>2, AllInert
<1>4. ASSUME NEW s, Inert(s, c) PROVE ClientAsks(<<s>>, c)
  <2>1. <<s>> \in Seq({s})
    OBVIOUS
  <2>2. QED  BY <1>4, <2>1, AllInert
<1>5. ClientAsks(<<Request("FCUnpublish", UnpublishTid, "")>>, c)
  BY <1>4, InertSteps
<1>6. c => ClientAsks(<<Request("call", 9, "")>>, c)
  BY <1>4, InertSteps
<1>7. QED  BY <1>1, <1>2, <1>3, <1>5, <1>6 DEF Prepares

LEMMA StreamSteps ==
    ASSUME NEW c
    PROVE  /\ \A tid \in {2, 4} : /\ Request("createStream", tid, "").do = "send"
                                  /\ Request("createStream", tid, "").command = "createStream"
                                  /\ Request("createStream", tid, "").tid = tid
                                  /\ Said(Request("createStream", tid, ""), c)
           /\ \A name : /\ Request("releaseStream", 2, name).do = "send"
                        /\ Request("releaseStream", 2, name).command = "releaseStream"
                        /\ Said(Request("releaseStream", 2, name), c)
           /\ AwaitsStream(Expect("CreateStreamRes"))
           /\ \A name : Inert(Request("play", 0, name), c) /\ Inert(Request("publish", 0, name), c)
                          /\ Inert(Request("FCPublish", 3, name), c)
           /\ Inert(Send("UserControl"), c) /\ Inert(Send("SetChunkSize"), c)
<1>1. /\ \A command, tid, name : /\ Request(command, tid, name).do = "send"
                                 /\ Request(command, tid, name).command = command
                                 /\ Request(command, tid, name).tid = tid
      /\ Expect("CreateStreamRes").do = "expect" /\ Expect("CreateStreamRes").packet = "CreateStreamRes"
  BY DEF Request, Expect
<1>2. /\ {"createStream", "releaseStream"} \subseteq OfClient
      /\ \A tid \in {2, 4} : HasTid("createStream", tid)
      /\ HasTid("releaseStream", 2)
      /\ {"play", "publish", "UserControl", "SetChunkSize"} \subseteq OfClient \ (Commands \cup {"call"})
  BY DEF OfClient, HasTid, Commands
<1>3. \A tid \in {2, 4} : Said(Request("createStream", tid, ""), c)
  <2> SUFFICES ASSUME NEW tid \in {2, 4} PROVE Said(Request("createStream", tid, ""), c)
    OBVIOUS
  <2> DEFINE s == Request("createStream", tid, "")
  <2>1. s.command = "createStream" /\ s.tid = tid
    BY DEF Request
  <2> HIDE DEF s
  <2>2. s.command \in OfClient /\ HasTid(s.command, s.tid) /\ s.command # "call"
    BY <1>2, <2>1
  <2>3. Said(s, c)
    BY <2>2 DEF Said
  <2>4. QED  BY <2>3 DEF s
<1>4. \A name : Said(Request("releaseStream", 2, name), c)
  <2> SUFFICES ASSUME NEW name PROVE Said(Request("releaseStream", 2, name), c)
    OBVIOUS
  <2> DEFINE s == Request("releaseStream", 2, name)
  <2>1. s.command = "releaseStream" /\ s.tid = 2
    BY <1>1
  <2> HIDE DEF s
  <2>2. s.command \in OfClient /\ HasTid(s.command, s.tid) /\ s.command # "call"
    BY <1>2, <2>1
  <2>3. Said(s, c)
    BY <2>2 DEF Said
  <2>4. QED  BY <2>3 DEF s
<1>5. /\ \A name : Inert(Request("play", 0, name), c) /\ Inert(Request("publish", 0, name), c)
                     /\ Inert(Request("FCPublish", 3, name), c)
      /\ Inert(Send("UserControl"), c) /\ Inert(Send("SetChunkSize"), c)
  BY <1>2, InertSteps
<1>6. AwaitsStream(Expect("CreateStreamRes"))
  BY <1>1 DEF AwaitsStream
<1>7. \A tid \in {2, 4} : /\ Request("createStream", tid, "").do = "send"
                         /\ Request("createStream", tid, "").command = "createStream"
                         /\ Request("createStream", tid, "").tid = tid
  BY DEF Request
<1>8. \A name : /\ Request("releaseStream", 2, name).do = "send"
               /\ Request("releaseStream", 2, name).command = "releaseStream"
  BY <1>1
<1>9. QED  BY <1>3, <1>4, <1>5, <1>6, <1>7, <1>8

LEMMA StreamAsks ==
    ASSUME NEW p, NEW kind, NEW name, AsksFor(p, kind, name), NEW c
    PROVE  ClientAsks(p, c)
<1> DEFINE a == Request("createStream", 2, "")
           b == Expect("CreateStreamRes")
           A == <<a, b>>
<1>1. /\ a.do = "send" /\ Said(a, c) /\ a.command = "createStream" /\ AwaitsStream(b)
      /\ CreateStream = A
  BY StreamSteps DEF CreateStream
<1> HIDE DEF a, b
<1>2. ASeq(A) /\ Len(A) = 2 /\ A[1] = a /\ A[2] = b
  BY DEF ASeq
<1> HIDE DEF A
<1>3. ASSUME NEW q, ASeq(q), \A k \in 1..Len(q) : Inert(q[k], c)
      PROVE  ClientAsks(A \o q, c)
  <2> DEFINE aq == A \o q
             l == Len(q)
  <2>0. ASeq(A) /\ ASeq(q)
    BY <1>2, <1>3
  <2>1. ASeq(A \o q) /\ Len(A \o q) = Len(A) + Len(q)
    BY <2>0, ConcatASeq
  <2>2. \A k \in 1..Len(A) : (A \o q)[k] = A[k]
    BY <2>0, ConcatASeq
  <2>3. \A k \in 1..Len(q) : (A \o q)[Len(A) + k] = q[k]
    BY <2>0, ConcatASeq
  <2>4. l \in Nat
    BY <1>3 DEF ASeq
  <2>5. Len(aq) = 2 + l /\ aq[1] = a /\ aq[2] = b /\ \A k \in 1..l : aq[2 + k] = q[k]
    BY <1>2, <2>1, <2>2, <2>3
  <2> HIDE DEF aq, l
  <2>6. ASSUME NEW k \in 1..Len(aq), k \notin {1, 2} PROVE Inert(aq[k], c)
    <3>1. k - 2 \in 1..l /\ 2 + (k - 2) = k
      BY <2>4, <2>5, <2>6
    <3>2. aq[k] = q[k - 2]
      BY <2>5, <3>1
    <3>3. QED  BY <1>3, <3>1, <3>2 DEF l
  <2>7. 1 \in 1..Len(aq) /\ 2 \in 1..Len(aq) /\ Len(aq) \in Nat
    BY <2>4, <2>5
  <2> DEFINE z == 1
             w == 2
  <2>8. /\ z \in 1..Len(aq) /\ w \in 1..Len(aq) /\ z <= z /\ z < w
        /\ \A k \in 1..Len(aq) : k \notin {z, z, w} => Inert(aq[k], c)
        /\ aq[z].do = "send" /\ Said(aq[z], c) /\ aq[z].command = "createStream" /\ AwaitsStream(aq[w])
    BY <1>1, <2>5, <2>6, <2>7
  <2> HIDE DEF z, w
  <2>9. ClientAsks(aq, c)
    BY <2>7, <2>8, AsksOnce
  <2>10. QED  BY <2>9 DEF aq
<1>4. ASeq(Play(name)) /\ \A k \in 1..Len(Play(name)) : Inert(Play(name)[k], c)
  <2> DEFINE S == {Request("play", 0, name), Send("UserControl"), Send("SetChunkSize")}
  <2>1. Play(name) \in Seq(S)
    BY DEF Play
  <2>2. \A step \in S : Inert(step, c)
    BY StreamSteps
  <2> HIDE DEF S
  <2>3. QED  BY <2>1, <2>2, SeqIsASeq
<1>5. ASeq(Publish(name)) /\ \A k \in 1..Len(Publish(name)) : Inert(Publish(name)[k], c)
  <2> DEFINE S == {Request("publish", 0, name), Send("SetChunkSize")}
  <2>1. Publish(name) \in Seq(S)
    BY DEF Publish
  <2>2. \A step \in S : Inert(step, c)
    BY StreamSteps
  <2> HIDE DEF S
  <2>3. QED  BY <2>1, <2>2, SeqIsASeq
<1>6. ClientAsks(CreateStream \o Play(name), c) /\ ClientAsks(CreateStream \o Publish(name), c)
  BY <1>1, <1>3, <1>4, <1>5
<1>7. ClientAsks(FmlePublish(name), c)
  <2> DEFINE d == Request("releaseStream", 2, name)
             e == Request("FCPublish", 3, name)
             f == Request("createStream", 4, "")
             g == Request("publish", 0, name)
             P == <<d, e, f, b, g>>
  <2>1. FmlePublish(name) = P
    BY DEF FmlePublish, b
  <2>2. /\ d.do = "send" /\ Said(d, c) /\ d.command = "releaseStream" /\ Inert(e, c) /\ Inert(g, c)
        /\ f.do = "send" /\ Said(f, c) /\ f.command = "createStream" /\ f.tid = 4
    BY StreamSteps
  <2> HIDE DEF d, e, f, g
  <2>3. ASeq(P) /\ Len(P) = 5 /\ P[1] = d /\ P[2] = e /\ P[3] = f /\ P[4] = b /\ P[5] = g
    BY DEF ASeq
  <2> HIDE DEF P
  <2> DEFINE z == 1
             s == 3
             w == 4
  <2>4. \A k \in 1..Len(P) : k \notin {z, s, w} => Inert(P[k], c)
    <3>1. \A k \in 1..5 : k \notin {1, 3, 4} => k = 2 \/ k = 5
      OBVIOUS
    <3>2. QED  BY <2>2, <2>3, <3>1
  <2>5. /\ z \in 1..Len(P) /\ s \in 1..Len(P) /\ w \in 1..Len(P) /\ z <= s /\ s < w /\ Len(P) \in Nat
    BY <2>3
  <2>6. /\ P[s].do = "send" /\ Said(P[s], c) /\ P[s].command = "createStream"
        /\ P[z].do = "send" /\ Said(P[z], c) /\ AwaitsStream(P[w])
        /\ z # s => P[z].command = "releaseStream" /\ P[s].tid # 2
    BY <1>1, <2>2, <2>3
  <2> HIDE DEF z, s, w
  <2>7. ClientAsks(P, c)
    BY <2>4, <2>5, <2>6, AsksOnce
  <2>8. QED  BY <2>1, <2>7
<1>8. QED  BY <1>6, <1>7 DEF AsksFor

LEMMA UserAnswers ==
    ASSUME IInv, JourneyInv, AnswersInv, UserStep
    PROVE  AnswersInv'
<1>1. PICK p : Calls(p) /\ MakesCall(p)
  BY UserCalls DEF JourneyInv
<1>2. called => called'
  BY UserCalls DEF JourneyInv
<1>3. /\ plan["client"] = << >> /\ plan'["client"] = p /\ plan'["server"] = plan["server"]
      /\ UNCHANGED <<wire, requests, received, status, lost>>
  BY <1>1 DEF Calls, Plans, Peer
<1>4. ClientAsks(p, called')
  BY <1>1, PreparedAsks, StreamAsks DEF MakesCall
<1>5. InHand' = InHand /\ Linked' = Linked /\ (Excused => Excused')
  BY <1>2, <1>3 DEF InHand, Linked, Excused
<1>6. ASSUME Linked
      PROVE  Settled(p, wire["server"], InHand, wire["client"])
  <2>1. Settled(<< >>, wire["server"], InHand, wire["client"])
    BY <1>3, <1>6 DEF AnswersInv, InOrder
  <2>2. ~Open(wire["server"], InHand, wire["client"], OfAStream)
    BY <2>1, EmptyASeq DEF Settled
  <2>3. QED  BY <2>2, NothingOpenSettles
<1>7. InOrder'
  BY <1>3, <1>4, <1>5, <1>6 DEF AnswersInv, InOrder
<1>8. InTable'
  <2> DEFINE T == requests["client"]
             c == called
             d == called'
  <2>1. /\ \A m : Sent(T, c, m) => Sent(T, d, m)
        /\ \A m : Replied(T, c, m) => Replied(T, d, m)
    <3> HIDE DEF T, c, d
    <3>1. c => d
      BY <1>2 DEF c, d
    <3>2. QED  BY <3>1, MoreCalled
  <2>2. InTable
    BY DEF AnswersInv
  <2>3. QED  BY <1>3, <2>1, <2>2 DEF InTable, ServerAnswers
<1>9. QED  BY <1>3, <1>5, <1>7, <1>8 DEF AnswersInv

LEMMA NextAnswers == IInv /\ JourneyInv /\ AnswersInv /\ [Next]_vars => AnswersInv'
<1> SUFFICES ASSUME IInv, JourneyInv, AnswersInv, [Next]_vars PROVE AnswersInv'
  OBVIOUS
<1>1. CASE Next
  <2>1. Event
    BY <1>1, EveryStep DEF JourneyInv
  <2>2. \A e \in Endpoints : e = "client" \/ e = "server"
    BY DEF Endpoints
  <2>3. CASE \E e \in Endpoints : \E m : Writes(e, m)
    BY <2>2, <2>3, ClientWritesAnswers, ServerWritesAnswers
  <2>4. CASE \E e \in Endpoints : \E why : Fails(e, why)
    BY <2>4, FailsAnswers
  <2>5. CASE \E e \in Endpoints : Reads(e) \/ Drops(e)
    BY <2>2, <2>5, ClientReadsAnswers, ServerReadsAnswers
  <2>6. CASE \E p : Identifies(p) \/ Decides(p)
    BY <2>6, ServerIdentifiesAnswers, ServerCallsAnswers
  <2>7. CASE \E n \in Nat : Publishes(n)
    BY <2>7, ClientPublishesAnswers
  <2>8. CASE Serves \/ Unpublishes
    BY <2>8, ServerCallsAnswers
  <2>9. CASE UserStep
    BY <2>9, UserAnswers
  <2>10. CASE Lose
    BY <2>10, LostAnswers
  <2>11. QED  BY <2>1, <2>3, <2>4, <2>5, <2>6, <2>7, <2>8, <2>9, <2>10 DEF Event
<1>2. CASE UNCHANGED vars
  BY <1>2 DEF vars, AnswersInv, InTable, InOrder, InHand, Linked, Excused
<1>3. QED  BY <1>1, <1>2

\* Whatever the server says, the client takes for the answer it is, until its user makes a
\* call of their own, which the table of requests does not know.
THEOREM AnswersAreKnown == Spec => []AnswersInv
<1>1. QED  BY InitAnswers, NextAnswers, Inductive, Journeys, PTL DEF Spec

\* A call of the client only fails when the connection was lost, the server rejected it, its
\* own data was no good, or the user sent a call: none of the packets decoded is taken for
\* another one, and no _result for one of an earlier request.
THEOREM ClientFailsForAReason == Spec => []FailsForAReason
<1>1. AnswersInv => FailsForAReason
  BY DEF AnswersInv, Excused, FailsForAReason, Endpoints
<1>2. QED  BY <1>1, AnswersAreKnown, PTL

------------------------------------------------------------------------------
LEMMA StaysThrough ==
    ASSUME NEW n \in Nat, NEW v, \A k \in 1..n : v[k + 1] = v[k]
    PROVE  \A k \in 1..(n + 1) : v[k] = v[1]
<1> SUFFICES ASSUME NEW i \in 1..(n + 1), v[i] # v[1] PROVE FALSE
  OBVIOUS
<1> DEFINE Others1 == {j \in 1..(n + 1) : v[j] # v[1]}
<1>1. i \in Others1 /\ Others1 \subseteq Nat
  OBVIOUS
<1>2. PICK x \in Others1 : \A y \in Others1 : ~(<<y, x>> \in OpToRel(<, Nat))
  BY <1>1, WFMin, NatLessThanWellFounded
<1>3. \A y \in Others1 : ~(y < x)
  BY <1>1, <1>2 DEF OpToRel
<1>4. x \in 1..(n + 1) /\ x # 1 /\ v[x] # v[1]
  OBVIOUS
<1>5. x - 1 \in 1..n /\ (x - 1) + 1 = x /\ x - 1 < x /\ x - 1 \in 1..(n + 1)
  BY <1>4
<1>6. v[x] = v[x - 1]
  BY <1>5
<1>7. QED  BY <1>3, <1>4, <1>5, <1>6

\* Only such a message leaves the server where it is.
LEMMA MovesOrStays ==
    ASSUME NEW asks, NEW v \in Views, NEW m, NEW w \in Views, Moves(asks, v, m, w)
    PROVE  m.command \in Stays <=> w = v
<1>1. CASE <<v.at, m.command>> \in Idle /\ w = v
  BY <1>1 DEF Idle, Stays
<1>2. CASE <<v.at, m.command, w.at>> \in Ways
  BY <1>2 DEF Ways, Stays
<1>3. CASE v.at = "connect" /\ m.command = "connect" /\ w = At(Connected(m.name), v.done)
  BY <1>3, AtFields DEF Connected, Stays
<1>4. CASE v.at = "identify" /\ m.command = "releaseStream" /\ w = At("fc", v.done)
  BY <1>4, AtFields DEF Stays
<1>5. CASE w = At("media", v.done + 1) /\ m.command \in {"play", "publish"}
  <2>1. w.done = v.done + 1 /\ v.done \in Nat
    BY <1>5, AtFields DEF Views
  <2>2. w # v
    BY <2>1
  <2>3. QED  BY <1>5, <2>2 DEF Stays
<1>6. QED  BY <1>1, <1>2, <1>3, <1>4, <1>5 DEF Moves

LEMMA StillWire ==
    ASSUME NEW asks, NEW v, NEW messages, WirePath(asks, v, messages), Still(messages)
    PROVE  v[Len(v)] = v[1]
<1> DEFINE n == Len(messages)
<1>1. n \in Nat /\ Len(v) = n + 1 /\ \A k \in 1..(n + 1) : v[k] \in Views
  BY DEF WirePath, ASeq, Path
<1>2. \A k \in 1..n : v[k + 1] = v[k]
  <2> SUFFICES ASSUME NEW k \in 1..n PROVE v[k + 1] = v[k]
    OBVIOUS
  <2>1. k \in 1..(n + 1) /\ k + 1 \in 1..(n + 1)
    BY <1>1
  <2>2. Moves(asks, v[k], messages[k], v[k + 1]) /\ messages[k].command \in Stays
    BY DEF WirePath, Still
  <2>3. QED  BY <1>1, <2>1, <2>2, MovesOrStays
<1> HIDE DEF n
<1>3. n + 1 \in 1..(n + 1)
  BY <1>1
<1>4. QED  BY <1>1, <1>2, <1>3, StaysThrough

LEMMA StillPlan ==
    ASSUME NEW asks, NEW t, NEW p, ClientPath(asks, t, p), NEW j \in 1..(Len(p) + 1), StillBefore(p, j)
    PROVE  t[j] = t[1]
<1> DEFINE n == j - 1
<1>1. Len(p) \in Nat /\ Len(t) = Len(p) + 1 /\ \A k \in 1..(Len(p) + 1) : t[k] \in Views
  BY DEF ClientPath, ASeq, Path
<1>2. \A k \in 1..n : t[k + 1] = t[k]
  <2> SUFFICES ASSUME NEW k \in 1..(j - 1) PROVE t[k + 1] = t[k]
    OBVIOUS
  <2>1. k \in 1..(Len(p) + 1) /\ k + 1 \in 1..(Len(p) + 1) /\ k \in 1..Len(p)
    BY <1>1
  <2>2. Goes(asks, t[k], p[k], t[k + 1]) /\ (p[k].do = "send" => p[k].command \in Stays)
    BY <2>1 DEF ClientPath, StillBefore
  <2>3. QED  BY <1>1, <2>1, <2>2, MovesOrStays DEF Goes
<1>3. n \in Nat /\ n + 1 = j /\ j \in 1..(n + 1)
  BY <1>1
<1> HIDE DEF n
<1>4. QED  BY <1>2, <1>3, StaysThrough

\* Where the client waits next, the server is already.
LEMMA AtWait ==
    ASSUME NEW r, NEW v, NEW t, OnJourney(r, v, t), Linked, NEW j \in 1..(Len(plan["client"]) + 1), Reached(j)
    PROVE  /\ r[1] = t[j] /\ v[1] = r[1] /\ t[1] = r[1] /\ t[j] \in Views
           /\ ClientPath(asked, t, plan["client"])
           /\ FirstWait(plan["client"], j) => <<r[1].at, plan["client"][j].packet>> \in Expected
           /\ j = Len(plan["client"]) + 1 => r[1] = Home
<1>1. /\ ClientPath(asked, t, plan["client"]) /\ WirePath(asked, v, wire["server"])
      /\ v[1] = r[1] /\ t[1] = v[Len(v)] /\ t[Len(t)] = Home
  BY DEF OnJourney, ServerSide, ClientSide
<1>2. v[Len(v)] = v[1] /\ t[j] = t[1]
  BY <1>1, StillWire, StillPlan DEF Reached
<1>3. Len(t) = Len(plan["client"]) + 1 /\ t[j] \in Views
  BY <1>1 DEF ClientPath, Path
<1>4. FirstWait(plan["client"], j) => <<t[j].at, plan["client"][j].packet>> \in Expected
  BY <1>1 DEF FirstWait, ClientPath, Goes, Awaits
<1>5. QED  BY <1>1, <1>2, <1>3, <1>4

------------------------------------------------------------------------------
(***************************************************************************)
(* What comes, while the server goes on.                                   *)
(***************************************************************************)
LEMMA SendsTail ==
    ASSUME NEW p, ASeq(p), p # << >>, NEW packet, Sends(p, packet)
    PROVE  /\ p[1].do \in {"send", "reply"}
           /\ Sends(Tail(p), packet) \/ (p[1].do = "send" /\ IsFor(p[1], packet))
<1>1. PICK j \in 1..Len(p) : /\ p[j].do = "send" /\ IsFor(p[j], packet)
                             /\ \A k \in 1..(j - 1) : p[k].do \in {"send", "reply"}
  BY DEF Sends
<1>2. /\ Len(p) \in Nat /\ Len(Tail(p)) = Len(p) - 1
      /\ \A k \in 1..Len(Tail(p)) : Tail(p)[k] = p[k + 1]
  BY TailFields
<1>3. CASE j = 1
  BY <1>1, <1>3
<1>4. CASE j # 1
  <2>1. 1 \in 1..(j - 1) /\ j - 1 \in 1..Len(Tail(p)) /\ (j - 1) + 1 = j
    BY <1>2, <1>4
  <2>2. Tail(p)[j - 1] = p[j]
    BY <1>2, <2>1
  <2>3. ASSUME NEW k \in 1..((j - 1) - 1) PROVE Tail(p)[k].do \in {"send", "reply"}
    <3>1. k + 1 \in 1..(j - 1) /\ k \in 1..Len(Tail(p))
      BY <1>2
    <3>2. QED  BY <1>1, <1>2, <3>1
  <2>4. Sends(Tail(p), packet)
    BY <1>1, <2>1, <2>2, <2>3 DEF Sends
  <2>5. QED  BY <1>1, <2>1, <2>4
<1>5. QED  BY <1>3, <1>4

LEMMA RejectsTail ==
    ASSUME NEW p, ASeq(p), p # << >>, Rejects(p), p[1].do # "reject"
    PROVE  p[1].do = "send" /\ Rejects(Tail(p))
<1>1. PICK j \in 1..Len(p) : p[j].do = "reject" /\ \A k \in 1..(j - 1) : p[k].do = "send"
  BY DEF Rejects
<1>2. /\ Len(p) \in Nat /\ Len(Tail(p)) = Len(p) - 1
      /\ \A k \in 1..Len(Tail(p)) : Tail(p)[k] = p[k + 1]
  BY TailFields
<1>3. j # 1
  BY <1>1
<1>4. 1 \in 1..(j - 1) /\ j - 1 \in 1..Len(Tail(p)) /\ (j - 1) + 1 = j
  BY <1>2, <1>3
<1>5. Tail(p)[j - 1] = p[j]
  BY <1>2, <1>4
<1>6. ASSUME NEW k \in 1..((j - 1) - 1) PROVE Tail(p)[k].do = "send"
  <2>1. k + 1 \in 1..(j - 1) /\ k \in 1..Len(Tail(p))
    BY <1>2
  <2>2. QED  BY <1>1, <1>2, <2>1
<1>7. Rejects(Tail(p))
  BY <1>1, <1>4, <1>5, <1>6 DEF Rejects
<1>8. QED  BY <1>1, <1>4, <1>7

LEMMA WireGrows ==
    ASSUME NEW messages, ASeq(messages), NEW m, NEW packet
    PROVE  /\ OnWire(messages, packet) \/ IsFor(m, packet) => OnWire(Append(messages, m), packet)
           /\ Queued(messages) => Queued(Append(messages, m))
           /\ OnWire(messages, "ConnectAppRes") /\ IsFor(m, "startPlay") => Queued(Append(messages, m))
<1> DEFINE n == Len(messages)
           a == Append(messages, m)
<1>1. n \in Nat /\ Len(a) = n + 1 /\ a[n + 1] = m /\ \A k \in 1..n : a[k] = messages[k]
  BY AppendASeq DEF ASeq
<1>2. \A k \in 1..n : k \in 1..(n + 1) /\ k < n + 1
  BY <1>1
<1>3. n + 1 \in 1..(n + 1)
  BY <1>1
<1> HIDE DEF n, a
<1>4. OnWire(messages, packet) \/ IsFor(m, packet) => OnWire(a, packet)
  BY <1>1, <1>2, <1>3 DEF OnWire, n
<1>5. Queued(messages) => Queued(a)
  BY <1>1, <1>2 DEF Queued, n
<1>6. OnWire(messages, "ConnectAppRes") /\ IsFor(m, "startPlay") => Queued(a)
  BY <1>1, <1>2, <1>3 DEF OnWire, Queued, n
<1>7. QED  BY <1>4, <1>5, <1>6 DEF a

\* A plan that does none of this sends nothing before it is another one.
Waiting(p) == p # << >> /\ ASeq(p) /\ p[1].do \notin {"send", "reply", "decide", "reject"}

LEMMA OnlyOnWire ==
    ASSUME NEW p, Waiting(p), NEW m, NEW messages, NEW packet
    PROVE  /\ Comes(p, m, messages, packet) => OnWire(messages, packet)
           /\ InTurn(p, messages) => Queued(messages)
<1>1. \A x : ~Sends(p, x)
  BY SendsTail DEF Waiting
<1>2. ~Rejects(p)
  BY RejectsTail DEF Waiting
<1>3. QED  BY <1>1, <1>2 DEF Waiting, Comes, InTurn, RepliesNow, Decisive

\* What is queued in turn comes.
LEMMA QueuedComes ==
    ASSUME NEW p, NEW m, NEW messages, InTurn(p, messages)
    PROVE  Comes(p, m, messages, "startPlay")
<1>1. Queued(messages) => OnWire(messages, "startPlay")
  BY DEF Queued, OnWire
<1>2. QED  BY <1>1 DEF InTurn, Comes

\* When the server sends, what came still comes.
LEMMA ComesSaid ==
    ASSUME NEW p, p # << >>, ASeq(p), NEW messages, ASeq(messages), NEW x, NEW m,
           \/ p[1].do = "send" /\ m.command = p[1].command /\ m.of = p[1].of
           \/ p[1].do = "reply" /\ m.command = "_result" /\ m.of = x.command
    PROVE  /\ \A packet : Comes(p, x, messages, packet) => Comes(Tail(p), x, Append(messages, m), packet)
           /\ InTurn(p, messages) => InTurn(Tail(p), Append(messages, m))
<1> DEFINE a == Append(messages, m)
<1>1. /\ \A packet : OnWire(messages, packet) \/ IsFor(m, packet) => OnWire(a, packet)
      /\ Queued(messages) => Queued(a)
      /\ OnWire(messages, "ConnectAppRes") /\ IsFor(m, "startPlay") => Queued(a)
  BY WireGrows
<1>2. \A packet : p[1].do = "send" /\ IsFor(p[1], packet) => IsFor(m, packet)
  BY DEF IsFor
<1>3. \A packet : Sends(p, packet) => Sends(Tail(p), packet) \/ (p[1].do = "send" /\ IsFor(p[1], packet))
  BY SendsTail
<1>4. Rejects(p) => Rejects(Tail(p))
  BY RejectsTail
<1> HIDE DEF a
<1>5. ASSUME NEW packet, Comes(p, x, messages, packet) PROVE Comes(Tail(p), x, a, packet)
  <2>1. CASE OnWire(messages, packet)
    BY <1>1, <2>1 DEF Comes
  <2>2. CASE Sends(p, packet)
    BY <1>1, <1>2, <1>3, <2>2 DEF Comes
  <2>3. CASE RepliesNow(p, x) /\ packet = "CreateStreamRes"
    <3>1. IsFor(m, "CreateStreamRes")
      BY <2>3 DEF RepliesNow, IsFor, ResponseTo
    <3>2. QED  BY <1>1, <2>3, <3>1 DEF Comes
  <2>4. CASE Rejects(p) /\ packet = "ConnectAppRes"
    BY <1>4, <2>4 DEF Comes
  <2>5. ~Decisive(p)
    BY DEF Decisive
  <2>6. QED  BY <1>5, <2>1, <2>2, <2>3, <2>4, <2>5 DEF Comes
<1>6. ASSUME InTurn(p, messages) PROVE InTurn(Tail(p), a)
  <2>1. CASE Queued(messages)
    BY <1>1, <2>1 DEF InTurn
  <2>2. CASE /\ Sends(p, "startPlay")
             /\ (p[1].do = "send" /\ IsFor(p[1], "ConnectAppRes")) \/ OnWire(messages, "ConnectAppRes")
    <3>1. OnWire(a, "ConnectAppRes")
      BY <1>1, <1>2, <2>2
    <3>2. CASE Sends(Tail(p), "startPlay")
      BY <3>1, <3>2 DEF InTurn
    <3>3. CASE p[1].do = "send" /\ IsFor(p[1], "startPlay")
      <4>1. ~IsFor(p[1], "ConnectAppRes")
        BY <3>3 DEF IsFor, ResponseTo
      <4>2. Queued(a)
        BY <1>1, <1>2, <2>2, <3>3, <4>1
      <4>3. QED  BY <4>2 DEF InTurn
    <3>4. QED  BY <1>3, <2>2, <3>2, <3>3
  <2>3. ~Decisive(p)
    BY DEF Decisive
  <2>4. QED  BY <1>6, <2>1, <2>2, <2>3 DEF InTurn
<1>7. QED  BY <1>5, <1>6 DEF a

------------------------------------------------------------------------------
(***************************************************************************)
(* Steps of the server.                                                    *)
(***************************************************************************)
LEMMA StillTail ==
    ASSUME NEW messages, ASeq(messages), messages # << >>, messages[1].command \in Stays,
           Still(Tail(messages))
    PROVE  Still(messages)
<1> SUFFICES ASSUME NEW k \in 1..Len(messages) PROVE messages[k].command \in Stays
  BY DEF Still
<1>1. /\ Len(messages) \in Nat /\ Len(Tail(messages)) = Len(messages) - 1
      /\ \A i \in 1..Len(Tail(messages)) : Tail(messages)[i] = messages[i + 1]
  BY TailFields
<1>2. CASE k = 1
  BY <1>2
<1>3. CASE k # 1
  <2>1. k - 1 \in 1..Len(Tail(messages)) /\ (k - 1) + 1 = k
    BY <1>1, <1>3
  <2>2. QED  BY <1>1, <2>1 DEF Still
<1>4. QED  BY <1>2, <1>3

\* What the client waits for next, when the server has read one more message.
LEMMA AtWaitNext ==
    ASSUME NEW r, NEW v, NEW t, OnJourney(r, v, t), Linked, NEW j \in 1..(Len(plan["client"]) + 1),
           wire["server"] # << >>, Still(Tail(wire["server"])), StillBefore(plan["client"], j)
    PROVE  /\ FirstWait(plan["client"], j) => <<v[2].at, plan["client"][j].packet>> \in Expected
           /\ j = Len(plan["client"]) + 1 => v[2] = Home
<1>1. /\ ClientPath(asked, t, plan["client"]) /\ WirePath(asked, v, wire["server"])
      /\ t[1] = v[Len(v)] /\ t[Len(t)] = Home
  BY DEF OnJourney, ServerSide, ClientSide
<1>2. /\ WirePath(asked, Tail(v), Tail(wire["server"])) /\ Tail(v)[1] = v[2]
      /\ Tail(v)[Len(Tail(v))] = v[Len(v)]
  BY <1>1, WirePathTail
<1>3. v[Len(v)] = v[2]
  BY <1>2, StillWire
<1>4. t[j] = t[1]
  BY <1>1, StillPlan
<1>5. Len(t) = Len(plan["client"]) + 1
  BY <1>1 DEF ClientPath, Path
<1>6. FirstWait(plan["client"], j) => <<t[j].at, plan["client"][j].packet>> \in Expected
  BY <1>1 DEF FirstWait, ClientPath, Goes, Awaits
<1>7. QED  BY <1>1, <1>3, <1>4, <1>5, <1>6

LEMMA ApartByServer ==
    ASSUME ByServer, JourneyInv, Apart
    PROVE  Apart'
<1>1. PICK v : WirePath(asked, v, wire["server"])
  BY DEF JourneyInv, OnJourney, ServerSide
<1>2. ASSUME \A k \in 1..Len(wire["server"]) : ~Leaves(wire["server"][k])
      PROVE  \A k \in 1..Len(wire'["server"]) : ~Leaves(wire'["server"][k])
  <2>1. CASE wire'["server"] = wire["server"]
    BY <1>2, <2>1
  <2>2. CASE wire["server"] # << >> /\ wire'["server"] = Tail(wire["server"])
    <3>1. \A k \in 1..Len(Tail(wire["server"])) :
            k + 1 \in 1..Len(wire["server"]) /\ Tail(wire["server"])[k] = wire["server"][k + 1]
      BY <1>1, <2>2, TailFields DEF WirePath
    <3>2. QED  BY <1>2, <2>2, <3>1
  <2>3. QED  BY <2>1, <2>2 DEF ByServer
<1>3. asked = << >> => Early(plan'["client"], wire'["server"])
  BY <1>2 DEF Apart, Early, ByServer
<1>4. QED  BY <1>3 DEF Apart, ByServer

\* The server stays where it is, and what came still comes.
LEMMA StaysAndComes ==
    ASSUME Promised, CheckBegins, ByServer, Still(wire'["server"]) => Still(wire["server"]),
           Still(wire["server"]) =>
             /\ \A packet : ComesNow(packet) => ComesNow(packet)'
             /\ InTurn(plan["server"], wire["client"]) => InTurn(plan["server"], wire["client"])'
    PROVE  (Promised /\ CheckBegins)'
<1>1. \A j : Reached(j)' => Reached(j) /\ Still(wire["server"])
  BY DEF Reached, ByServer
<1>2. ASSUME NEW j, FirstWait(plan["client"], j)', Reached(j)'
      PROVE  ComesNow(plan["client"][j].packet)'
  <2>1. FirstWait(plan["client"], j) /\ Reached(j) /\ Still(wire["server"])
    BY <1>1, <1>2 DEF ByServer
  <2>2. ComesNow(plan["client"][j].packet)
    BY <2>1 DEF Promised
  <2>3. \A packet : ComesNow(packet) => ComesNow(packet)'
    BY <2>1
  <2>4. plan'["client"][j].packet = plan["client"][j].packet
    BY DEF ByServer
  <2>5. QED  BY <2>2, <2>3, <2>4 DEF ComesNow
<1>3. ASSUME phase' = "check"
      PROVE  /\ ConnectsFirst(plan["client"])'
             /\ Reached(Len(plan["client"]) + 1)' =>
                  IF plan'["client"] = << >> THEN ComesNow("startPlay")'
                                             ELSE InTurn(plan["server"], wire["client"])'
  <2>1. ConnectsFirst(plan["client"])'
    BY <1>3 DEF ByServer, CheckBegins
  <2>2. ASSUME Reached(Len(plan["client"]) + 1)'
        PROVE  IF plan'["client"] = << >> THEN ComesNow("startPlay")'
                                          ELSE InTurn(plan["server"], wire["client"])'
    <3>1. Reached(Len(plan["client"]) + 1) /\ Still(wire["server"])
      BY <2>2 DEF Reached, ByServer
    <3>2. IF plan["client"] = << >> THEN ComesNow("startPlay")
                                    ELSE InTurn(plan["server"], wire["client"])
      BY <1>3, <3>1 DEF ByServer, CheckBegins
    <3>3. QED  BY <3>1, <3>2 DEF ByServer
  <2>3. QED  BY <2>1, <2>2
<1>4. QED  BY <1>2, <1>3 DEF Promised, CheckBegins

\* The server gets where the client waits for something, and will send it.
LEMMA GetsThere ==
    ASSUME CheckBegins, ByServer,
           \A j \in 1..Len(plan["client"]) : FirstWait(plan["client"], j) /\ Reached(j)' =>
             ComesNow(plan["client"][j].packet)',
           phase = "check" /\ Reached(Len(plan["client"]) + 1)' => InTurn(plan["server"], wire["client"])'
    PROVE  (Promised /\ CheckBegins)'
<1>1. ASSUME NEW j, FirstWait(plan["client"], j)', Reached(j)'
      PROVE  ComesNow(plan["client"][j].packet)'
  <2>1. FirstWait(plan["client"], j) /\ j \in 1..Len(plan["client"])
    BY <1>1 DEF ByServer, FirstWait
  <2>2. ComesNow(plan["client"][j].packet)'
    BY <1>1, <2>1 DEF ByServer
  <2>3. QED  BY <2>2
<1>2. ASSUME phase' = "check"
      PROVE  /\ ConnectsFirst(plan["client"])'
             /\ Reached(Len(plan["client"]) + 1)' =>
                  IF plan'["client"] = << >> THEN ComesNow("startPlay")'
                                             ELSE InTurn(plan["server"], wire["client"])'
  <2>1. ConnectsFirst(plan["client"])'
    BY <1>2 DEF ByServer, CheckBegins
  <2>2. Reached(Len(plan["client"]) + 1)' => InTurn(plan["server"], wire["client"])'
    BY <1>2 DEF ByServer, Reached
  <2>3. InTurn(plan["server"], wire["client"])' => ComesNow("startPlay")'
    BY QueuedComes DEF ComesNow
  <2>4. QED  BY <2>1, <2>2, <2>3
<1>3. QED  BY <1>1, <1>2 DEF Promised, CheckBegins

------------------------------------------------------------------------------
LEMMA SaysAndWaits ==
    ASSUME IInv, JourneyInv, WaitsInv, NEW m, Writes("server", m)
    PROVE  WaitsInv'
<1> DEFINE p == plan["server"]
           u == wire["client"]
           x == received["server"]
<1>1. /\ p # << >> /\ plan'["server"] = Tail(p) /\ plan'["client"] = plan["client"]
      /\ wire'["server"] = wire["server"] /\ wire'["client"] = Append(u, m)
      /\ received'["server"] = x /\ UNCHANGED <<phase, asked, lost, status>>
  BY DEF Writes, Others, Peer
<1>2. /\ \/ p[1].do = "send" /\ m.command = p[1].command /\ m.of = p[1].of
         \/ p[1].do = "reply" /\ m.command = "_result" /\ m.of = x.command
      /\ ASeq(p) /\ ASeq(u)
  BY DEF Writes, Says, IInv, AwaitsNone, Given
<1>3. ByServer
  BY <1>1 DEF ByServer
<1>4. Apart'
  BY <1>3, ApartByServer DEF WaitsInv
<1>5. /\ \A packet : Comes(p, x, u, packet) => Comes(Tail(p), x, Append(u, m), packet)
      /\ InTurn(p, u) => InTurn(Tail(p), Append(u, m))
  BY <1>1, <1>2, ComesSaid
<1>6. /\ \A packet : ComesNow(packet) => ComesNow(packet)'
      /\ InTurn(p, u) => InTurn(p, u)'
  BY <1>1, <1>5 DEF ComesNow
<1>7. Together' => Promised /\ CheckBegins
  BY <1>1 DEF Together, WaitsInv
<1>8. Together' => (Promised /\ CheckBegins)'
  BY <1>1, <1>3, <1>6, <1>7, StaysAndComes
<1>9. QED  BY <1>4, <1>8 DEF WaitsInv

\* The server goes on to another plan, or drops a message, while what it owes is on the wire.
LEMMA OwesNothing ==
    ASSUME IInv, JourneyInv, WaitsInv, Waiting(plan["server"]), ByServer,
           wire'["client"] = wire["client"], UNCHANGED <<lost, status>>,
           Still(wire'["server"]) => Still(wire["server"])
    PROVE  WaitsInv'
<1>1. Apart'
  BY ApartByServer DEF WaitsInv
<1>2. \A packet : OnWire(wire["client"], packet) => ComesNow(packet)'
  BY DEF ComesNow, Comes
<1>3. \A packet : ComesNow(packet) => OnWire(wire["client"], packet)
  BY OnlyOnWire DEF ComesNow
<1>4. InTurn(plan["server"], wire["client"]) => InTurn(plan["server"], wire["client"])'
  BY OnlyOnWire DEF InTurn
<1>5. Together' => Promised /\ CheckBegins
  BY DEF Together, WaitsInv
<1>6. Together' => (Promised /\ CheckBegins)'
  BY <1>2, <1>3, <1>4, <1>5, StaysAndComes
<1>7. QED  BY <1>1, <1>6 DEF WaitsInv

LEMMA ServesAndWaits ==
    ASSUME IInv, JourneyInv, WaitsInv, Serves \/ Unpublishes
    PROVE  WaitsInv'
<1>1. /\ plan["server"] # << >> /\ plan["server"][1].do \in {"serve", "unpublish"}
      /\ plan'["client"] = plan["client"] /\ wire' = wire /\ UNCHANGED <<phase, asked, lost, status>>
  BY DEF Serves, Unpublishes, Plans, Others, Peer
<1>2. ASeq(plan["server"])
  BY DEF IInv, AwaitsNone
<1>3. Waiting(plan["server"]) /\ ByServer
  BY <1>1, <1>2 DEF Waiting, ByServer
<1>4. QED  BY <1>1, <1>3, OwesNothing

LEMMA DropsAndWaits ==
    ASSUME IInv, JourneyInv, WaitsInv, Drops("server")
    PROVE  WaitsInv'
<1> DEFINE p == plan["server"]
           m == wire["server"][1]
<1>1. /\ p # << >> /\ wire["server"] # << >> /\ plan'["server"] = p
      /\ plan'["client"] = plan["client"] /\ wire'["server"] = Tail(wire["server"])
      /\ wire'["client"] = wire["client"] /\ UNCHANGED <<phase, asked, lost, status>>
  BY DEF Drops, TakesOne, Others, Peer
<1>2. \/ p[1].do = "expect" /\ Decode("server", m) # p[1].packet
      \/ p[1].do \in {"identify", "level1"} /\ m.command \in IgnoredByIdentify
  BY DEF Drops
<1>3. PICK r, v : ServerSide(r, v)
  BY DEF JourneyInv, OnJourney
<1>4. /\ ASeq(p) /\ r[1] \in Views /\ r[2] \in Views /\ v[1] = r[1] /\ v[2] \in Views
      /\ Takes(asked, Len(served), r[1], p[1], r[2])
      /\ Moves(asked, v[1], m, v[2]) /\ Decode("server", m) = PacketOf(m.command)
      /\ WirePath(asked, v, wire["server"])
  BY <1>1, <1>3, AtServer
<1>5. v[2] = v[1]
  <2>1. CASE p[1].do = "expect"
    BY <1>2, <1>4, <2>1, DroppedStays
  <2>2. CASE p[1].do \in {"identify", "level1"} /\ m.command \in IgnoredByIdentify
    <3>1. v[1].at \in {"identify", "level1"}
      BY <1>4, <2>2, AtFields DEF Takes, Awaits
    <3>2. QED  BY <1>4, <2>2, <3>1 DEF Moves, Idle, Ways, IgnoredByIdentify
  <2>3. QED  BY <1>2, <2>1, <2>2
<1>6. m.command \in Stays
  BY <1>4, <1>5, MovesOrStays
<1>7. Still(wire'["server"]) => Still(wire["server"])
  BY <1>1, <1>4, <1>6, StillTail DEF WirePath
<1>8. Waiting(p) /\ ByServer
  BY <1>1, <1>2, <1>4 DEF Waiting, ByServer
<1>9. QED  BY <1>1, <1>7, <1>8, OwesNothing

------------------------------------------------------------------------------
(***************************************************************************)
(* What is decided about a connect sends its answer, and begins the check. *)
(***************************************************************************)
LEMMA CheckSends ==
    ASSUME NEW data, NEW messages
    PROVE  /\ Sends(ServerCheck(data), "ConnectAppRes") /\ Sends(ServerCheck(data), "startPlay")
           /\ InTurn(ServerCheck(data), messages)
<1> DEFINE a == Result(1, "connect")
           b == Send("startPlay")
           c == Expect("startingPlay")
           d == Send("playing")
           e == Send("stopPlay")
           f == Expect("stoppedPlay")
           g == Request("startPublish", 0, data)
           h == Expect("startingPublish")
           i == Send("stopPublish")
           o == Expect("stoppedPublish")
           x == Send("finished")
           y == Expect("final")
           S == <<a>>
           T == <<b, c, d, e, f, g, h, i, o, x, y>>
           p == S \o T
<1>1. ServerCheck(data) = p
  BY DEF ServerCheck, ResponseConnectApp
<1>2. /\ a.do = "send" /\ IsFor(a, "ConnectAppRes")
      /\ b.do = "send" /\ IsFor(b, "startPlay")
  BY DEF Result, Send, Request, IsFor, ResponseTo
<1> HIDE DEF a, b, c, d, e, f, g, h, i, o, x, y
<1>3. ASeq(S) /\ Len(S) = 1 /\ S[1] = a /\ ASeq(T) /\ Len(T) = 11 /\ T[1] = b
  BY DEF ASeq
<1> HIDE DEF S, T
<1>4. ASeq(S) /\ ASeq(T)
  BY <1>3
<1>5. /\ Len(p) = Len(S) + Len(T)
      /\ \A k \in 1..Len(S) : p[k] = S[k]
  BY <1>4, ConcatASeq
<1>6. \A k \in 1..Len(T) : p[Len(S) + k] = T[k]
  BY <1>4, ConcatASeq
<1> HIDE DEF p
<1>7. Len(p) = 12 /\ p[1] = a /\ p[1 + 1] = b
  <2>1. 1 \in 1..Len(S) /\ 1 \in 1..Len(T)
    BY <1>3
  <2>2. QED  BY <1>3, <1>5, <1>6, <2>1
<1>8. 1 \in 1..Len(p) /\ 2 \in 1..Len(p) /\ p[2] = b
  BY <1>7
<1>9. \A k \in 1..(1 - 1) : FALSE
  OBVIOUS
<1>10. \A k \in 1..(2 - 1) : k = 1
  OBVIOUS
<1>11. Sends(p, "ConnectAppRes")
  BY <1>2, <1>7, <1>8, <1>9 DEF Sends
<1>12. Sends(p, "startPlay")
  BY <1>2, <1>7, <1>8, <1>10 DEF Sends
<1>13. InTurn(p, messages)
  BY <1>2, <1>7, <1>12 DEF InTurn
<1>14. QED  BY <1>1, <1>11, <1>12, <1>13

LEMMA AcceptSends == Sends(Accept, "ConnectAppRes")
<1> DEFINE a == Send("SetWindowAckSize")
           b == Send("SetPeerBandwidth")
           c == Result(1, "connect")
           d == Send("onBWDone")
           e == Step("identify")
           S == <<a, b>>
           T == <<c>>
           ST == <<a, b, c>>
           U == <<d, e>>
           P == <<a, b, c, d, e>>
<1>1. Accept = (S \o T) \o U
  BY DEF Accept, ResponseConnectApp
<1>2. /\ a.do = "send" /\ b.do = "send" /\ c.do = "send" /\ IsFor(c, "ConnectAppRes")
  BY DEF Send, Request, Result, IsFor, ResponseTo
<1> HIDE DEF a, b, c, d, e
<1>3. /\ ASeq(S) /\ Len(S) = 2 /\ ASeq(T) /\ Len(T) = 1 /\ ASeq(ST) /\ Len(ST) = 3
      /\ ASeq(U) /\ Len(U) = 2 /\ ASeq(P) /\ Len(P) = 5
  BY DEF ASeq
<1>4. IsJoined(S, T, ST)
  BY <1>3 DEF IsJoined
<1>5. IsJoined(ST, U, P)
  BY <1>3 DEF IsJoined
<1>6. P[1] = a /\ P[2] = b /\ P[3] = c
  OBVIOUS
<1> HIDE DEF S, T, ST, U, P
<1>7. S \o T = ST
  BY <1>4, Joins
<1>8. ST \o U = P
  BY <1>5, Joins
<1>9. 3 \in 1..Len(P) /\ \A k \in 1..(3 - 1) : k = 1 \/ k = 2
  BY <1>3
<1>10. Sends(P, "ConnectAppRes")
  BY <1>2, <1>6, <1>9 DEF Sends
<1>11. QED  BY <1>1, <1>7, <1>8, <1>10

LEMMA RejectRejects == Rejects(ResponseConnectReject \o <<Step("reject")>>)
<1> DEFINE a == Send("onStatus")
           b == Step("reject")
           S == <<a>>
           T == <<b>>
           P == <<a, b>>
<1>1. ResponseConnectReject \o <<Step("reject")>> = S \o T
  BY DEF ResponseConnectReject
<1>2. a.do = "send" /\ b.do = "reject"
  BY DEF Send, Request, Step
<1> HIDE DEF a, b
<1>3. ASeq(S) /\ Len(S) = 1 /\ ASeq(T) /\ Len(T) = 1 /\ ASeq(P) /\ Len(P) = 2
  BY DEF ASeq
<1>4. IsJoined(S, T, P) /\ P[1] = a /\ P[2] = b
  BY <1>3 DEF IsJoined
<1> HIDE DEF S, T, P
<1>5. S \o T = P
  BY <1>4, Joins
<1>6. 2 \in 1..Len(P) /\ \A k \in 1..(2 - 1) : k = 1
  BY <1>3
<1>7. Rejects(P)
  BY <1>2, <1>4, <1>6 DEF Rejects
<1>8. QED  BY <1>1, <1>5, <1>7

LEMMA DecidesAndWaits ==
    ASSUME IInv, JourneyInv, WaitsInv, NEW p, Decides(p)
    PROVE  WaitsInv'
<1> DEFINE x == received["server"]
<1>1. /\ plan["server"] # << >> /\ plan["server"][1].do = "decide" /\ plan'["server"] = p
      /\ plan'["client"] = plan["client"] /\ UNCHANGED <<wire, received, phase, asked, lost, status>>
      /\ \/ x.name = "check" /\ \E data : p = ServerCheck(data)
         \/ x.name # "check" /\ p \in {Accept, ResponseConnectReject \o <<Step("reject")>>}
  BY DEF Decides, Plans, Others, Peer
<1>2. ByServer
  BY <1>1 DEF ByServer
<1>3. Apart'
  BY <1>2, ApartByServer DEF WaitsInv
<1>4. ASSUME Together' PROVE (Promised /\ CheckBegins)'
  <2>1. Together /\ Linked /\ CheckBegins
    BY <1>1, <1>4 DEF Together, Linked, Endpoints, WaitsInv
  <2>2. PICK r, v, t : OnJourney(r, v, t)
    BY DEF JourneyInv
  <2>3. 1 \in 1..Len(plan["server"]) /\ Received(r, plan["server"], x)
    BY <1>1, <2>2, AtServer DEF OnJourney, ServerSide
  <2>4. r[1].at = Connected(x.name)
    BY <1>1, <2>3 DEF Received
  <2>5. ASSUME NEW j \in 1..Len(plan["client"]), FirstWait(plan["client"], j), Reached(j)'
        PROVE  ComesNow(plan["client"][j].packet)'
    <3>1. Reached(j)
      BY <1>1, <2>5 DEF Reached
    <3>2. j \in 1..(Len(plan["client"]) + 1)
      BY <2>5 DEF IInv, Shapes, ASeq
    <3>3. <<r[1].at, plan["client"][j].packet>> \in Expected
      BY <2>1, <2>2, <2>5, <3>1, <3>2, AtWait
    <3> DEFINE packet == plan["client"][j].packet
    <3>4. CASE x.name = "check" /\ \E data : p = ServerCheck(data)
      <4>1. packet \in {"ConnectAppRes", "startPlay"}
        BY <2>4, <3>3, <3>4 DEF Connected, Expected
      <4>2. Sends(p, packet)
        BY <3>4, <4>1, CheckSends
      <4>3. Comes(p, x, wire["client"], packet)
        BY <4>2 DEF Comes
      <4>4. QED  BY <1>1, <4>3 DEF ComesNow
    <3>5. CASE x.name # "check" /\ p \in {Accept, ResponseConnectReject \o <<Step("reject")>>}
      <4>1. packet = "ConnectAppRes"
        BY <2>4, <3>3, <3>5 DEF Connected, Expected
      <4>2. Sends(p, packet) \/ Rejects(p)
        BY <3>5, <4>1, AcceptSends, RejectRejects
      <4>3. Comes(p, x, wire["client"], packet)
        BY <4>1, <4>2 DEF Comes
      <4>4. QED  BY <1>1, <4>3 DEF ComesNow
    <3>6. QED  BY <1>1, <3>4, <3>5
  <2>6. ASSUME phase = "check", Reached(Len(plan["client"]) + 1)'
        PROVE  InTurn(plan["server"], wire["client"])'
    <3>1. Reached(Len(plan["client"]) + 1)
      BY <1>1, <2>6 DEF Reached
    <3> DEFINE l == Len(plan["client"]) + 1
    <3>2. l \in 1..(Len(plan["client"]) + 1) /\ l = Len(plan["client"]) + 1 /\ Reached(l)
      BY <3>1 DEF IInv, Shapes, ASeq
    <3> HIDE DEF l
    <3>3. r[1] = Home
      BY <2>1, <2>2, <3>2, AtWait
    <3>4. x.name = "check"
      BY <2>4, <2>6, <3>3, AtFields DEF Home, Connected
    <3>5. InTurn(p, wire["client"])
      BY <1>1, <3>4, CheckSends
    <3>6. QED  BY <1>1, <3>5
  <2>7. QED  BY <1>2, <2>1, <2>5, <2>6, GetsThere
<1>5. QED  BY <1>3, <1>4 DEF WaitsInv

------------------------------------------------------------------------------
(***************************************************************************)
(* What is due is provided.                                                *)
(***************************************************************************)
LEMMA DueIsExpected ==
    ASSUME NEW a, NEW x, NEW b, <<a, x, b>> \in Accepts, NEW packet, <<b, packet>> \in Expected
    PROVE  a = "connect" \/ packet \in Due(a) \/ (a = "media" /\ packet = "ConnectAppRes")
BY DEF Accepts, Expected, Due

LEMMA DueIsSent ==
    ASSUME NEW place, NEW packet, packet \in Due(place)
    PROVE  packet \notin {"ConnectAppRes", "startPlay"} /\ (packet = "CreateStreamRes" => place = "create")
BY DEF Due

LEMMA ProvidedIsSent ==
    ASSUME NEW asks, NEW n, NEW r, NEW p, ServerPath(asks, n, r, p),
           NEW packet, packet \notin {"ConnectAppRes", "startPlay"}, Provides(p, 1, packet)
    PROVE  Sends(p, packet) \/ (1 \in 1..Len(p) /\ p[1].do = "reply" /\ packet = "CreateStreamRes")
<1>1. PICK j \in 1..Len(p) : Gets(p[j], packet) /\ \A i \in 1..j : ~Pauses(p[i])
  BY DEF Provides
<1>2. Len(p) \in Nat
  BY DEF ServerPath, ASeq
<1>3. ASSUME NEW k \in 1..(j - 1) PROVE p[k].do \in {"send", "reply"}
  <2>1. k \in 1..Len(p) /\ k # Len(p) /\ k \in 1..j
    BY <1>2
  <2>2. Takes(asks, n, r[k], p[k], r[k + 1]) /\ ~Ends(p[k]) /\ ~Pauses(p[k])
    BY <1>1, <2>1 DEF ServerPath
  <2>3. QED  BY <2>2 DEF Takes, Ends, Pauses
<1>4. CASE p[j].do = "send" /\ IsFor(p[j], packet)
  BY <1>3, <1>4 DEF Sends
<1>5. CASE p[j].do = "reply" /\ packet = "CreateStreamRes"
  <2>1. ASSUME j # 1 PROVE FALSE
    <3>1. j \in 2..Len(p) /\ j - 1 \in 1..j
      BY <1>2, <2>1
    <3>2. Succeeds(p[j - 1], p[j]) /\ ~Pauses(p[j - 1])
      BY <1>1, <3>1 DEF ServerPath
    <3>3. QED  BY <1>5, <3>2 DEF Succeeds, Pauses, Awaits
  <2>2. QED  BY <1>5, <2>1
<1>6. QED  BY <1>1, <1>4, <1>5 DEF Gets

(***************************************************************************)
(* The server reads.                                                       *)
(***************************************************************************)
LEMMA ReadsAndWaits ==
    ASSUME IInv, JourneyInv, WaitsInv, Reads("server")
    PROVE  WaitsInv'
<1> DEFINE p == plan["server"]
           m == wire["server"][1]
           n == Len(served)
           x == received'["server"]
<1>1. /\ p # << >> /\ wire["server"] # << >> /\ plan'["server"] = Tail(p)
      /\ plan'["client"] = plan["client"] /\ wire'["server"] = Tail(wire["server"])
      /\ wire'["client"] = wire["client"] /\ UNCHANGED <<phase, asked, lost, status>>
      /\ \/ p[1].do = "read"
         \/ p[1].do = "expect" /\ x = m /\ p[1].packet = Decode("server", m)
  BY DEF Reads, TakesOne, Others, Peer
<1>2. ByServer
  BY <1>1 DEF ByServer
<1>3. Apart'
  BY <1>2, ApartByServer DEF WaitsInv
<1>4. ASSUME Together' PROVE (Promised /\ CheckBegins)'
  <2>1. Together /\ Linked /\ CheckBegins
    BY <1>1, <1>4 DEF Together, Linked, Endpoints, WaitsInv
  <2>2. PICK r, v, t : OnJourney(r, v, t)
    BY DEF JourneyInv
  <2>3. ServerSide(r, v)
    BY <2>2 DEF OnJourney
  <2>4. /\ ServerPath(asked, n, Tail(r), Tail(p)) /\ ASeq(p) /\ 1 \in 1..Len(p)
        /\ r[1] \in Views /\ r[2] \in Views /\ v[1] = r[1] /\ v[2] \in Views
        /\ Takes(asked, n, r[1], p[1], r[2]) /\ Moves(asked, r[1], m, v[2])
        /\ Decode("server", m) = PacketOf(m.command) /\ WirePath(asked, v, wire["server"])
    BY <1>1, <2>3, AtServer
  <2>5. /\ Awaits(p[1]) /\ <<r[1].at, p[1].packet, r[2].at>> \in Accepts
        /\ p[1].do = "expect" => p[1].packet = PacketOf(m.command) /\ x = m
    BY <1>1, <2>4 DEF Awaits, Takes
  <2>6. CASE r[1].at = "connect"
    <3>1. 1 + 1 = Len(p) /\ p[1 + 1].do = "decide"
      BY <2>3, <2>4, <2>5, <2>6 DEF ServerSide, ServerPath
    <3>2. Decisive(Tail(p))
      <4>1. /\ Len(Tail(p)) = Len(p) - 1
            /\ \A k \in 1..Len(Tail(p)) : Tail(p)[k] = p[k + 1]
        BY <1>1, <2>4, TailFields
      <4>2. 1 \in 1..Len(Tail(p))
        BY <3>1, <4>1
      <4>3. QED  BY <3>1, <4>1, <4>2 DEF Decisive
    <3>3. v[2].at \in {"identify", "check1"}
      <4>1. v[2] = At(Connected(m.name), r[1].done)
        BY <2>4, <2>6, MovesFields
      <4>2. QED  BY <4>1, AtFields DEF Connected
    <3>4. ASSUME NEW j \in 1..Len(plan["client"]), FirstWait(plan["client"], j), Reached(j)'
          PROVE  ComesNow(plan["client"][j].packet)'
      <4>1. Still(Tail(wire["server"])) /\ StillBefore(plan["client"], j)
        BY <1>1, <3>4 DEF Reached
      <4>2. j \in 1..(Len(plan["client"]) + 1)
        BY <3>4 DEF IInv, Shapes, ASeq
      <4>3. <<v[2].at, plan["client"][j].packet>> \in Expected
        BY <1>1, <2>1, <2>2, <3>4, <4>1, <4>2, AtWaitNext
      <4>4. plan["client"][j].packet \in {"ConnectAppRes", "startPlay"}
        BY <3>3, <4>3 DEF Expected
      <4>5. QED  BY <1>1, <3>2, <4>4 DEF ComesNow, Comes
    <3>5. InTurn(plan["server"], wire["client"])'
      BY <1>1, <3>2 DEF InTurn
    <3>6. QED  BY <1>2, <2>1, <3>4, <3>5, GetsThere
  <2>7. CASE r[1].at # "connect"
    <3>1. v[2] = r[2]
      <4>1. p[1].do = "expect" => PacketOf(m.command) = p[1].packet
        BY <2>5
      <4>2. QED  BY <2>4, <2>5, <2>7, <4>1, AcceptsAgree
    <3>2. ASSUME NEW j \in 1..Len(plan["client"]), FirstWait(plan["client"], j), Reached(j)'
          PROVE  ComesNow(plan["client"][j].packet)'
      <4> DEFINE packet == plan["client"][j].packet
      <4>1. Still(Tail(wire["server"])) /\ StillBefore(plan["client"], j)
        BY <1>1, <3>2 DEF Reached
      <4>2. j \in 1..(Len(plan["client"]) + 1)
        BY <3>2 DEF IInv, Shapes, ASeq
      <4>3. <<r[2].at, packet>> \in Expected
        BY <1>1, <2>1, <2>2, <3>1, <3>2, <4>1, <4>2, AtWaitNext
      <4>4. CASE packet \in Due(r[1].at)
        <5>1. Provides(Tail(p), 1, packet)
          <6>1. Provides(p, 1 + 1, packet)
            BY <2>3, <2>4, <2>5, <4>4 DEF ServerSide, ServerPath
          <6>2. QED  BY <1>1, <2>4, <6>1, ProvidesTail
        <5>2. packet \notin {"ConnectAppRes", "startPlay"} /\ (packet = "CreateStreamRes" => r[1].at = "create")
          BY <4>4, DueIsSent
        <5>3. Sends(Tail(p), packet)
              \/ (1 \in 1..Len(Tail(p)) /\ Tail(p)[1].do = "reply" /\ packet = "CreateStreamRes")
          BY <2>4, <5>1, <5>2, ProvidedIsSent
        <5>4. ASSUME 1 \in 1..Len(Tail(p)), Tail(p)[1].do = "reply", packet = "CreateStreamRes"
              PROVE  RepliesNow(Tail(p), x)
          <6>1. 1 + 1 \in 1..Len(p) /\ Tail(p)[1] = p[1 + 1]
            BY <1>1, <2>4, <5>4, TailFields
          <6>2. 2 \in 2..Len(p) /\ 2 - 1 = 1 /\ p[2].do = "reply"
            BY <5>4, <6>1
          <6>3. Succeeds(p[1], p[2])
            BY <2>3, <6>2 DEF ServerSide, ServerPath
          <6>4. x = m
            BY <2>5, <6>2, <6>3 DEF Succeeds
          <6>5. m.command = "createStream"
            BY <2>4, <5>2, <5>4 DEF Moves, Idle, Ways
          <6>6. QED  BY <5>4, <6>4, <6>5 DEF RepliesNow
        <5>5. Comes(Tail(p), x, wire["client"], packet)
          BY <5>3, <5>4 DEF Comes
        <5>6. QED  BY <1>1, <5>5 DEF ComesNow
      <4>5. CASE r[1].at = "media" /\ packet = "ConnectAppRes"
        <5>1. r[2].at = "identify"
          BY <2>5, <4>5 DEF Accepts
        <5>2. Leaves(m)
          BY <2>4, <3>1, <4>5, <5>1, MovesFields DEF Moves, Idle, Ways, Leaves
        <5>3. asked # << >>
          <6>1. 1 \in 1..Len(wire["server"])
            BY <1>1, <2>4, TailFields DEF WirePath
          <6>2. QED  BY <5>2, <6>1 DEF WaitsInv, Apart, Early
        <5>4. packet # "ConnectAppRes"
          BY <3>2, <5>3 DEF WaitsInv, Apart, Late, FirstWait
        <5>5. QED  BY <4>5, <5>4
      <4>6. QED  BY <2>5, <2>7, <4>3, <4>4, <4>5, DueIsExpected
    <3>3. ASSUME phase = "check", Reached(Len(plan["client"]) + 1)' PROVE FALSE
      <4> DEFINE l == Len(plan["client"]) + 1
      <4>1. /\ l \in 1..(Len(plan["client"]) + 1) /\ l = Len(plan["client"]) + 1
            /\ Still(Tail(wire["server"])) /\ StillBefore(plan["client"], l)
        BY <1>1, <3>3 DEF IInv, Shapes, ASeq, Reached
      <4> HIDE DEF l
      <4>2. v[2] = Home
        BY <1>1, <2>1, <2>2, <4>1, AtWaitNext
      <4>3. r[2].at = "check1"
        BY <3>1, <3>3, <4>2, AtFields DEF Home
      <4>4. QED  BY <2>5, <2>7, <4>3 DEF Accepts
    <3>4. QED  BY <1>2, <2>1, <3>2, <3>3, GetsThere
  <2>8. QED  BY <2>6, <2>7
<1>5. QED  BY <1>3, <1>4 DEF WaitsInv

(***************************************************************************)
(* The server identifies.                                                  *)
(***************************************************************************)
LEMMA IdentifiesAndWaits ==
    ASSUME IInv, JourneyInv, WaitsInv, NEW p, Identifies(p)
    PROVE  WaitsInv'
<1> DEFINE m == wire["server"][1]
           n == Len(served)
           now == plan["server"][1]
<1>1. /\ plan["server"] # << >> /\ wire["server"] # << >> /\ plan'["server"] = p
      /\ plan'["client"] = plan["client"] /\ wire'["server"] = Tail(wire["server"])
      /\ wire'["client"] = wire["client"] /\ UNCHANGED <<phase, asked, lost, status>>
      /\ \/ now.do = "identify" /\ p = AtFirst(m, Decode("server", m))
         \/ now.do = "level1"
  BY DEF Identifies, TakesOne, Others, Peer
<1>2. ByServer
  BY <1>1 DEF ByServer
<1>3. PICK r, v, t : OnJourney(r, v, t)
  BY DEF JourneyInv
<1>4. /\ ASeq(plan["server"]) /\ r[1] \in Views /\ v[1] = r[1] /\ v[2] \in Views
      /\ Takes(asked, n, r[1], now, r[2]) /\ Moves(asked, v[1], m, v[2])
      /\ Decode("server", m) = PacketOf(m.command) /\ WirePath(asked, v, wire["server"])
  BY <1>1, <1>3, AtServer DEF OnJourney
<1>5. v[1].at = now.do /\ now.do \in {"identify", "level1"}
  BY <1>1, <1>4, AtFields DEF Takes, Awaits
<1>6. CASE v[2] = v[1]
  <2>1. m.command \in Stays
    BY <1>4, <1>6, MovesOrStays
  <2>2. Still(wire'["server"]) => Still(wire["server"])
    BY <1>1, <1>4, <2>1, StillTail DEF WirePath
  <2>3. Waiting(plan["server"])
    BY <1>1, <1>4 DEF Waiting
  <2>4. QED  BY <1>1, <1>2, <2>2, <2>3, OwesNothing
<1>7. CASE v[2] # v[1]
  <2>1. \/ v[1].at = "identify" /\ m.command = "createStream" /\ v[2].at = "level1"
        \/ v[2].at \in {"fc", "media"}
    BY <1>4, <1>5, <1>7, AtFields DEF Moves, Ways
  <2>2. ASSUME Together' PROVE (Promised /\ CheckBegins)'
    <3>1. Together /\ Linked /\ CheckBegins
      BY <1>1, <2>2 DEF Together, Linked, Endpoints, WaitsInv
    <3>2. ASSUME NEW j \in 1..Len(plan["client"]), FirstWait(plan["client"], j), Reached(j)'
          PROVE  ComesNow(plan["client"][j].packet)'
      <4> DEFINE packet == plan["client"][j].packet
      <4>1. Still(Tail(wire["server"])) /\ StillBefore(plan["client"], j)
        BY <1>1, <3>2 DEF Reached
      <4>2. j \in 1..(Len(plan["client"]) + 1)
        BY <3>2 DEF IInv, Shapes, ASeq
      <4>3. <<v[2].at, packet>> \in Expected
        BY <1>1, <1>3, <3>1, <3>2, <4>1, <4>2, AtWaitNext
      <4>4. packet = "CreateStreamRes" /\ v[1].at = "identify" /\ m.command = "createStream"
        BY <2>1, <4>3 DEF Expected
      <4>5. p = <<Result(m.tid, m.command), Step("level1")>>
        <5>1. Decode("server", m) = "CreateStream"
          BY <1>4, <4>4 DEF PacketOf
        <5>2. QED  BY <1>1, <1>5, <4>4, <5>1 DEF AtFirst
      <4>6. Sends(p, packet)
        <5> DEFINE a == Result(m.tid, m.command)
                   b == Step("level1")
        <5>1. a.do = "send" /\ IsFor(a, packet)
          BY <4>4 DEF Result, IsFor, ResponseTo
        <5>2. p = <<a, b>>
          BY <4>5
        <5> HIDE DEF a, b
        <5>3. 1 \in 1..Len(p) /\ p[1] = a
          BY <5>2
        <5>4. QED  BY <5>1, <5>3 DEF Sends
      <4>7. QED  BY <1>1, <4>6 DEF ComesNow, Comes
    <3>3. ASSUME phase = "check", Reached(Len(plan["client"]) + 1)' PROVE FALSE
      <4> DEFINE l == Len(plan["client"]) + 1
      <4>1. /\ l \in 1..(Len(plan["client"]) + 1) /\ l = Len(plan["client"]) + 1
            /\ Still(Tail(wire["server"])) /\ StillBefore(plan["client"], l)
        BY <1>1, <3>3 DEF IInv, Shapes, ASeq, Reached
      <4> HIDE DEF l
      <4>2. v[2] = Home
        BY <1>1, <1>3, <3>1, <4>1, AtWaitNext
      <4>3. QED  BY <2>1, <3>3, <4>2, AtFields DEF Home
    <3>4. QED  BY <1>2, <3>1, <3>2, <3>3, GetsThere
  <2>3. Apart'
    BY <1>2, ApartByServer DEF WaitsInv
  <2>4. QED  BY <2>2, <2>3 DEF WaitsInv
<1>8. QED  BY <1>6, <1>7

------------------------------------------------------------------------------
(***************************************************************************)
(* Steps of the client.                                                    *)
(***************************************************************************)
\* What the client waits for next stays the same when it goes on to where it waits.
LEMMA WaitsOn ==
    ASSUME NEW p2, NEW p, NEW d \in Int, Onward(p2, p, d), 1 \in 1..Len(p),
           ~Awaits(p[1]), p[1].do = "send" => p[1].command \in Stays, Len(p) \in Nat
    PROVE  /\ \A j : FirstWait(p2, j) /\ StillBefore(p2, j) =>
                FirstWait(p, j + d) /\ StillBefore(p, j + d) /\ p[j + d] = p2[j]
           /\ StillBefore(p2, Len(p2) + 1) => StillBefore(p, Len(p) + 1)
<1>1. Len(p2) \in Nat /\ Len(p2) + d = Len(p)
  BY DEF Onward
<1>2. ASSUME NEW l \in 1..(Len(p2) + 1), StillBefore(p2, l) PROVE StillBefore(p, l + d)
  <2> SUFFICES ASSUME NEW i \in 1..((l + d) - 1), p[i].do = "send" PROVE p[i].command \in Stays
    BY DEF StillBefore
  <2>1. CASE i = 1
    BY <2>1
  <2>2. CASE i # 1
    <3>1. i \in 1..Len(p) /\ i - d \in Int
      BY <1>1
    <3>2. i - d \in 1..Len(p2) /\ p2[i - d] = p[i]
      BY <2>2, <3>1 DEF Onward
    <3>3. i - d \in 1..(l - 1)
      BY <3>2
    <3>4. QED  BY <1>2, <3>2, <3>3 DEF StillBefore
  <2>3. QED  BY <2>1, <2>2
<1>3. ASSUME NEW j, FirstWait(p2, j), StillBefore(p2, j)
      PROVE  FirstWait(p, j + d) /\ StillBefore(p, j + d) /\ p[j + d] = p2[j]
  <2>1. j \in 1..Len(p2) /\ Awaits(p2[j]) /\ j \in 1..(Len(p2) + 1)
    BY <1>1, <1>3 DEF FirstWait
  <2>2. j + d \in 1..Len(p) /\ p2[j] = p[j + d]
    BY <2>1 DEF Onward
  <2>3. NoWaitBefore(p, j + d)
    <3> SUFFICES ASSUME NEW i \in 1..((j + d) - 1) PROVE ~Awaits(p[i])
      BY DEF NoWaitBefore
    <3>1. CASE i # 1
      <4>1. i \in 1..Len(p) /\ i - d \in Int
        BY <1>1, <2>2
      <4>2. i - d \in 1..Len(p2) /\ p2[i - d] = p[i]
        BY <3>1, <4>1 DEF Onward
      <4>3. i - d \in 1..(j - 1)
        BY <2>1, <4>2
      <4>4. QED  BY <1>3, <4>2, <4>3 DEF FirstWait, NoWaitBefore
    <3>2. QED  BY <3>1
  <2>4. StillBefore(p, j + d)
    BY <1>2, <1>3, <2>1
  <2>5. QED  BY <2>1, <2>2, <2>3, <2>4 DEF FirstWait
<1>4. ASSUME StillBefore(p2, Len(p2) + 1) PROVE StillBefore(p, Len(p) + 1)
  <2> DEFINE l == Len(p2) + 1
  <2>1. l \in 1..(Len(p2) + 1) /\ l + d = Len(p) + 1
    BY <1>1
  <2>2. StillBefore(p, l + d)
    BY <1>2, <1>4, <2>1
  <2>3. QED  BY <2>1, <2>2
<1>5. QED  BY <1>3, <1>4

LEMMA PlanGoesOn ==
    ASSUME NEW p2, NEW p, NEW d \in Int, Onward(p2, p, d), Len(p) \in Nat, p # << >>
    PROVE  /\ Late(p) => Late(p2)
           /\ ConnectsFirst(p) => ConnectsFirst(p2)
           /\ \A messages : Early(p, messages) => Early(p2, messages)
<1>1. ASSUME NEW k \in 1..Len(p2), Awaits(p2[k])
      PROVE  k + d \in 1..Len(p) /\ p2[k] = p[k + d] /\ (k + d = Len(p) => k = Len(p2))
  <2>1. Len(p2) \in Nat /\ Len(p2) + d = Len(p) /\ k + d \in 1..Len(p) /\ p2[k] = p[k + d]
    BY <1>1 DEF Onward
  <2>2. QED  BY <2>1
<1>2. ASSUME NEW messages, Early(p, messages), NEW k \in 1..Len(p2), p2[k].do = "send"
      PROVE  ~Leaves(p2[k])
  BY <1>2 DEF Onward, Early, Leaves
<1>3. Late(p) => Late(p2)
  BY <1>1 DEF Late
<1>4. ConnectsFirst(p) => ConnectsFirst(p2)
  BY <1>1 DEF ConnectsFirst
<1>5. QED  BY <1>2, <1>3, <1>4 DEF Early

LEMMA ClientAt ==
    ASSUME JourneyInv, Together, plan["client"] # << >>
    PROVE  \E t : /\ ClientPath(asked, t, plan["client"]) /\ t[Len(t)] = Home
                  /\ Goes(asked, t[1], plan["client"][1], t[2])
<1>1. PICK r, v, t : OnJourney(r, v, t)
  BY DEF JourneyInv
<1>2. ClientPath(asked, t, plan["client"]) /\ t[Len(t)] = Home
  BY <1>1 DEF Together, Linked, Endpoints, OnJourney, ClientSide
<1>3. 1 \in 1..Len(plan["client"])
  BY <1>2, TailFields DEF ClientPath
<1>4. QED  BY <1>2, <1>3 DEF ClientPath

------------------------------------------------------------------------------
\* The client goes on to where it waits, and nothing has come meanwhile.
LEMMA StillToCome ==
    ASSUME IInv, Promised, CheckBegins, ByClient, plan["client"] # << >>,
           NEW d \in Int, Onward(plan'["client"], plan["client"], d), ~Awaits(plan["client"][1]),
           wire'["client"] = wire["client"],
           Still(wire'["server"]) =>
             /\ Still(wire["server"])
             /\ plan["client"][1].do = "send" => plan["client"][1].command \in Stays
    PROVE  (Promised /\ CheckBegins)'
<1> DEFINE p == plan["client"]
           p2 == plan'["client"]
<1>1. Len(p) \in Nat /\ 1 \in 1..Len(p)
  BY TailFields DEF IInv, Shapes
<1>2. ASSUME Still(wire'["server"])
      PROVE  /\ \A j : FirstWait(p2, j) /\ StillBefore(p2, j) =>
                  FirstWait(p, j + d) /\ StillBefore(p, j + d) /\ p[j + d] = p2[j]
             /\ StillBefore(p2, Len(p2) + 1) => StillBefore(p, Len(p) + 1)
  <2>1. p[1].do = "send" => p[1].command \in Stays
    BY <1>2
  <2>2. Onward(p2, p, d) /\ ~Awaits(p[1])
    OBVIOUS
  <2> HIDE DEF p, p2
  <2>3. QED  BY <1>1, <2>1, <2>2, WaitsOn
<1>3. \A packet : ComesNow(packet) =>
                    Comes(plan'["server"], received'["server"], wire'["client"], packet)
  BY DEF ComesNow, ByClient
<1>4. ASSUME NEW j, FirstWait(p2, j), Reached(j)'
      PROVE  Comes(plan'["server"], received'["server"], wire'["client"], p2[j].packet)
  <2>1. Still(wire'["server"]) /\ StillBefore(p2, j)
    BY <1>4 DEF Reached
  <2>2. FirstWait(p, j + d) /\ StillBefore(p, j + d) /\ p[j + d] = p2[j]
    BY <1>2, <1>4, <2>1
  <2>3. Reached(j + d)
    BY <2>1, <2>2 DEF Reached
  <2>4. ComesNow(p[j + d].packet)
    BY <2>2, <2>3 DEF Promised
  <2>5. QED  BY <1>3, <2>2, <2>4
<1>5. Promised'
  BY <1>4 DEF Promised, ComesNow
<1>6. ASSUME phase' = "check"
      PROVE  /\ ConnectsFirst(p2)
             /\ Reached(Len(plan["client"]) + 1)' => InTurn(plan["server"], wire["client"])'
  <2>1. ConnectsFirst(p2)
    BY <1>1, <1>6, PlanGoesOn DEF ByClient, CheckBegins
  <2>2. ASSUME Reached(Len(plan["client"]) + 1)' PROVE InTurn(plan["server"], wire["client"])'
    <3>1. Still(wire'["server"]) /\ StillBefore(p2, Len(p2) + 1)
      BY <2>2 DEF Reached
    <3>2. Reached(Len(p) + 1)
      BY <1>2, <3>1 DEF Reached
    <3>3. InTurn(plan["server"], wire["client"])
      BY <1>6, <3>2 DEF ByClient, CheckBegins
    <3>4. QED  BY <3>3 DEF ByClient
  <2>3. QED  BY <2>1, <2>2
<1>7. InTurn(plan["server"], wire["client"])' => ComesNow("startPlay")'
  BY QueuedComes DEF ComesNow
<1>8. CheckBegins'
  BY <1>6, <1>7 DEF CheckBegins
<1>9. QED  BY <1>5, <1>8

LEMMA WritesAndWaits ==
    ASSUME IInv, JourneyInv, WaitsInv, NEW m, Writes("client", m)
    PROVE  WaitsInv'
<1> DEFINE p == plan["client"]
           w == wire["server"]
<1>1. /\ p # << >> /\ plan'["client"] = Tail(p) /\ wire'["client"] = wire["client"]
      /\ wire'["server"] = Append(w, m) /\ ByClient /\ UNCHANGED <<phase, asked, lost, status>>
      /\ \/ p[1].do = "send" /\ m.command = p[1].command
         \/ p[1].do = "reply" /\ m.command = "_result"
  BY DEF Writes, Says, Others, Peer, ByClient
<1>2. ASeq(p) /\ ASeq(w) /\ Len(p) \in Nat /\ 1 \in 1..Len(p)
  BY <1>1, TailFields DEF IInv, Shapes, OnStream
<1>3. Onward(Tail(p), p, 1) /\ 1 \in Int
  <2>1. Moved(Tail(p), p, 1, called) /\ Onward(Tail(p), p, 1)
    BY <1>1, <1>2, MovedTail
  <2>2. QED  BY <2>1
<1> DEFINE a == Append(w, m)
           n == Len(w)
<1>4. n \in Nat /\ Len(a) = n + 1 /\ a[n + 1] = m /\ \A k \in 1..n : a[k] = w[k]
  BY <1>2, AppendASeq DEF ASeq
<1> HIDE DEF a
<1>5. (\A k \in 1..n : k \in 1..(n + 1)) /\ n + 1 \in 1..(n + 1) /\ \A k \in 1..(n + 1) : k \in 1..n \/ k = n + 1
  BY <1>4
<1>6. Apart'
  <2>1. ASSUME Early(p, w) PROVE Early(Tail(p), a)
    <3>1. Early(Tail(p), w)
      BY <1>1, <1>2, <1>3, <2>1, PlanGoesOn
    <3>2. ~Leaves(m)
      BY <1>1, <1>2, <2>1 DEF Early, Leaves
    <3>3. \A k \in 1..Len(a) : ~Leaves(a[k])
      BY <1>4, <1>5, <3>1, <3>2 DEF Early
    <3>4. QED  BY <3>1, <3>3 DEF Early
  <2>2. Late(p) => Late(Tail(p))
    BY <1>1, <1>2, <1>3, PlanGoesOn
  <2>3. QED  BY <1>1, <2>1, <2>2 DEF WaitsInv, Apart, a
<1>7. ASSUME Together' PROVE (Promised /\ CheckBegins)'
  <2>1. Promised /\ CheckBegins
    BY <1>1, <1>7 DEF Together, WaitsInv
  <2>2. ~Awaits(p[1])
    BY <1>1 DEF Awaits
  <2>3. Still(a) => Still(w) /\ m.command \in Stays
    BY <1>4, <1>5 DEF Still
  <2>4. Still(wire'["server"]) =>
          /\ Still(wire["server"])
          /\ plan["client"][1].do = "send" => plan["client"][1].command \in Stays
    BY <1>1, <2>3 DEF a
  <2>5. QED  BY <1>1, <1>3, <2>1, <2>2, <2>4, StillToCome
<1>8. QED  BY <1>6, <1>7 DEF WaitsInv

LEMMA PublishesAndWaits ==
    ASSUME IInv, JourneyInv, WaitsInv, NEW n \in Nat, Publishes(n)
    PROVE  WaitsInv'
<1> DEFINE p == plan["client"]
           step == Send("publishing")
           p2 == [k \in 1..n |-> step] \o Tail(p)
<1>1. /\ p # << >> /\ plan'["client"] = p2 /\ UNCHANGED <<wire, phase, asked, lost, status>> /\ ByClient
      /\ p[1].do = "publishing"
  BY DEF Publishes, Plans, Others, Peer, ByClient
<1>2. ASeq(p) /\ Len(p) \in Nat
  BY DEF IInv, Shapes, ASeq
<1>3. /\ step.do = "send" /\ step.command = "publishing" /\ ~Awaits(step)
  BY DEF Send, Request, Awaits
<1>4. Inert(step, called)
  BY <1>3 DEF Inert, AwaitsStream, Asks, OfAStream, Said, OfClient, Commands
<1> HIDE DEF step
<1>5. Onward(p2, p, 1 - n) /\ 1 - n \in Int
  <2>1. p # << >> /\ ASeq(p)
    BY <1>1, <1>2
  <2> HIDE DEF p
  <2>2. Moved(p2, p, 1 - n, called) /\ Onward(p2, p, 1 - n)
    BY <1>3, <1>4, <2>1, MovedPublishing
  <2>3. QED  BY <2>2
<1> HIDE DEF p2
<1>6. Apart'
  <2>1. (Late(p) => Late(p2)) /\ (Early(p, wire["server"]) => Early(p2, wire["server"]))
    BY <1>1, <1>2, <1>5, PlanGoesOn
  <2>2. QED  BY <1>1, <2>1 DEF WaitsInv, Apart
<1>7. ASSUME Together' PROVE (Promised /\ CheckBegins)'
  <2>1. Promised /\ CheckBegins
    BY <1>1, <1>7 DEF Together, WaitsInv
  <2>2. ~Awaits(p[1]) /\ p[1].do # "send"
    BY <1>1 DEF Awaits
  <2> DEFINE d == 1 - n
  <2>3. d \in Int /\ Onward(plan'["client"], p, d)
    BY <1>1, <1>5
  <2> HIDE DEF d
  <2>4. QED  BY <1>1, <2>1, <2>2, <2>3, StillToCome
<1>8. QED  BY <1>6, <1>7 DEF WaitsInv

------------------------------------------------------------------------------
(***************************************************************************)
(* The client reads.                                                       *)
(***************************************************************************)
Answered == {"s0s1s2", "ConnectAppRes", "startPlay", "stopPlay", "startPublish", "stopPublish",
             "finished", "CreateStreamRes"}

LEMMA ForWhatItDecodes ==
    ASSUME NEW e, NEW m, NEW packet \in Answered, IsFor(m, packet)
    PROVE  Decode(e, m) \in {packet} \cup Errors
<1>1. CASE m.command = packet
  BY <1>1 DEF Answered, Decode, PacketOf
<1>2. CASE m.command = "_result" /\ ResponseTo(m.of) = packet
  BY <1>2 DEF Decode, Errors
<1>3. QED  BY <1>1, <1>2 DEF IsFor

LEMMA WireShrinks ==
    ASSUME NEW messages, ASeq(messages), messages # << >>
    PROVE  /\ \A packet : OnWire(messages, packet) /\ ~IsFor(messages[1], packet) =>
                OnWire(Tail(messages), packet)
           /\ Queued(messages) => OnWire(Tail(messages), "startPlay")
           /\ Queued(messages) /\ ~IsFor(messages[1], "ConnectAppRes") => Queued(Tail(messages))
<1> DEFINE u == Tail(messages)
           n == Len(messages)
<1>1. n \in Nat /\ Len(u) = n - 1 /\ \A k \in 1..Len(u) : u[k] = messages[k + 1]
  BY TailFields
<1> HIDE DEF u
<1>2. ASSUME NEW k \in 1..n, k # 1 PROVE k - 1 \in 1..Len(u) /\ u[k - 1] = messages[k]
  <2>1. k - 1 \in 1..Len(u) /\ (k - 1) + 1 = k
    BY <1>1, <1>2
  <2>2. u[k - 1] = messages[(k - 1) + 1]
    BY <1>1, <2>1
  <2>3. QED  BY <2>1, <2>2
<1>3. ASSUME NEW packet, NEW k \in 1..n, IsFor(messages[k], packet), k # 1 PROVE OnWire(u, packet)
  BY <1>2, <1>3 DEF OnWire
<1>4. ASSUME NEW packet, OnWire(messages, packet), ~IsFor(messages[1], packet) PROVE OnWire(u, packet)
  BY <1>3, <1>4 DEF OnWire
<1>5. ASSUME Queued(messages)
      PROVE  OnWire(u, "startPlay") /\ (~IsFor(messages[1], "ConnectAppRes") => Queued(u))
  <2>1. PICK j, k \in 1..n : /\ j < k /\ IsFor(messages[j], "ConnectAppRes")
                             /\ IsFor(messages[k], "startPlay")
    BY <1>5 DEF Queued
  <2>2. k # 1
    BY <2>1
  <2>3. OnWire(u, "startPlay")
    BY <1>3, <2>1, <2>2
  <2>4. ASSUME ~IsFor(messages[1], "ConnectAppRes") PROVE Queued(u)
    <3>1. j # 1
      BY <2>1, <2>4
    <3>2. j - 1 \in 1..Len(u) /\ u[j - 1] = messages[j] /\ k - 1 \in 1..Len(u) /\ u[k - 1] = messages[k]
      BY <1>2, <2>2, <3>1
    <3>3. j - 1 < k - 1
      BY <2>1
    <3>4. QED  BY <2>1, <3>2, <3>3 DEF Queued
  <2>5. QED  BY <2>3, <2>4
<1>6. QED  BY <1>4, <1>5 DEF u

LEMMA TakesAndWaits ==
    ASSUME IInv, JourneyInv, WaitsInv, Reads("client")
    PROVE  WaitsInv'
<1> DEFINE p == plan["client"]
           u == wire["client"]
<1>1. /\ p # << >> /\ u # << >> /\ plan'["client"] = Tail(p) /\ wire'["client"] = Tail(u)
      /\ wire'["server"] = wire["server"] /\ plan'["server"] = plan["server"]
      /\ received'["server"] = received["server"] /\ UNCHANGED <<phase, asked, lost, status>>
      /\ Awaits(p[1]) /\ (p[1].do = "expect" => p[1].packet = Decode("client", u[1]))
  BY DEF Reads, TakesOne, Others, Peer, Awaits
<1>2. ASeq(p) /\ ASeq(u) /\ Len(p) \in Nat /\ 1 \in 1..Len(p)
  BY <1>1, TailFields DEF IInv, Shapes, Given
<1>3. Onward(Tail(p), p, 1) /\ 1 \in Int
  <2>1. Moved(Tail(p), p, 1, called) /\ Onward(Tail(p), p, 1)
    BY <1>1, <1>2, MovedTail
  <2>2. QED  BY <2>1
<1>4. /\ Late(p) => Late(Tail(p))
      /\ ConnectsFirst(p) => ConnectsFirst(Tail(p))
      /\ \A messages : Early(p, messages) => Early(Tail(p), messages)
  BY <1>1, <1>2, <1>3, PlanGoesOn
<1>5. Apart'
  BY <1>1, <1>4 DEF WaitsInv, Apart
<1>6. ASSUME Together' PROVE (Promised /\ CheckBegins)'
  <2>1. Together /\ CheckBegins
    BY <1>1, <1>6 DEF Together, WaitsInv
  <2>2. PICK t : ClientPath(asked, t, p) /\ Goes(asked, t[1], p[1], t[2])
    BY <1>1, <2>1, ClientAt
  <2>3. ASSUME NEW j, FirstWait(Tail(p), j), StillBefore(Tail(p), j) PROVE FALSE
    <3>1. /\ ClientPath(asked, Tail(t), Tail(p)) /\ Tail(t)[1] = t[2]
          /\ t[1] \in Views /\ t[2] = t[1]
      BY <1>1, <2>2, ClientPathTail DEF Goes, Awaits
    <3>2. /\ j \in 1..Len(Tail(p)) /\ j \in Nat /\ j + 1 \in 1..Len(p) /\ Tail(p)[j] = p[j + 1]
          /\ Awaits(p[j + 1])
      BY <1>1, <1>2, <2>3, TailFields DEF FirstWait
    <3>3. j \in 1..(Len(Tail(p)) + 1) /\ 1 < j + 1
      BY <1>1, <1>2, <3>2, TailFields
    <3>4. Tail(t)[j] = t[1]
      BY <2>3, <3>1, <3>3, StillPlan
    <3>5. Tail(t)[j] = t[j + 1]
      <4>1. Path(t, Len(p)) /\ Len(p) # 0
        BY <1>2, <2>2 DEF ClientPath
      <4>2. j \in 1..Len(p)
        BY <1>2, <3>2
      <4>3. QED  BY <1>2, <4>1, <4>2, PathTail
    <3>6. Rank(t[1]) < Rank(t[j + 1])
      BY <1>1, <1>2, <2>2, <3>2, <3>3 DEF ClientPath
    <3>7. Rank(t[1]) \in Int
      BY <3>1, RankIsInt
    <3>8. t[j + 1] = t[1]
      BY <3>4, <3>5
    <3> DEFINE a == Rank(t[1])
               b == Rank(t[j + 1])
    <3>9. a = b /\ a < b /\ a \in Int
      BY <3>6, <3>7, <3>8
    <3> HIDE DEF a, b
    <3>10. QED  BY <3>9
  <2>4. Promised'
    BY <1>1, <2>3 DEF Promised, Reached
  <2>5. ASSUME phase = "check"
        PROVE  /\ ConnectsFirst(Tail(p)) /\ Tail(p) = << >>
               /\ Reached(Len(plan["client"]) + 1)' => ComesNow("startPlay")'
    <3>1. ConnectsFirst(p) /\ 1 = Len(p) /\ p[1] = Expect("ConnectAppRes")
      BY <1>1, <1>2, <2>1, <2>5 DEF CheckBegins, ConnectsFirst
    <3>2. Tail(p) = << >>
      <4>1. ASeq(Tail(p)) /\ Len(Tail(p)) = Len(p) - 1
        BY <1>1, <1>2, TailFields
      <4>2. Len(Tail(p)) = 0
        BY <3>1, <4>1
      <4>3. QED  BY <4>1, <4>2, LengthZero
    <3>3. ASSUME Reached(Len(plan["client"]) + 1)' PROVE ComesNow("startPlay")'
      <4>1. Still(wire["server"])
        BY <1>1, <3>3 DEF Reached
      <4>2. p[1].do = "expect" /\ p[1].packet = "ConnectAppRes"
        BY <3>1 DEF Expect
      <4>3. \A k \in 1..((1 + 1) - 1) : k = 1
        OBVIOUS
      <4>4. StillBefore(p, Len(p) + 1)
        BY <3>1, <4>2, <4>3 DEF StillBefore
      <4>5. InTurn(plan["server"], u)
        BY <1>1, <2>1, <2>5, <4>1, <4>4 DEF CheckBegins, Reached
      <4>6. Queued(u) => OnWire(Tail(u), "startPlay")
        BY <1>1, <1>2, WireShrinks
      <4>7. Comes(plan["server"], received["server"], Tail(u), "startPlay")
        BY <4>5, <4>6 DEF InTurn, Comes
      <4>8. QED  BY <1>1, <4>7 DEF ComesNow
    <3>4. QED  BY <1>4, <3>1, <3>2, <3>3
  <2>6. CheckBegins'
    BY <1>1, <2>5 DEF CheckBegins
  <2>7. QED  BY <2>4, <2>6
<1>7. QED  BY <1>5, <1>6 DEF WaitsInv

LEMMA SkipsAndWaits ==
    ASSUME IInv, JourneyInv, WaitsInv, Drops("client")
    PROVE  WaitsInv'
<1> DEFINE p == plan["client"]
           u == wire["client"]
           x == received["server"]
<1>1. /\ p # << >> /\ u # << >> /\ plan'["client"] = p /\ wire'["client"] = Tail(u)
      /\ wire'["server"] = wire["server"] /\ plan'["server"] = plan["server"]
      /\ received'["server"] = x /\ UNCHANGED <<phase, asked, lost, status>>
      /\ Awaits(p[1]) /\ Decode("client", u[1]) \notin {p[1].packet} \cup Errors
  BY DEF Drops, TakesOne, Others, Peer, Awaits
<1>2. ASeq(p) /\ ASeq(u) /\ Len(p) \in Nat /\ 1 \in 1..Len(p)
  BY <1>1, TailFields DEF IInv, Shapes, Given
<1>3. Apart'
  BY <1>1 DEF WaitsInv, Apart
<1>4. ASSUME Together' PROVE (Promised /\ CheckBegins)'
  <2>1. Together /\ Promised /\ CheckBegins
    BY <1>1, <1>4 DEF Together, WaitsInv
  <2>2. PICK t : ClientPath(asked, t, p) /\ Goes(asked, t[1], p[1], t[2])
    BY <1>1, <2>1, ClientAt
  <2>3. p[1].packet \in Answered
    BY <1>1, <2>2 DEF Goes, Awaits, Expected, Answered
  <2>4. ~IsFor(u[1], p[1].packet)
    BY <1>1, <2>3, ForWhatItDecodes
  <2>5. /\ \A packet : OnWire(u, packet) /\ ~IsFor(u[1], packet) => OnWire(Tail(u), packet)
        /\ Queued(u) /\ ~IsFor(u[1], "ConnectAppRes") => Queued(Tail(u))
    BY <1>1, <1>2, WireShrinks
  <2>6. ASSUME NEW j, FirstWait(p, j), Reached(j)
        PROVE  Comes(plan["server"], x, Tail(u), p[j].packet)
    <3>1. j = 1
      <4>1. j \in 1..Len(p) /\ NoWaitBefore(p, j)
        BY <2>6 DEF FirstWait
      <4>2. j # 1 => 1 \in 1..(j - 1)
        BY <1>2, <4>1
      <4>3. QED  BY <1>1, <4>1, <4>2 DEF NoWaitBefore
    <3>2. Comes(plan["server"], x, u, p[1].packet)
      BY <2>1, <2>6, <3>1 DEF Promised, ComesNow
    <3>3. QED  BY <2>4, <2>5, <3>1, <3>2 DEF Comes
  <2>7. Promised'
    BY <1>1, <2>6 DEF Promised, ComesNow, Reached
  <2>8. ASSUME phase = "check"
        PROVE  /\ ConnectsFirst(p)
               /\ Reached(Len(plan["client"]) + 1) => InTurn(plan["server"], Tail(u))
    <3>1. ConnectsFirst(p) /\ p[1] = Expect("ConnectAppRes")
      BY <1>1, <1>2, <2>1, <2>8 DEF CheckBegins, ConnectsFirst
    <3>2. ~IsFor(u[1], "ConnectAppRes")
      BY <2>4, <3>1 DEF Expect
    <3>3. Reached(Len(p) + 1) => InTurn(plan["server"], u)
      BY <1>1, <2>1, <2>8 DEF CheckBegins
    <3>4. QED  BY <2>5, <3>1, <3>2, <3>3 DEF InTurn
  <2>9. CheckBegins'
    BY <1>1, <2>8 DEF CheckBegins, Reached
  <2>10. QED  BY <2>7, <2>9
<1>5. QED  BY <1>3, <1>4 DEF WaitsInv

------------------------------------------------------------------------------
(***************************************************************************)
(* Calls of the client's user.                                             *)
(***************************************************************************)
\* Calls that begin with what takes the server on, before they wait.
Departs(p) == 1 \in 1..Len(p) /\ p[1].do = "send" /\ p[1].command \notin Stays
NotLeaving(p) == \A k \in 1..Len(p) : p[k].do = "send" => ~Leaves(p[k])

LEMMA DepartsFirst ==
    ASSUME NEW p, Departs(p), Len(p) \in Nat
    PROVE  /\ \A j : FirstWait(p, j) => ~StillBefore(p, j)
           /\ ~StillBefore(p, Len(p) + 1)
<1>1. ASSUME NEW j \in 1..(Len(p) + 1), j # 1 PROVE ~StillBefore(p, j)
  <2>1. 1 \in 1..(j - 1)
    BY <1>1
  <2>2. QED  BY <2>1 DEF StillBefore, Departs
<1>2. ASSUME NEW j, FirstWait(p, j) PROVE ~StillBefore(p, j)
  <2>1. j \in 1..(Len(p) + 1) /\ j # 1
    BY <1>2 DEF FirstWait, Departs, Awaits
  <2>2. QED  BY <1>1, <2>1
<1>3. ~StillBefore(p, Len(p) + 1)
  <2>1. Len(p) + 1 \in 1..(Len(p) + 1) /\ Len(p) + 1 # 1
    BY DEF Departs
  <2>2. QED  BY <1>1, <2>1
<1>4. QED  BY <1>2, <1>3

LEMMA StepsOfSet ==
    ASSUME NEW S, NEW p \in Seq(S)
    PROVE  /\ Len(p) \in Nat
           /\ (\A step \in S : step.do = "send" => ~Leaves(step)) => NotLeaving(p)
           /\ (\A step \in S : Awaits(step) => step.packet # "ConnectAppRes") => Late(p)
BY DEF NotLeaving, Late

LEMMA PreparedDeparts ==
    /\ \A version : /\ Departs(ClientHandshake(version)) /\ NotLeaving(ClientHandshake(version))
                    /\ Len(ClientHandshake(version)) \in Nat
    /\ \A app : /\ Departs(ConnectApp(app)) /\ NotLeaving(ConnectApp(app))
                /\ ConnectsFirst(ConnectApp(app)) /\ Len(ConnectApp(app)) \in Nat
    /\ \A tid : LET p == <<Request("FCUnpublish", tid, "")>>
                IN  Departs(p) /\ Late(p) /\ Len(p) \in Nat
<1>1. /\ \A command, tid, name : /\ Request(command, tid, name).do = "send"
                                 /\ Request(command, tid, name).command = command
      /\ \A command : Send(command).do = "send" /\ Send(command).command = command
      /\ \A bytes : Read(bytes).do = "read" /\ Read(bytes).packet = bytes
      /\ \A packet : Expect(packet).do = "expect" /\ Expect(packet).packet = packet
  BY DEF Request, Send, Read, Expect
<1>2. ASSUME NEW version
      PROVE  /\ Departs(ClientHandshake(version)) /\ NotLeaving(ClientHandshake(version))
             /\ Len(ClientHandshake(version)) \in Nat
  <2> DEFINE a == [Send("c0c1") EXCEPT !.tid = version]
             b == Read("s0s1s2")
             c == Send("c2")
             p == <<a, b, c>>
  <2>1. a.do = "send" /\ a.command = "c0c1" /\ b.do = "read" /\ c.do = "send" /\ c.command = "c2"
    BY DEF Request, Send, Read
  <2>2. ClientHandshake(version) = p
    BY DEF ClientHandshake
  <2> HIDE DEF a, b, c
  <2>3. p \in Seq({a, b, c}) /\ 1 \in 1..Len(p) /\ p[1] = a
    OBVIOUS
  <2> HIDE DEF p
  <2>4. \A step \in {a, b, c} : step.do = "send" => ~Leaves(step)
    BY <2>1 DEF Leaves
  <2> DEFINE S == {a, b, c}
  <2>5. p \in Seq(S) /\ \A step \in S : step.do = "send" => ~Leaves(step)
    BY <2>3, <2>4
  <2> HIDE DEF S
  <2>6. Len(p) \in Nat /\ NotLeaving(p)
    BY <2>5, StepsOfSet
  <2>7. Departs(p)
    BY <2>1, <2>3 DEF Departs, Stays
  <2>8. QED  BY <2>2, <2>6, <2>7
<1>3. ASSUME NEW app
      PROVE  /\ Departs(ConnectApp(app)) /\ NotLeaving(ConnectApp(app))
             /\ ConnectsFirst(ConnectApp(app)) /\ Len(ConnectApp(app)) \in Nat
  <2> DEFINE a == Request("connect", 1, app)
             b == Send("SetWindowAckSize")
             c == Expect("ConnectAppRes")
             p == <<a, b, c>>
  <2>1. /\ a.do = "send" /\ a.command = "connect" /\ b.do = "send"
        /\ b.command = "SetWindowAckSize" /\ c.do = "expect"
    BY <1>1
  <2>2. ConnectApp(app) = p
    BY DEF ConnectApp
  <2>3. c = Expect("ConnectAppRes")
    OBVIOUS
  <2> HIDE DEF a, b, c
  <2>4. p \in Seq({a, b, c}) /\ Len(p) = 3 /\ p[1] = a /\ p[2] = b /\ p[3] = c
    OBVIOUS
  <2> HIDE DEF p
  <2>5. \A step \in {a, b, c} : step.do = "send" => ~Leaves(step)
    BY <2>1 DEF Leaves
  <2> DEFINE S == {a, b, c}
  <2>6. p \in Seq(S) /\ \A step \in S : step.do = "send" => ~Leaves(step)
    BY <2>4, <2>5
  <2> HIDE DEF S
  <2>7. NotLeaving(p)
    BY <2>6, StepsOfSet
  <2>8. Departs(p)
    BY <2>1, <2>4 DEF Departs, Stays
  <2>9. ConnectsFirst(p)
    <3>1. \A k \in 1..Len(p) : k = 1 \/ k = 2 \/ k = 3
      BY <2>4
    <3>2. \A k \in 1..Len(p) : Awaits(p[k]) => k = 3
      BY <2>1, <2>4, <3>1 DEF Awaits
    <3>3. QED  BY <2>3, <2>4, <3>2 DEF ConnectsFirst
  <2>10. QED  BY <2>2, <2>4, <2>7, <2>8, <2>9
<1>4. ASSUME NEW tid
      PROVE  LET p == <<Request("FCUnpublish", tid, "")>>
             IN  Departs(p) /\ Late(p) /\ Len(p) \in Nat
  <2> DEFINE a == Request("FCUnpublish", tid, "")
  <2>1. a.do = "send" /\ a.command = "FCUnpublish"
    BY DEF Request
  <2> HIDE DEF a
  <2> DEFINE p == <<a>>
  <2>2. Len(p) = 1 /\ p[1] = a /\ \A k \in 1..1 : k = 1
    OBVIOUS
  <2> HIDE DEF p
  <2>3. Departs(p)
    BY <2>1, <2>2 DEF Departs, Stays
  <2>4. Late(p)
    BY <2>1, <2>2 DEF Late, Awaits
  <2>5. QED  BY <2>2, <2>3, <2>4 DEF p, a
<1>5. QED  BY <1>2, <1>3, <1>4

------------------------------------------------------------------------------
\* The bandwidth check waits for its beginning before all else, and the user's own call for
\* nothing.
LEMMA CheckWaits ==
    /\ \A j : FirstWait(BandwidthCheck, j) => BandwidthCheck[j].packet = "startPlay"
    /\ NotLeaving(BandwidthCheck) /\ Len(BandwidthCheck) \in Nat
<1> DEFINE S == {Expect(x) : x \in {"startPlay", "stopPlay", "startPublish", "stopPublish", "finished"}}
               \cup {Send(x) : x \in {"startingPlay", "stoppedPlay", "startingPublish", "stopPublish",
                                      "stoppedPublish", "final"}}
               \cup {Step("publishing")}
<1>1. BandwidthCheck \in Seq(S)
  BY DEF BandwidthCheck
<1>2. \A step \in S : step.do = "send" => ~Leaves(step)
  <2>1. /\ \A x : Send(x).command = x /\ Expect(x).do = "expect"
        /\ Step("publishing").do = "publishing"
    BY DEF Send, Request, Expect, Step
  <2> HIDE DEF S
  <2>2. \A step \in S : \/ step.do \in {"expect", "publishing"}
                         \/ step.command \in {"startingPlay", "stoppedPlay", "startingPublish",
                                             "stopPublish", "stoppedPublish", "final"}
    BY <2>1 DEF S
  <2>3. QED  BY <2>2 DEF Leaves
<1>3. BandwidthCheck[1] = Expect("startPlay") /\ 1 \in 1..Len(BandwidthCheck)
  BY DEF BandwidthCheck
<1>4. Awaits(Expect("startPlay")) /\ Expect("startPlay").packet = "startPlay"
  BY DEF Awaits, Expect
<1> DEFINE p == BandwidthCheck
<1> HIDE DEF S, p
<1>5. NotLeaving(p) /\ Len(p) \in Nat
  BY <1>1, <1>2, StepsOfSet DEF p
<1>6. ASSUME NEW j, FirstWait(p, j) PROVE j = 1
  <2>1. j \in 1..Len(p) /\ (j # 1 => 1 \in 1..(j - 1))
    BY <1>5, <1>6 DEF FirstWait
  <2>2. QED  BY <1>3, <1>4, <1>6, <2>1 DEF FirstWait, NoWaitBefore, p
<1>7. QED  BY <1>3, <1>4, <1>5, <1>6 DEF p

LEMMA OwnCallWaits ==
    LET p == <<Request("call", 9, "")>>
    IN  (\A j : ~FirstWait(p, j)) /\ NotLeaving(p) /\ Late(p)
<1> DEFINE a == Request("call", 9, "")
<1>1. a.do = "send" /\ a.command = "call"
  BY DEF Request
<1> HIDE DEF a
<1> DEFINE p == <<a>>
<1>2. Len(p) = 1 /\ p[1] = a /\ \A k \in 1..1 : k = 1
  OBVIOUS
<1> HIDE DEF p
<1>3. \A j : ~FirstWait(p, j)
  BY <1>1, <1>2 DEF FirstWait, Awaits
<1>4. NotLeaving(p) /\ Late(p)
  BY <1>1, <1>2 DEF NotLeaving, Late, Leaves, Awaits
<1>5. QED  BY <1>3, <1>4 DEF p, a

\* A stream is asked for before anything is waited for, and never with connect's answer.
LEMMA DepartsAndOn ==
    ASSUME NEW s, NEW t, ASeq(s), ASeq(t), Departs(s), Late(s), Late(t)
    PROVE  Departs(s \o t) /\ Late(s \o t) /\ Len(s \o t) \in Nat
<1> DEFINE p == s \o t
           m == Len(s)
           n == Len(t)
<1>1. m \in Nat /\ n \in Nat /\ Len(p) = m + n
  BY ConcatASeq DEF ASeq
<1>2. \A k \in 1..m : p[k] = s[k]
  BY ConcatASeq
<1>3. \A k \in 1..n : p[m + k] = t[k]
  BY ConcatASeq
<1> HIDE DEF p
<1>4. Departs(p)
  <2>1. 1 \in 1..m
    BY DEF Departs
  <2>2. 1 \in 1..Len(p) /\ p[1] = s[1]
    BY <1>1, <1>2, <2>1
  <2>3. QED  BY <2>2 DEF Departs
<1>5. Late(p)
  <2> SUFFICES ASSUME NEW k \in 1..Len(p), Awaits(p[k]) PROVE p[k].packet # "ConnectAppRes"
    BY DEF Late
  <2>1. CASE k \in 1..m
    BY <1>2, <2>1 DEF Late
  <2>2. CASE k \notin 1..m
    <3>1. k - m \in 1..n /\ m + (k - m) = k
      BY <1>1, <2>2
    <3>2. p[k] = t[k - m]
      BY <1>3, <3>1
    <3> HIDE DEF m, n
    <3>3. QED  BY <3>1, <3>2 DEF Late, n
  <2>3. QED  BY <2>1, <2>2
<1>6. QED  BY <1>1, <1>4, <1>5 DEF p

LEMMA StreamDeparts ==
    ASSUME NEW p, NEW kind, NEW name, AsksFor(p, kind, name)
    PROVE  Departs(p) /\ Late(p) /\ Len(p) \in Nat
<1>1. ASeq(CreateStream) /\ Departs(CreateStream) /\ Late(CreateStream)
  <2> DEFINE a == Request("createStream", 2, "")
             b == Expect("CreateStreamRes")
             s == <<a, b>>
  <2>1. a.do = "send" /\ a.command = "createStream" /\ b.packet = "CreateStreamRes"
    BY DEF Request, Expect
  <2>2. CreateStream = s
    BY DEF CreateStream
  <2> HIDE DEF a, b
  <2>3. s \in Seq({a, b}) /\ 1 \in 1..Len(s) /\ s[1] = a
    OBVIOUS
  <2>4. \A step \in {a, b} : Awaits(step) => step.packet # "ConnectAppRes"
    BY <2>1 DEF Awaits
  <2> DEFINE S == {a, b}
  <2>5. s \in Seq(S) /\ \A step \in S : Awaits(step) => step.packet # "ConnectAppRes"
    BY <2>3, <2>4
  <2> HIDE DEF S, s
  <2>6. ASeq(s) /\ Late(s)
    BY <2>5, StepsOfSet, SeqIsASeq
  <2>7. QED  BY <2>1, <2>2, <2>3, <2>6 DEF Departs, Stays
<1>2. /\ ASeq(Play(name)) /\ Late(Play(name))
      /\ ASeq(Publish(name)) /\ Late(Publish(name))
  <2> DEFINE S == {Request("play", 0, name), Request("publish", 0, name), Send("UserControl"),
                   Send("SetChunkSize")}
  <2>1. Play(name) \in Seq(S) /\ Publish(name) \in Seq(S)
    BY DEF Play, Publish
  <2>2. \A step \in S : Awaits(step) => step.packet # "ConnectAppRes"
    <3>1. /\ Request("play", 0, name).do = "send" /\ Request("publish", 0, name).do = "send"
          /\ Send("UserControl").do = "send" /\ Send("SetChunkSize").do = "send"
      BY DEF Request, Send
    <3>2. \A step \in S : step.do = "send"
      BY <3>1
    <3>3. QED  BY <3>2 DEF Awaits
  <2> HIDE DEF S
  <2>3. QED  BY <2>1, <2>2, SeqIsASeq, StepsOfSet
<1>3. CASE kind = "fmle" /\ p = FmlePublish(name)
  <2> DEFINE d == Request("releaseStream", 2, name)
             e == Request("FCPublish", 3, name)
             f == Request("createStream", 4, "")
             b == Expect("CreateStreamRes")
             g == Request("publish", 0, name)
             P == <<d, e, f, b, g>>
  <2>1. FmlePublish(name) = P
    BY DEF FmlePublish
  <2>2. /\ d.do = "send" /\ d.command = "releaseStream" /\ e.do = "send" /\ f.do = "send"
        /\ b.packet = "CreateStreamRes" /\ g.do = "send"
    BY DEF Request, Expect
  <2> HIDE DEF d, e, f, b, g
  <2>3. P \in Seq({d, e, f, b, g}) /\ 1 \in 1..Len(P) /\ P[1] = d
    OBVIOUS
  <2>4. \A step \in {d, e, f, b, g} : Awaits(step) => step.packet # "ConnectAppRes"
    BY <2>2 DEF Awaits
  <2> DEFINE S == {d, e, f, b, g}
  <2>5. P \in Seq(S) /\ \A step \in S : Awaits(step) => step.packet # "ConnectAppRes"
    BY <2>3, <2>4
  <2> HIDE DEF S, P
  <2>6. Len(P) \in Nat /\ Late(P)
    BY <2>5, StepsOfSet
  <2>7. Departs(P)
    BY <2>2, <2>3 DEF Departs, Stays
  <2>8. QED  BY <1>3, <2>1, <2>6, <2>7
<1>4. QED  BY <1>1, <1>2, <1>3, DepartsAndOn DEF AsksFor

------------------------------------------------------------------------------
\* A call that asks for something first, or waits for nothing, waits for nothing in vain;
\* and the bandwidth check begins with what is on its way by then.
LEMMA UserAndWaits ==
    ASSUME IInv, JourneyInv, WaitsInv, UserStep
    PROVE  WaitsInv'
<1>1. PICK p : Calls(p) /\ MakesCall(p)
  BY UserCalls DEF JourneyInv
<1>2. /\ plan["client"] = << >> /\ plan'["client"] = p /\ plan'["server"] = plan["server"]
      /\ UNCHANGED <<wire, received, status, lost>>
  BY <1>1 DEF Calls, Plans, Peer
<1>3. /\ phase \in {"new", "handshaken", "check", "checked"} => asked = << >>
      /\ ASeq(asked)
  BY DEF JourneyInv, History
<1>4. /\ asked = << >> => /\ phase \notin {"play", "flash", "fmle"}
                          /\ \A k \in 1..Len(wire["server"]) : ~Leaves(wire["server"][k])
  BY DEF WaitsInv, Apart, Early
<1>5. ASSUME Departs(p), Len(p) \in Nat
      PROVE  /\ \A j : FirstWait(p, j) => ~StillBefore(p, j)
             /\ ~StillBefore(p, Len(p) + 1)
  BY <1>5, DepartsFirst
<1>6. CASE \E name : asked' = Append(asked, [kind |-> phase', name |-> name]) /\ AsksFor(p, phase', name)
  <2>1. PICK name : asked' = Append(asked, [kind |-> phase', name |-> name]) /\ AsksFor(p, phase', name)
    BY <1>6
  <2>2. Departs(p) /\ Late(p) /\ Len(p) \in Nat
    BY <2>1, StreamDeparts
  <2>3. asked' # << >>
    <3> DEFINE e == [kind |-> phase', name |-> name]
    <3> HIDE DEF e
    <3>1. Len(Append(asked, e)) = Len(asked) + 1 /\ Len(asked) \in Nat
      BY <1>3, AppendASeq DEF ASeq
    <3>2. Append(asked, e) # << >>
      BY <3>1, EmptyASeq
    <3>3. QED  BY <2>1, <3>2 DEF e
  <2>4. phase' # "check"
    BY <2>1 DEF AsksFor
  <2>5. Apart'
    BY <1>2, <2>2, <2>3 DEF Apart
  <2>6. Promised' /\ CheckBegins'
    BY <1>2, <1>5, <2>2, <2>4 DEF Promised, CheckBegins, Reached
  <2>7. QED  BY <2>5, <2>6 DEF WaitsInv
<1>7. CASE asked' = asked /\ Prepares(p)
  <2>1. ASSUME asked = << >> => NotLeaving(p) /\ phase' \notin {"play", "flash", "fmle"},
               asked # << >> => Late(p)
        PROVE  Apart'
    BY <1>2, <1>4, <1>7, <2>1 DEF Apart, Early, NotLeaving
  <2>2. ASSUME Departs(p), Len(p) \in Nat, phase' = "check" => ConnectsFirst(p)
        PROVE  Promised' /\ CheckBegins'
    BY <1>2, <1>5, <2>2 DEF Promised, CheckBegins, Reached
  <2>3. CASE phase = "new" /\ phase' = "handshaken" /\ \E version : p = ClientHandshake(version)
    BY <1>3, <2>1, <2>2, <2>3, PreparedDeparts DEF WaitsInv
  <2>4. CASE /\ phase = "handshaken" /\ phase' \in {"connected", "check"}
             /\ \E app : p = ConnectApp(app)
    BY <1>3, <2>1, <2>2, <2>4, PreparedDeparts DEF WaitsInv
  <2>5. CASE phase = "check" /\ phase' = "checked" /\ p = BandwidthCheck
    <3>1. Apart'
      BY <1>3, <2>1, <2>5, CheckWaits
    <3>2. ASSUME Together', NEW j, FirstWait(p, j), Reached(j)'
          PROVE  ComesNow(p[j].packet)'
      <4>1. Together /\ Still(wire["server"]) /\ p[j].packet = "startPlay"
        BY <1>2, <2>5, <3>2, CheckWaits DEF Together, Reached
      <4>2. \A k \in 1..((Len(plan["client"]) + 1) - 1) : FALSE
        BY <1>2, EmptyASeq
      <4>3. Reached(Len(plan["client"]) + 1)
        BY <4>1, <4>2 DEF Reached, StillBefore
      <4>4. ComesNow("startPlay")
        BY <1>2, <2>5, <4>1, <4>3 DEF WaitsInv, CheckBegins
      <4>5. QED  BY <1>2, <4>1, <4>4 DEF ComesNow
    <3>3. Together' => Promised'
      BY <1>2, <3>2 DEF Promised
    <3>4. CheckBegins'
      BY <2>5 DEF CheckBegins
    <3>5. QED  BY <3>1, <3>3, <3>4 DEF WaitsInv
  <2>6. CASE phase = "connected" /\ phase' = "connected" /\ p = <<Request("call", 9, "")>>
    <3>1. (\A j : ~FirstWait(p, j)) /\ NotLeaving(p) /\ Late(p)
      BY <2>6, OwnCallWaits
    <3>2. Apart'
      BY <2>1, <2>6, <3>1
    <3>3. Promised' /\ CheckBegins'
      BY <1>2, <2>6, <3>1 DEF Promised, CheckBegins
    <3>4. QED  BY <3>2, <3>3 DEF WaitsInv
  <2>7. CASE /\ phase = "fmle" /\ phase' = "connected"
             /\ p = <<Request("FCUnpublish", UnpublishTid, "")>>
    <3>1. Departs(p) /\ Late(p) /\ Len(p) \in Nat
      BY <2>7, PreparedDeparts
    <3>2. Apart'
      BY <1>4, <2>1, <2>7, <3>1
    <3>3. Promised' /\ CheckBegins'
      BY <2>2, <2>7, <3>1
    <3>4. QED  BY <3>2, <3>3 DEF WaitsInv
  <2>8. QED  BY <1>7, <2>3, <2>4, <2>5, <2>6, <2>7 DEF Prepares
<1>8. QED  BY <1>1, <1>6, <1>7 DEF MakesCall

\* Who fails, or loses the connection, has nothing to wait for.
LEMMA FailsAndWaits ==
    ASSUME IInv, JourneyInv, WaitsInv, NEW e \in Endpoints, NEW why, Fails(e, why)
    PROVE  WaitsInv'
<1>1. /\ status'[e] # "open" /\ plan'[e] = << >> /\ plan'[Peer(e)] = plan[Peer(e)]
      /\ wire'[Peer(e)] = wire[Peer(e)] /\ LeavesOrReads(e) /\ UNCHANGED <<asked, phase>>
  BY DEF Fails, Others
<1>2. ~Together'
  BY <1>1 DEF Together
<1>3. \A k \in 1..Len(<< >>) : FALSE
  BY EmptyASeq
<1>4. CASE e = "client"
  <2>1. Late(<< >>) /\ \A k \in 1..Len(<< >>) : << >>[k].do = "send" => ~Leaves(<< >>[k])
    BY <1>3 DEF Late
  <2>2. plan'["client"] = << >> /\ wire'["server"] = wire["server"]
    BY <1>1, <1>4 DEF Peer
  <2>3. Apart'
    BY <1>1, <2>1, <2>2 DEF WaitsInv, Apart, Early
  <2>4. QED  BY <1>2, <2>3 DEF WaitsInv
<1>5. CASE e = "server"
  <2>1. plan'["client"] = plan["client"]
    BY <1>1, <1>5 DEF Peer
  <2>2. \A k \in 1..Len(wire'["server"]) : \E j \in 1..Len(wire["server"]) :
           wire'["server"][k] = wire["server"][j]
    <3>1. CASE wire'["server"] = wire["server"]
      BY <3>1
    <3>2. CASE wire["server"] # << >> /\ wire'["server"] = Tail(wire["server"])
      <4>1. ASeq(wire["server"])
        BY DEF IInv, OnStream
      <4> DEFINE w == wire["server"]
      <4>2. \A k \in 1..Len(Tail(w)) : k + 1 \in 1..Len(w) /\ Tail(w)[k] = w[k + 1]
        BY <3>2, <4>1, TailFields
      <4> HIDE DEF w
      <4>3. \A k \in 1..Len(Tail(w)) : \E j \in 1..Len(w) : Tail(w)[k] = w[j]
        BY <4>2
      <4>4. QED  BY <3>2, <4>3 DEF w
    <3>3. QED  BY <1>1, <1>5, <3>1, <3>2 DEF LeavesOrReads
  <2>3. Apart'
    BY <1>1, <2>1, <2>2 DEF WaitsInv, Apart, Early
  <2>4. QED  BY <1>2, <2>3 DEF WaitsInv
<1>6. QED  BY <1>4, <1>5 DEF Endpoints

LEMMA LostAndWaits ==
    ASSUME WaitsInv, Lose
    PROVE  WaitsInv'
<1>1. wire'["server"] = << >> /\ lost' /\ UNCHANGED <<plan, asked, phase>>
  BY DEF Lose, Endpoints
<1>2. \A k \in 1..Len(<< >>) : FALSE
  BY EmptyASeq
<1>3. Apart'
  BY <1>1, <1>2 DEF WaitsInv, Apart, Early
<1>4. QED  BY <1>1, <1>3 DEF WaitsInv, Together

------------------------------------------------------------------------------
LEMMA InitWaits == Init => WaitsInv
<1> SUFFICES ASSUME Init PROVE WaitsInv
  OBVIOUS
<1>1. /\ plan["client"] = << >> /\ wire["server"] = << >> /\ asked = << >> /\ phase = "new"
  BY DEF Init, Endpoints
<1>2. Len(<< >>) = 0 /\ \A k \in 1..0 : FALSE
  BY EmptyASeq
<1>3. Apart
  BY <1>1, <1>2 DEF Apart, Early
<1>4. Promised
  BY <1>1, <1>2 DEF Promised, FirstWait
<1>5. QED  BY <1>1, <1>3, <1>4 DEF WaitsInv, CheckBegins

LEMMA NextWaits == IInv /\ JourneyInv /\ WaitsInv /\ [Next]_vars => WaitsInv'
<1> SUFFICES ASSUME IInv, JourneyInv, WaitsInv, [Next]_vars PROVE WaitsInv'
  OBVIOUS
<1>1. CASE Next
  <2>1. Event
    BY <1>1, EveryStep DEF JourneyInv
  <2>2. \A e \in Endpoints : e = "client" \/ e = "server"
    BY DEF Endpoints
  <2>3. CASE \E e \in Endpoints : \E m : Writes(e, m)
    BY <2>2, <2>3, WritesAndWaits, SaysAndWaits
  <2>4. CASE \E e \in Endpoints : \E why : Fails(e, why)
    BY <2>4, FailsAndWaits
  <2>5. CASE \E e \in Endpoints : Reads(e)
    BY <2>2, <2>5, TakesAndWaits, ReadsAndWaits
  <2>6. CASE \E e \in Endpoints : Drops(e)
    BY <2>2, <2>6, SkipsAndWaits, DropsAndWaits
  <2>7. CASE \E p : Identifies(p) \/ Decides(p)
    BY <2>7, IdentifiesAndWaits, DecidesAndWaits
  <2>8. CASE \E n \in Nat : Publishes(n)
    BY <2>8, PublishesAndWaits
  <2>9. CASE Serves \/ Unpublishes
    BY <2>9, ServesAndWaits
  <2>10. CASE UserStep
    BY <2>10, UserAndWaits
  <2>11. CASE Lose
    BY <2>11, LostAndWaits
  <2>12. QED  BY <2>1, <2>3, <2>4, <2>5, <2>6, <2>7, <2>8, <2>9, <2>10, <2>11 DEF Event
<1>2. CASE UNCHANGED vars
  BY <1>2 DEF vars, WaitsInv, Apart, Together, Promised, CheckBegins, Reached, ComesNow
<1>3. QED  BY <1>1, <1>2

\* What the client waits for comes: it is on its way, or the server is about to send it, as
\* soon as the server got everything it was asked for.
THEOREM WhatIsWaitedForComes == Spec => []WaitsInv
<1>1. QED  BY InitWaits, NextWaits, Inductive, Journeys, PTL DEF Spec

\* Client and server never wait for each other with nothing on the way: the client's wait is
\* for a packet that the server sends without being asked for anything else.
THEOREM NeitherWaitsInVain == Spec => []NoMutualWait
<1>1. IInv /\ JourneyInv /\ WaitsInv => NoMutualWait
  <2> SUFFICES ASSUME IInv, JourneyInv, WaitsInv, WaitsInVain("client"), WaitsInVain("server"),
                      Together
               PROVE  FALSE
    BY DEF NoMutualWait, Together
  <2> DEFINE p == plan["client"]
             q == plan["server"]
  <2>1. p # << >> /\ q # << >> /\ wire["client"] = << >> /\ wire["server"] = << >>
    BY DEF WaitsInVain, Waits
  <2>2. Head(p).do \in {"expect", "read", "identify", "level1"}
        /\ Head(q).do \in {"expect", "read", "identify", "level1"}
    BY DEF WaitsInVain, Waits, Next1
  <2>3. ASeq(p) /\ ASeq(q)
    BY DEF IInv, Shapes, AwaitsNone
  <2>4. Head(p) = p[1] /\ 1 \in 1..Len(p) /\ Head(q) = q[1]
    BY <2>1, <2>3, TailFields
  <2>5. PICK t : Goes(asked, t[1], p[1], t[2])
    BY <2>1, ClientAt
  <2>6. Awaits(p[1])
    BY <2>2, <2>4, <2>5 DEF Goes, Awaits
  <2>7. \A k \in 1..(1 - 1) : FALSE
    OBVIOUS
  <2>8. FirstWait(p, 1) /\ StillBefore(p, 1)
    BY <2>4, <2>6, <2>7 DEF FirstWait, NoWaitBefore, StillBefore
  <2>9. Still(wire["server"])
    BY <2>1, EmptyASeq DEF Still
  <2>10. ComesNow(p[1].packet)
    BY <2>8, <2>9 DEF WaitsInv, Promised, Reached
  <2>11. Waiting(q)
    BY <2>1, <2>2, <2>3, <2>4 DEF Waiting
  <2>12. OnWire(wire["client"], p[1].packet)
    BY <2>10, <2>11, OnlyOnWire DEF ComesNow
  <2>13. QED  BY <2>1, <2>12, EmptyASeq DEF OnWire
<1>2. QED  BY <1>1, Inductive, Journeys, WhatIsWaitedForComes, PTL
==============================================================================
