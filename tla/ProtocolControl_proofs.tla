------------------------- MODULE ProtocolControl_proofs ------------------------
(***************************************************************************)
(* Every ping is answered once, for any windows, message sizes and numbers *)
(* of messages, and however the users turn the automatic response off and  *)
(* on; and in its turn, unless the answering side ever turned it on with   *)
(* answers in the queue.  A ping's number travels from the one who asks to *)
(* its peer, is answered there, perhaps waits in the queue, and travels    *)
(* back.  No step loses or doubles a number on this way, and while the     *)
(* queue is empty whenever answers go out at once, the numbers stand along *)
(* it without a gap.                                                       *)
(***************************************************************************)
EXTENDS ProtocolControl, ASequence, SequenceTheorems, TLAPS

------------------------------------------------------------------------------
(***************************************************************************)
(* Sequences of any elements.                                              *)
(***************************************************************************)
\* A sequence is one over its own elements, and over whatever contains them.
LEMMA OverItsElements ==
    ASSUME NEW s, ASeq(s), NEW S, Elements(s) \subseteq S
    PROVE  s \in Seq(S)
<1>1. \A k \in 1..Len(s) : s[k] \in S
  BY DEF Elements
<1>2. QED  BY <1>1 DEF ASeq

LEMMA SeqIsASeq ==
    ASSUME NEW S, NEW s \in Seq(S)
    PROVE  ASeq(s)
BY DEF ASeq

LEMMA EmptyASeq == ASeq(<< >>) /\ Len(<< >>) = 0
BY DEF ASeq

LEMMA ConcatASeq ==
    ASSUME NEW s, NEW t, ASeq(s), ASeq(t)
    PROVE  /\ ASeq(s \o t)
           /\ Len(s \o t) = Len(s) + Len(t)
           /\ \A k \in 1..Len(s) : (s \o t)[k] = s[k]
           /\ \A k \in 1..Len(t) : (s \o t)[Len(s) + k] = t[k]
<1> DEFINE S == Elements(s) \cup Elements(t)
<1>1. s \in Seq(S) /\ t \in Seq(S)
  <2>1. Elements(s) \subseteq S /\ Elements(t) \subseteq S
    OBVIOUS
  <2> HIDE DEF S
  <2>2. QED  BY <2>1, OverItsElements
<1> HIDE DEF S
<1>2. s \o t \in Seq(S)
  BY <1>1
<1>3. ASeq(s \o t)
  BY <1>2, SeqIsASeq
<1>4. QED  BY <1>1, <1>3

LEMMA TailASeq ==
    ASSUME NEW s, ASeq(s), s # << >>
    PROVE  /\ ASeq(Tail(s)) /\ Head(s) = s[1]
           /\ Len(s) >= 1 /\ Len(Tail(s)) = Len(s) - 1
           /\ \A k \in 1..(Len(s) - 1) : Tail(s)[k] = s[k + 1]
<1> DEFINE S == Elements(s)
<1>1. s \in Seq(S)
  <2> HIDE DEF S
  <2> QED  BY OverItsElements DEF S
<1> HIDE DEF S
<1>2. Tail(s) \in Seq(S) /\ Len(Tail(s)) = Len(s) - 1 /\ Len(s) >= 1
  BY <1>1
<1>3. ASeq(Tail(s))
  BY <1>2, SeqIsASeq
<1>4. QED  BY <1>1, <1>2, <1>3

LEMMA AppendASeq ==
    ASSUME NEW s, ASeq(s), NEW e
    PROVE  /\ ASeq(Append(s, e))
           /\ Len(Append(s, e)) = Len(s) + 1
           /\ \A k \in 1..Len(s) : Append(s, e)[k] = s[k]
           /\ Append(s, e)[Len(s) + 1] = e
<1> DEFINE S == Elements(s) \cup {e}
<1>1. s \in Seq(S) /\ e \in S
  <2>1. Elements(s) \subseteq S /\ e \in S
    OBVIOUS
  <2> HIDE DEF S
  <2>2. QED  BY <2>1, OverItsElements
<1> HIDE DEF S
<1>2. Append(s, e) \in Seq(S)
  BY <1>1
<1>3. ASeq(Append(s, e))
  BY <1>2, SeqIsASeq
<1>4. QED  BY <1>1, <1>3

------------------------------------------------------------------------------
Without(messages, type) == \A k \in 1..Len(messages) : messages[k].type # type

Shapes ==
    /\ in_buffer = [e \in Endpoints |-> in_buffer[e]]
    /\ transport = [e \in Endpoints |-> transport[e]]
    /\ manual_response_queue = [e \in Endpoints |-> manual_response_queue[e]]
    /\ auto_response_when_recv = [e \in Endpoints |-> auto_response_when_recv[e]]
    /\ pongs = [e \in Endpoints |-> pongs[e]]
    /\ pings = [e \in Endpoints |-> pings[e]]
    /\ \A e \in Endpoints :
          /\ ASeq(in_buffer[e]) /\ ASeq(transport[e]) /\ ASeq(manual_response_queue[e])
          /\ ASeq(pongs[e])
          /\ pings[e] \in Nat

\* The queue holds responses; an endpoint that answers at once and was never impatient
\* has nothing in it.
QueuesRespond ==
    \A e \in Endpoints :
        /\ Without(manual_response_queue[e], "PingRequest")
        /\ auto_response_when_recv[e] /\ e \notin impatient
              => manual_response_queue[e] = << >>

IInv == Shapes /\ QueuesRespond /\ PingsAnsweredInOrder /\ PingsAnsweredOnce

\* The way of the pings of one endpoint: the answers it got, those it will get, those
\* queued at its peer, and the pings the peer will get.
Way(got, answers, queued, asked, count) ==
    /\ got = [k \in 1..Len(got) |-> k]
    /\ \E onTheWay, answered \in 0..count :
          /\ InTurn(answers, "PingResponse", Len(got), onTheWay)
          /\ InTurn(queued, "PingResponse", onTheWay, answered)
          /\ InTurn(asked, "PingRequest", answered, count)

\* The same places, in whatever order the numbers are.
Places(got, answers, queued, asked, count) ==
    /\ Parts(1..count, {got[k] : k \in 1..Len(got)}, Numbers(answers, "PingResponse"),
             Numbers(queued, "PingResponse"), Numbers(asked, "PingRequest"))
    /\ \A j, k \in 1..Len(got) : j # k => got[j] # got[k]
    /\ NoneTwice(answers, "PingResponse")
    /\ NoneTwice(queued, "PingResponse")
    /\ NoneTwice(asked, "PingRequest")

\* Both, where p is the one who answers.
Travel(p, got, answers, queued, asked, count) ==
    /\ p \notin impatient => Way(got, answers, queued, asked, count)
    /\ Places(got, answers, queued, asked, count)

LEMMA InOrderUnfolded ==
    PingsAnsweredInOrder /\ PingsAnsweredOnce <=>
        \A e \in Endpoints :
            Travel(Peer(e), pongs[e], Coming(e), manual_response_queue[Peer(e)],
                   Coming(Peer(e)), pings[e])
<1>1. PingsAnsweredInOrder <=>
        \A e \in Endpoints : Peer(e) \notin impatient =>
            Way(pongs[e], Coming(e), manual_response_queue[Peer(e)], Coming(Peer(e)), pings[e])
    BY DEF PingsAnsweredInOrder, Way
<1>2. PingsAnsweredOnce <=>
        \A e \in Endpoints :
            Places(pongs[e], Coming(e), manual_response_queue[Peer(e)], Coming(Peer(e)), pings[e])
    BY DEF PingsAnsweredOnce, Places
<1> QED
    BY <1>1, <1>2 DEF Travel

LEMMA InOrderUnfoldedNext ==
    ASSUME impatient' = impatient
    PROVE  (PingsAnsweredInOrder /\ PingsAnsweredOnce)' <=>
        \A e \in Endpoints :
            Travel(Peer(e), pongs'[e], Coming(e)', manual_response_queue'[Peer(e)],
                   Coming(Peer(e))', pings'[e])
<1>1. PingsAnsweredInOrder' <=>
        \A e \in Endpoints : Peer(e) \notin impatient =>
            Way(pongs'[e], Coming(e)', manual_response_queue'[Peer(e)], Coming(Peer(e))',
                pings'[e])
    BY DEF PingsAnsweredInOrder, Way
<1>2. PingsAnsweredOnce' <=>
        \A e \in Endpoints :
            Places(pongs'[e], Coming(e)', manual_response_queue'[Peer(e)], Coming(Peer(e))',
                   pings'[e])
    BY DEF PingsAnsweredOnce, Places
<1> QED
    BY <1>1, <1>2 DEF Travel

LEMMA TwoEndpoints ==
    ASSUME NEW e \in Endpoints
    PROVE  /\ Peer(e) \in Endpoints /\ Peer(e) # e
           /\ Peer(Peer(e)) = e
           /\ \A x \in Endpoints : x = e \/ x = Peer(e)
<1>1. PICK a \in Endpoints, b \in Endpoints : a # b /\ Endpoints = {a, b}
    BY ControlAssumption
<1>2. \A x \in Endpoints : Peer(x) \in Endpoints /\ Peer(x) # x
    BY <1>1 DEF Peer
<1> QED
    BY <1>1, <1>2

------------------------------------------------------------------------------
\* Numbers in their turn, and where sequences are put together and taken apart.
LEMMA SingleASeq ==
    ASSUME NEW m
    PROVE  ASeq(<<m>>) /\ Len(<<m>>) = 1 /\ <<m>>[1] = m
<1>1. <<m>> \in Seq({m})
    OBVIOUS
<1> QED
    BY <1>1, SeqIsASeq

LEMMA NoneInTurn ==
    ASSUME NEW s, NEW type, NEW a \in Int, Without(s, type)
    PROVE  InTurn(s, type, a, a)
BY DEF InTurn, Without

LEMMA OneInTurn ==
    ASSUME NEW m, NEW a \in Int, m.value = a + 1
    PROVE  InTurn(<<m>>, m.type, a, a + 1)
BY DEF InTurn

LEMMA NoneIsNoNumber ==
    ASSUME NEW s, NEW type, NEW a \in Int, NEW b \in Int, Without(s, type),
           InTurn(s, type, a, b)
    PROVE  a = b
BY DEF InTurn, Without

LEMMA Joined ==
    ASSUME NEW s, NEW u, ASeq(s), ASeq(u), NEW type,
           NEW a \in Int, NEW b \in Int, NEW c \in Int,
           InTurn(s, type, a, b), InTurn(u, type, b, c)
    PROVE  InTurn(s \o u, type, a, c)
<1> DEFINE w == s \o u
<1>0. PICK i, j : i = Len(s) /\ j = Len(u) /\ i \in Nat /\ j \in Nat
    BY DEF ASeq
<1>1. /\ Len(w) = i + j
      /\ \A k \in 1..i : w[k] = s[k]
      /\ \A k \in 1..j : w[i + k] = u[k]
    BY <1>0, ConcatASeq
<1>2. \A k \in (i + 1)..(i + j) : w[k] = u[k - i] /\ k - i \in 1..j
    BY <1>0, <1>1
<1> HIDE DEF w
<1>3. a <= c
    BY DEF InTurn
<1>4. ASSUME NEW n \in (a + 1)..c
      PROVE  \E k \in 1..Len(w) : w[k].type = type /\ w[k].value = n
    <2>1. CASE n <= b
        <3>1. PICK k \in 1..i : s[k].type = type /\ s[k].value = n
            BY <1>0, <2>1 DEF InTurn
        <3> QED
            BY <1>0, <1>1, <3>1
    <2>2. CASE n > b
        <3>1. PICK k \in 1..j : u[k].type = type /\ u[k].value = n
            BY <1>0, <2>2 DEF InTurn
        <3>2. i + k \in 1..(i + j)
            BY <1>0
        <3> QED
            BY <1>1, <3>1, <3>2
    <2> QED
        BY <2>1, <2>2
<1>5. ASSUME NEW k \in 1..Len(w), w[k].type = type
      PROVE  IF k <= i THEN w[k].value \in (a + 1)..b ELSE w[k].value \in (b + 1)..c
    <2>1. CASE k <= i
        <3>1. k \in 1..i
            BY <1>0, <1>1, <2>1
        <3> QED
            BY <1>0, <1>1, <1>5, <2>1, <3>1 DEF InTurn
    <2>2. CASE k > i
        <3>1. k \in (i + 1)..(i + j)
            BY <1>0, <1>1, <2>2
        <3>2. w[k] = u[k - i] /\ k - i \in 1..Len(u)
            BY <1>0, <1>2, <3>1
        <3>3. u[k - i].value \in (b + 1)..c
            BY <1>5, <3>2 DEF InTurn
        <3> QED
            BY <1>0, <1>1, <2>2, <3>2, <3>3
    <2> QED
        BY <1>0, <1>1, <2>1, <2>2
<1>6. ASSUME NEW k \in 1..Len(w), NEW l \in 1..Len(w), k < l,
             w[k].type = type, w[l].type = type
      PROVE  w[k].value < w[l].value
    <2>1. CASE l <= i
        <3>1. k \in 1..i /\ l \in 1..i
            BY <1>0, <1>1, <1>6, <2>1
        <3> QED
            BY <1>0, <1>1, <1>6, <3>1 DEF InTurn
    <2>2. CASE k <= i /\ i < l
        <3>1. w[k].value \in (a + 1)..b /\ w[l].value \in (b + 1)..c
            BY <1>0, <1>1, <1>5, <1>6, <2>2
        <3> QED
            BY <3>1
    <2>3. CASE i < k
        <3>1. k \in (i + 1)..(i + j) /\ l \in (i + 1)..(i + j)
            BY <1>0, <1>1, <1>6, <2>3
        <3>2. w[k] = u[k - i] /\ w[l] = u[l - i]
            BY <1>2, <3>1
        <3>3. k - i \in 1..Len(u) /\ l - i \in 1..Len(u)
            BY <1>0, <1>2, <3>1
        <3>4. k - i < l - i
            BY <1>0, <1>6, <3>1
        <3> QED
            BY <1>6, <3>2, <3>3, <3>4 DEF InTurn
    <2> QED
        BY <1>0, <1>1, <1>6, <2>1, <2>2, <2>3
<1>7. InTurn(w, type, a, c)
    <2>1. \A k \in 1..Len(w) : w[k].type = type => w[k].value \in (a + 1)..c
        <3> SUFFICES ASSUME NEW k \in 1..Len(w), w[k].type = type
                     PROVE  w[k].value \in (a + 1)..c
            OBVIOUS
        <3>1. a <= b /\ b <= c
            BY DEF InTurn
        <3>2. IF k <= i THEN w[k].value \in (a + 1)..b ELSE w[k].value \in (b + 1)..c
            BY <1>5
        <3> QED
            BY <3>1, <3>2
    <2> QED
        BY <1>3, <1>4, <1>6, <2>1 DEF InTurn
<1> QED
    BY <1>7 DEF w

LEMMA Rest ==
    ASSUME NEW s, ASeq(s), s # << >>, NEW type, NEW a \in Int, NEW b \in Int,
           InTurn(s, type, a, b)
    PROVE  /\ s[1].type = type => /\ s[1].value = a + 1
                                  /\ InTurn(Tail(s), type, a + 1, b)
           /\ s[1].type # type => InTurn(Tail(s), type, a, b)
<1>1. PICK i : i \in Nat /\ i >= 1 /\ i = Len(s) /\ Len(Tail(s)) = i - 1
    BY TailASeq DEF ASeq
<1>2. \A k \in 1..(i - 1) : Tail(s)[k] = s[k + 1]
    BY <1>1, TailASeq
<1> DEFINE u == Tail(s)
<1>3. \A k \in 2..i : s[k] = u[k - 1] /\ k - 1 \in 1..(i - 1)
    BY <1>1, <1>2
<1>4. Len(u) = i - 1 /\ \A k \in 1..(i - 1) : u[k] = s[k + 1] /\ k + 1 \in 1..i
    BY <1>1, <1>2
<1> HIDE DEF u
<1>5. \A j, k \in 1..Len(u) :
          j < k /\ u[j].type = type /\ u[k].type = type => u[j].value < u[k].value
    <2> SUFFICES ASSUME NEW j \in 1..Len(u), NEW k \in 1..Len(u), j < k,
                        u[j].type = type, u[k].type = type
                 PROVE  u[j].value < u[k].value
        OBVIOUS
    <2>1. u[j] = s[j + 1] /\ u[k] = s[k + 1] /\ j + 1 \in 1..Len(s) /\ k + 1 \in 1..Len(s)
          /\ j + 1 < k + 1
        BY <1>1, <1>4
    <2> QED
        BY <2>1 DEF InTurn
<1>6. CASE s[1].type = type
    <2>1. s[1].value \in (a + 1)..b /\ 1 \in 1..Len(s)
        BY <1>1, <1>6 DEF InTurn
    <2>2. PICK k \in 1..Len(s) : s[k].type = type /\ s[k].value = a + 1
        <3>1. a + 1 \in (a + 1)..b
            BY <2>1
        <3> QED
            BY <3>1 DEF InTurn
    <2>3. s[1].value = a + 1
        <3>1. k # 1 => s[1].value < s[k].value
            BY <1>1, <1>6, <2>1, <2>2 DEF InTurn
        <3> QED
            BY <2>1, <2>2, <3>1
    <2>4. \A l \in 1..Len(u) : u[l].type = type => u[l].value \in (a + 2)..b
        <3> SUFFICES ASSUME NEW l \in 1..Len(u), u[l].type = type
                     PROVE  u[l].value \in (a + 2)..b
            OBVIOUS
        <3>1. u[l] = s[l + 1] /\ l + 1 \in 1..Len(s) /\ 1 < l + 1
            BY <1>1, <1>4
        <3>2. s[1].value < s[l + 1].value /\ s[l + 1].value \in (a + 1)..b
            BY <1>6, <2>1, <3>1 DEF InTurn
        <3> QED
            BY <2>3, <3>1, <3>2
    <2>5. \A n \in (a + 2)..b : \E l \in 1..Len(u) : u[l].type = type /\ u[l].value = n
        <3> SUFFICES ASSUME NEW n \in (a + 2)..b
                     PROVE  \E l \in 1..Len(u) : u[l].type = type /\ u[l].value = n
            OBVIOUS
        <3>1. n \in (a + 1)..b
            OBVIOUS
        <3>2. PICK l \in 1..Len(s) : s[l].type = type /\ s[l].value = n
            BY <3>1 DEF InTurn
        <3>3. l \in 2..i
            BY <1>1, <2>3, <3>2
        <3>4. s[l] = u[l - 1] /\ l - 1 \in 1..Len(u)
            BY <1>3, <1>4, <3>3
        <3> QED
            BY <3>2, <3>4
    <2>6. InTurn(u, type, a + 1, b)
        <3>1. a + 1 <= b /\ (a + 1) + 1 = a + 2
            BY <2>1
        <3> QED
            BY <1>5, <2>4, <2>5, <3>1 DEF InTurn
    <2> QED
        BY <1>6, <2>3, <2>6 DEF u
<1>7. CASE s[1].type # type
    <2>1. a <= b
        BY DEF InTurn
    <2>2. \A l \in 1..Len(u) : u[l].type = type => u[l].value \in (a + 1)..b
        <3> SUFFICES ASSUME NEW l \in 1..Len(u), u[l].type = type
                     PROVE  u[l].value \in (a + 1)..b
            OBVIOUS
        <3>1. u[l] = s[l + 1] /\ l + 1 \in 1..Len(s)
            BY <1>1, <1>4
        <3> QED
            BY <3>1 DEF InTurn
    <2>3. \A n \in (a + 1)..b : \E l \in 1..Len(u) : u[l].type = type /\ u[l].value = n
        <3> SUFFICES ASSUME NEW n \in (a + 1)..b
                     PROVE  \E l \in 1..Len(u) : u[l].type = type /\ u[l].value = n
            OBVIOUS
        <3>1. PICK l \in 1..Len(s) : s[l].type = type /\ s[l].value = n
            BY DEF InTurn
        <3>2. l \in 2..i
            BY <1>1, <1>7, <3>1
        <3>3. s[l] = u[l - 1] /\ l - 1 \in 1..Len(u)
            BY <1>3, <1>4, <3>2
        <3> QED
            BY <3>1, <3>3
    <2>4. InTurn(u, type, a, b)
        BY <1>5, <2>1, <2>2, <2>3 DEF InTurn
    <2> QED
        BY <1>7, <2>4 DEF u
<1> QED
    BY <1>6, <1>7

------------------------------------------------------------------------------
\* The way of the pings, where a step changes one of its places.
LEMMA PingAsked ==
    ASSUME NEW g, NEW s, NEW q, NEW r, NEW n \in Nat, NEW c \in Nat, NEW x,
           Way(g, s, q, r, n), ASeq(r), ASeq(x), InTurn(x, "PingRequest", n, c)
    PROVE  Way(g, s, q, r \o x, c)
<1>1. PICK onTheWay \in 0..n, answered \in 0..n :
          /\ InTurn(s, "PingResponse", Len(g), onTheWay)
          /\ InTurn(q, "PingResponse", onTheWay, answered)
          /\ InTurn(r, "PingRequest", answered, n)
    BY DEF Way
<1>2. InTurn(r \o x, "PingRequest", answered, c)
    BY <1>1, Joined
<1>3. n <= c
    BY DEF InTurn
<1>4. onTheWay \in 0..c /\ answered \in 0..c
    BY <1>3
<1> QED
    BY <1>1, <1>2, <1>4 DEF Way

LEMMA QueueFlushed ==
    ASSUME NEW g, NEW s, NEW q, NEW r, NEW n \in Nat, NEW m,
           Way(g, s, q, r, n), ASeq(g), ASeq(s), ASeq(q), m.type # "PingResponse"
    PROVE  Way(g, s \o (<<m>> \o q), << >>, r, n)
<1>1. PICK onTheWay \in 0..n, answered \in 0..n :
          /\ InTurn(s, "PingResponse", Len(g), onTheWay)
          /\ InTurn(q, "PingResponse", onTheWay, answered)
          /\ InTurn(r, "PingRequest", answered, n)
    BY DEF Way
<1>2. ASeq(<<m>>) /\ Without(<<m>>, "PingResponse")
    <2>1. ASeq(<<m>>) /\ Len(<<m>>) = 1 /\ <<m>>[1] = m
        BY SingleASeq
    <2> QED
        BY <2>1 DEF Without
<1>3. InTurn(<<m>>, "PingResponse", onTheWay, onTheWay)
    BY <1>2, NoneInTurn
<1>4. InTurn(<<m>> \o q, "PingResponse", onTheWay, answered) /\ ASeq(<<m>> \o q)
    BY <1>1, <1>2, <1>3, Joined, ConcatASeq
<1>5. InTurn(s \o (<<m>> \o q), "PingResponse", Len(g), answered)
    <2>1. Len(g) \in Int
        BY DEF ASeq
    <2> QED
        BY <1>1, <1>4, <2>1, Joined
<1>6. InTurn(<< >>, "PingResponse", answered, answered)
    BY NoneInTurn, EmptyASeq DEF Without
<1> QED
    BY <1>1, <1>5, <1>6 DEF Way

LEMMA AnswerRead ==
    ASSUME NEW g, NEW s, NEW q, NEW r, NEW n \in Nat, NEW x,
           Way(g, s, q, r, n), ASeq(g), ASeq(s), s # << >>, ASeq(r), ASeq(x),
           Without(x, "PingRequest")
    PROVE  Way(IF s[1].type = "PingResponse" THEN Append(g, s[1].value) ELSE g,
               Tail(s), q, r \o x, n)
<1>1. PICK onTheWay \in 0..n, answered \in 0..n :
          /\ InTurn(s, "PingResponse", Len(g), onTheWay)
          /\ InTurn(q, "PingResponse", onTheWay, answered)
          /\ InTurn(r, "PingRequest", answered, n)
    BY DEF Way
<1>2. InTurn(x, "PingRequest", n, n)
    BY NoneInTurn
<1>3. InTurn(r \o x, "PingRequest", answered, n)
    BY <1>1, <1>2, Joined
<1>4. g = [k \in 1..Len(g) |-> k] /\ Len(g) \in Nat
    BY DEF Way, ASeq
<1>5. CASE s[1].type = "PingResponse"
    <2>1. s[1].value = Len(g) + 1 /\ InTurn(Tail(s), "PingResponse", Len(g) + 1, onTheWay)
        BY <1>1, <1>4, <1>5, Rest
    <2> DEFINE h == Append(g, s[1].value)
    <2>2. /\ ASeq(h) /\ Len(h) = Len(g) + 1
          /\ \A k \in 1..Len(g) : h[k] = g[k]
          /\ h[Len(g) + 1] = s[1].value
        BY AppendASeq
    <2> HIDE DEF h
    <2>3. \A k \in 1..Len(h) : h[k] = k
        BY <1>4, <2>1, <2>2
    <2>4. h = [k \in 1..Len(h) |-> k]
        BY <2>2, <2>3 DEF ASeq
    <2>5. Way(h, Tail(s), q, r \o x, n)
        BY <1>1, <1>3, <2>1, <2>2, <2>4 DEF Way
    <2> QED
        BY <1>5, <2>5 DEF h
<1>6. CASE s[1].type # "PingResponse"
    <2>1. InTurn(Tail(s), "PingResponse", Len(g), onTheWay)
        BY <1>1, <1>4, <1>6, Rest
    <2> QED
        BY <1>1, <1>3, <1>4, <1>6, <2>1 DEF Way
<1> QED
    BY <1>5, <1>6

\* x is what goes out when message m is read: the answer to m if m is a ping.
Answers(x, m) ==
    /\ ASeq(x) /\ Without(x, "PingRequest")
    /\ m.type = "PingRequest" /\ m.value \in Nat
          => InTurn(x, "PingResponse", m.value - 1, m.value)
    /\ m.type # "PingRequest" => Without(x, "PingResponse")

LEMMA PingRead ==
    ASSUME NEW g, NEW s, NEW q, NEW r, NEW n \in Nat, NEW x,
           Way(g, s, q, r, n), ASeq(g), ASeq(s), ASeq(q), ASeq(r), r # << >>,
           Answers(x, r[1])
    PROVE  /\ Way(g, s, q \o x, Tail(r), n)
           /\ q = << >> => Way(g, s \o x, q, Tail(r), n)
<1>1. PICK onTheWay \in 0..n, answered \in 0..n :
          /\ InTurn(s, "PingResponse", Len(g), onTheWay)
          /\ InTurn(q, "PingResponse", onTheWay, answered)
          /\ InTurn(r, "PingRequest", answered, n)
    BY DEF Way
<1>2. \E next \in 0..n : /\ InTurn(x, "PingResponse", answered, next)
                         /\ InTurn(Tail(r), "PingRequest", next, n)
    <2>1. CASE r[1].type = "PingRequest"
        <3>1. r[1].value = answered + 1 /\ InTurn(Tail(r), "PingRequest", answered + 1, n)
            BY <1>1, <2>1, Rest
        <3>2. InTurn(x, "PingResponse", answered, answered + 1)
            BY <2>1, <3>1 DEF Answers
        <3>3. answered + 1 <= n
            BY <3>1 DEF InTurn
        <3> QED
            BY <3>1, <3>2, <3>3
    <2>2. CASE r[1].type # "PingRequest"
        <3>1. InTurn(Tail(r), "PingRequest", answered, n)
            BY <1>1, <2>2, Rest
        <3>2. InTurn(x, "PingResponse", answered, answered)
            BY <2>2, NoneInTurn DEF Answers
        <3> QED
            BY <3>1, <3>2
    <2> QED
        BY <2>1, <2>2
<1>3. PICK next \in 0..n : /\ InTurn(x, "PingResponse", answered, next)
                           /\ InTurn(Tail(r), "PingRequest", next, n)
    BY <1>2
<1>4. InTurn(q \o x, "PingResponse", onTheWay, next)
    BY <1>1, <1>3, Joined DEF Answers
<1>5. Way(g, s, q \o x, Tail(r), n)
    BY <1>1, <1>3, <1>4 DEF Way
<1>6. ASSUME q = << >>
      PROVE  Way(g, s \o x, q, Tail(r), n)
    <2>1. Without(q, "PingResponse") /\ Without(q, "PingRequest")
        BY <1>6, EmptyASeq DEF Without
    <2>2. onTheWay = answered
        BY <1>1, <2>1, NoneIsNoNumber
    <2>3. InTurn(s \o x, "PingResponse", Len(g), next)
        <3>1. Len(g) \in Int
            BY DEF ASeq
        <3>2. ASeq(x)
            BY DEF Answers
        <3> QED
            BY <1>1, <1>3, <2>2, <3>1, <3>2, Joined
    <2>4. InTurn(q, "PingResponse", next, next)
        BY <2>1, NoneInTurn
    <2> QED
        BY <1>1, <1>3, <2>3, <2>4 DEF Way
<1> QED
    BY <1>5, <1>6

------------------------------------------------------------------------------
\* The numbers in a sequence, and where sequences are put together and taken apart.
LEMMA NumbersOfNone ==
    ASSUME NEW s, NEW type, Without(s, type)
    PROVE  Numbers(s, type) = {} /\ NoneTwice(s, type)
BY DEF Without, Numbers, NoneTwice

LEMMA NumbersInTurn ==
    ASSUME NEW s, ASeq(s), NEW type, NEW a \in Int, NEW b \in Int, InTurn(s, type, a, b)
    PROVE  Numbers(s, type) = (a + 1)..b /\ NoneTwice(s, type)
<1>1. ASSUME NEW v \in Numbers(s, type)
      PROVE  v \in (a + 1)..b
    <2>1. PICK k \in 1..Len(s) : s[k].type = type /\ v = s[k].value
        BY DEF Numbers
    <2> QED
        BY <2>1 DEF InTurn
<1>2. ASSUME NEW v \in (a + 1)..b
      PROVE  v \in Numbers(s, type)
    <2>1. PICK k \in 1..Len(s) : s[k].type = type /\ s[k].value = v
        BY DEF InTurn
    <2> QED
        BY <2>1 DEF Numbers
<1>3. NoneTwice(s, type)
    <2> SUFFICES ASSUME NEW j \in 1..Len(s), NEW k \in 1..Len(s), j # k,
                        s[j].type = type, s[k].type = type
                 PROVE  s[j].value # s[k].value
        BY DEF NoneTwice
    <2>1. s[j].value \in Int /\ s[k].value \in Int
        BY DEF InTurn
    <2>2. j < k \/ k < j
        BY DEF ASeq
    <2>3. s[j].value < s[k].value \/ s[k].value < s[j].value
        BY <2>2 DEF InTurn
    <2> QED
        BY <2>1, <2>3
<1> QED
    BY <1>1, <1>2, <1>3

LEMMA NumbersJoined ==
    ASSUME NEW s, NEW u, ASeq(s), ASeq(u), NEW type
    PROVE  /\ Numbers(s \o u, type) = Numbers(s, type) \cup Numbers(u, type)
           /\ NoneTwice(s, type) /\ NoneTwice(u, type)
              /\ Numbers(s, type) \cap Numbers(u, type) = {}
                 => NoneTwice(s \o u, type)
<1>0. PICK i, j : i = Len(s) /\ j = Len(u) /\ i \in Nat /\ j \in Nat
    BY DEF ASeq
<1> DEFINE w == s \o u
<1>1. /\ Len(w) = i + j
      /\ \A k \in 1..i : w[k] = s[k]
      /\ \A k \in 1..j : w[i + k] = u[k]
    BY <1>0, ConcatASeq
<1>2. \A k \in (i + 1)..(i + j) : w[k] = u[k - i] /\ k - i \in 1..j
    BY <1>0, <1>1
<1> HIDE DEF w
<1>3. \A k \in 1..Len(w) : k \in 1..i \/ k \in (i + 1)..(i + j)
    BY <1>0, <1>1
<1>4. ASSUME NEW v \in Numbers(w, type)
      PROVE  v \in Numbers(s, type) \cup Numbers(u, type)
    <2>1. PICK k \in 1..Len(w) : w[k].type = type /\ v = w[k].value
        BY DEF Numbers
    <2>2. CASE k \in 1..i
        BY <1>0, <1>1, <2>1, <2>2 DEF Numbers
    <2>3. CASE k \in (i + 1)..(i + j)
        <3>1. k - i \in 1..Len(u) /\ u[k - i].type = type /\ v = u[k - i].value
            BY <1>0, <1>2, <2>1, <2>3
        <3> QED
            BY <3>1 DEF Numbers
    <2> QED
        BY <1>3, <2>2, <2>3
<1>5. ASSUME NEW v \in Numbers(s, type) \cup Numbers(u, type)
      PROVE  v \in Numbers(w, type)
    <2>1. CASE v \in Numbers(s, type)
        <3>1. PICK k \in 1..i : s[k].type = type /\ v = s[k].value
            BY <1>0, <2>1 DEF Numbers
        <3>2. k \in 1..Len(w) /\ w[k].type = type /\ v = w[k].value
            BY <1>0, <1>1, <3>1
        <3> QED
            BY <3>2 DEF Numbers
    <2>2. CASE v \in Numbers(u, type)
        <3>1. PICK k \in 1..j : u[k].type = type /\ v = u[k].value
            BY <1>0, <2>2 DEF Numbers
        <3>2. i + k \in 1..Len(w) /\ w[i + k].type = type /\ v = w[i + k].value
            BY <1>0, <1>1, <3>1
        <3> QED
            BY <3>2 DEF Numbers
    <2> QED
        BY <2>1, <2>2
<1>6. ASSUME NoneTwice(s, type), NoneTwice(u, type),
             Numbers(s, type) \cap Numbers(u, type) = {}
      PROVE  NoneTwice(w, type)
    <2> SUFFICES ASSUME NEW k \in 1..Len(w), NEW l \in 1..Len(w), k # l,
                        w[k].type = type, w[l].type = type
                 PROVE  w[k].value # w[l].value
        BY DEF NoneTwice
    <2>1. CASE k \in 1..i /\ l \in 1..i
        BY <1>0, <1>1, <1>6, <2>1 DEF NoneTwice
    <2>2. CASE k \in (i + 1)..(i + j) /\ l \in (i + 1)..(i + j)
        <3>1. /\ k - i \in 1..Len(u) /\ l - i \in 1..Len(u)
              /\ w[k] = u[k - i] /\ w[l] = u[l - i]
            BY <1>0, <1>2, <2>2
        <3>2. k - i # l - i
            BY <1>0, <2>2
        <3> QED
            BY <1>6, <3>1, <3>2 DEF NoneTwice
    <2>3. CASE k \in 1..i /\ l \in (i + 1)..(i + j)
        <3>1. w[k].value \in Numbers(s, type)
            BY <1>0, <1>1, <2>3 DEF Numbers
        <3>2. l - i \in 1..Len(u) /\ w[l] = u[l - i]
            BY <1>0, <1>2, <2>3
        <3>3. w[l].value \in Numbers(u, type)
            BY <3>2 DEF Numbers
        <3> QED
            BY <1>6, <3>1, <3>3
    <2>4. CASE l \in 1..i /\ k \in (i + 1)..(i + j)
        <3>1. w[l].value \in Numbers(s, type)
            BY <1>0, <1>1, <2>4 DEF Numbers
        <3>2. k - i \in 1..Len(u) /\ w[k] = u[k - i]
            BY <1>0, <1>2, <2>4
        <3>3. w[k].value \in Numbers(u, type)
            BY <3>2 DEF Numbers
        <3> QED
            BY <1>6, <3>1, <3>3
    <2> QED
        BY <1>3, <2>1, <2>2, <2>3, <2>4
<1>7. Numbers(w, type) = Numbers(s, type) \cup Numbers(u, type)
    BY <1>4, <1>5
<1> QED
    BY <1>6, <1>7 DEF w

LEMMA NumbersOfRest ==
    ASSUME NEW s, ASeq(s), s # << >>, NEW type, NoneTwice(s, type)
    PROVE  /\ NoneTwice(Tail(s), type)
           /\ s[1].type = type => /\ Numbers(s, type) = {s[1].value} \cup Numbers(Tail(s), type)
                                  /\ s[1].value \notin Numbers(Tail(s), type)
           /\ s[1].type # type => Numbers(s, type) = Numbers(Tail(s), type)
<1>1. PICK i : i \in Nat /\ i >= 1 /\ i = Len(s) /\ Len(Tail(s)) = i - 1
    BY TailASeq DEF ASeq
<1> DEFINE u == Tail(s)
<1>2. Len(u) = i - 1 /\ \A k \in 1..(i - 1) : u[k] = s[k + 1] /\ k + 1 \in 1..i /\ k + 1 # 1
    BY <1>1, TailASeq
<1> HIDE DEF u
<1>3. \A k \in 2..i : s[k] = u[k - 1] /\ k - 1 \in 1..Len(u)
    BY <1>1, <1>2
<1>4. NoneTwice(u, type)
    <2> SUFFICES ASSUME NEW k \in 1..Len(u), NEW l \in 1..Len(u), k # l,
                        u[k].type = type, u[l].type = type
                 PROVE  u[k].value # u[l].value
        BY DEF NoneTwice
    <2>1. /\ u[k] = s[k + 1] /\ u[l] = s[l + 1]
          /\ k + 1 \in 1..Len(s) /\ l + 1 \in 1..Len(s) /\ k + 1 # l + 1
        BY <1>1, <1>2
    <2> QED
        BY <2>1 DEF NoneTwice
<1>5. \A v \in Numbers(u, type) : \E k \in 2..i : s[k].type = type /\ v = s[k].value
    <2> SUFFICES ASSUME NEW v \in Numbers(u, type)
                 PROVE  \E k \in 2..i : s[k].type = type /\ v = s[k].value
        OBVIOUS
    <2>1. PICK k \in 1..Len(u) : u[k].type = type /\ v = u[k].value
        BY DEF Numbers
    <2>2. k + 1 \in 2..i /\ u[k] = s[k + 1]
        BY <1>1, <1>2
    <2> QED
        BY <2>1, <2>2
<1>6. \A v \in Numbers(s, type) :
          v \in Numbers(u, type) \/ (s[1].type = type /\ v = s[1].value)
    <2> SUFFICES ASSUME NEW v \in Numbers(s, type)
                 PROVE  v \in Numbers(u, type) \/ (s[1].type = type /\ v = s[1].value)
        OBVIOUS
    <2>1. PICK k \in 1..Len(s) : s[k].type = type /\ v = s[k].value
        BY DEF Numbers
    <2>2. CASE k = 1
        BY <2>1, <2>2
    <2>3. CASE k # 1
        <3>1. k \in 2..i
            BY <1>1, <2>3
        <3>2. k - 1 \in 1..Len(u) /\ s[k] = u[k - 1]
            BY <1>3, <3>1
        <3> QED
            BY <2>1, <3>2 DEF Numbers
    <2> QED
        BY <2>2, <2>3
<1>7. Numbers(u, type) \subseteq Numbers(s, type)
    <2>1. \A k \in 2..i : k \in 1..Len(s)
        BY <1>1
    <2> QED
        BY <1>5, <2>1 DEF Numbers
<1>8. ASSUME s[1].type = type
      PROVE  s[1].value \in Numbers(s, type) /\ s[1].value \notin Numbers(u, type)
    <2>1. 1 \in 1..Len(s)
        BY <1>1
    <2>2. \A k \in 2..i : k \in 1..Len(s) /\ k # 1
        BY <1>1
    <2>3. \A k \in 2..i : s[k].type = type => s[k].value # s[1].value
        BY <1>8, <2>1, <2>2 DEF NoneTwice
    <2> QED
        BY <1>5, <1>8, <2>1, <2>3 DEF Numbers
<1>9. s[1].type = type => Numbers(s, type) = {s[1].value} \cup Numbers(u, type)
    BY <1>6, <1>7, <1>8
<1>10. s[1].type # type => Numbers(s, type) = Numbers(u, type)
    BY <1>6, <1>7
<1> QED
    BY <1>4, <1>8, <1>9, <1>10 DEF u

------------------------------------------------------------------------------
\* The places of the pings, where a step changes one of them.
LEMMA PingPlaced ==
    ASSUME NEW g, NEW s, NEW q, NEW r, NEW n \in Nat, NEW c \in Nat, NEW x,
           Places(g, s, q, r, n), ASeq(r), ASeq(x), InTurn(x, "PingRequest", n, c)
    PROVE  Places(g, s, q, r \o x, c)
<1>1. n <= c
    BY DEF InTurn
<1>2. Numbers(x, "PingRequest") = (n + 1)..c /\ NoneTwice(x, "PingRequest")
    BY NumbersInTurn
<1> DEFINE G == {g[k] : k \in 1..Len(g)}
           A == Numbers(s, "PingResponse")
           Q == Numbers(q, "PingResponse")
           R == Numbers(r, "PingRequest")
           X == Numbers(x, "PingRequest")
<1>3. Parts(1..n, G, A, Q, R)
    BY DEF Places
<1>4. X = (n + 1)..c
    BY <1>2
<1>5. 1..c = (1..n) \cup X /\ (1..n) \cap X = {}
    BY <1>1, <1>4
<1>6. Numbers(r \o x, "PingRequest") = R \cup X
    BY NumbersJoined
<1>7. R \subseteq 1..n
    BY <1>3 DEF Parts
<1>8. NoneTwice(r \o x, "PingRequest")
    <2>1. R \cap X = {}
        BY <1>5, <1>7
    <2> QED
        BY <1>2, <2>1, NumbersJoined DEF Places
<1>9. Parts(1..c, G, A, Q, R \cup X)
    <2> HIDE DEF G, A, Q, R, X
    <2> QED
        BY <1>3, <1>5 DEF Parts
<1> QED
    BY <1>6, <1>8, <1>9 DEF Places

LEMMA QueuePlaced ==
    ASSUME NEW g, NEW s, NEW q, NEW r, NEW n \in Nat, NEW m,
           Places(g, s, q, r, n), ASeq(s), ASeq(q), m.type # "PingResponse"
    PROVE  Places(g, s \o (<<m>> \o q), << >>, r, n)
<1>1. ASeq(<<m>>) /\ Without(<<m>>, "PingResponse")
    <2>1. ASeq(<<m>>) /\ Len(<<m>>) = 1 /\ <<m>>[1] = m
        BY SingleASeq
    <2> QED
        BY <2>1 DEF Without
<1>2. Numbers(<<m>>, "PingResponse") = {} /\ NoneTwice(<<m>>, "PingResponse")
    BY <1>1, NumbersOfNone
<1> DEFINE G == {g[k] : k \in 1..Len(g)}
           A == Numbers(s, "PingResponse")
           Q == Numbers(q, "PingResponse")
           R == Numbers(r, "PingRequest")
<1>3. /\ ASeq(<<m>> \o q)
      /\ Numbers(<<m>> \o q, "PingResponse") = Q
      /\ NoneTwice(<<m>> \o q, "PingResponse")
    <2>1. Numbers(<<m>> \o q, "PingResponse") = Numbers(<<m>>, "PingResponse") \cup Q
        BY <1>1, NumbersJoined
    <2>2. NoneTwice(q, "PingResponse") /\ Numbers(<<m>>, "PingResponse") \cap Q = {}
        BY <1>2 DEF Places
    <2>3. NoneTwice(<<m>> \o q, "PingResponse")
        BY <1>1, <1>2, <2>2, NumbersJoined
    <2> QED
        BY <1>1, <1>2, <2>1, <2>3, ConcatASeq
<1>4. Parts(1..n, G, A, Q, R)
    BY DEF Places
<1>5. Numbers(s \o (<<m>> \o q), "PingResponse") = A \cup Q
    BY <1>3, NumbersJoined
<1>6. NoneTwice(s \o (<<m>> \o q), "PingResponse")
    <2>1. A \cap Q = {}
        BY <1>4 DEF Parts
    <2>2. NoneTwice(s, "PingResponse")
        BY DEF Places
    <2> QED
        BY <1>3, <2>1, <2>2, NumbersJoined
<1>7. Numbers(<< >>, "PingResponse") = {} /\ NoneTwice(<< >>, "PingResponse")
    BY EmptyASeq, NumbersOfNone DEF Without
<1>8. Parts(1..n, G, A \cup Q, {}, R)
    <2> HIDE DEF G, A, Q, R
    <2> QED
        BY <1>4 DEF Parts
<1> QED
    BY <1>5, <1>6, <1>7, <1>8 DEF Places

LEMMA AnswerPlaced ==
    ASSUME NEW g, NEW s, NEW q, NEW r, NEW n \in Nat, NEW x,
           Places(g, s, q, r, n), ASeq(g), ASeq(s), s # << >>, ASeq(r), ASeq(x),
           Without(x, "PingRequest")
    PROVE  Places(IF s[1].type = "PingResponse" THEN Append(g, s[1].value) ELSE g,
                  Tail(s), q, r \o x, n)
<1> DEFINE G == {g[k] : k \in 1..Len(g)}
           A == Numbers(s, "PingResponse")
           T == Numbers(Tail(s), "PingResponse")
           Q == Numbers(q, "PingResponse")
           R == Numbers(r, "PingRequest")
<1>1. Parts(1..n, G, A, Q, R)
    BY DEF Places
<1>2. Numbers(r \o x, "PingRequest") = R /\ NoneTwice(r \o x, "PingRequest")
    <2>1. Numbers(x, "PingRequest") = {} /\ NoneTwice(x, "PingRequest")
        BY NumbersOfNone
    <2>2. NoneTwice(r, "PingRequest") /\ R \cap Numbers(x, "PingRequest") = {}
        BY <2>1 DEF Places
    <2>3. Numbers(r \o x, "PingRequest") = R \cup Numbers(x, "PingRequest")
        BY NumbersJoined
    <2> QED
        BY <2>1, <2>2, <2>3, NumbersJoined
<1>3. /\ NoneTwice(Tail(s), "PingResponse")
      /\ s[1].type = "PingResponse" => A = {s[1].value} \cup T /\ s[1].value \notin T
      /\ s[1].type # "PingResponse" => A = T
    <2>1. NoneTwice(s, "PingResponse")
        BY DEF Places
    <2> QED
        BY <2>1, NumbersOfRest
<1>4. /\ \A j, k \in 1..Len(g) : j # k => g[j] # g[k]
      /\ NoneTwice(q, "PingResponse")
    BY DEF Places
<1>5. CASE s[1].type = "PingResponse"
    <2> DEFINE v == s[1].value
               h == Append(g, v)
               H == {h[k] : k \in 1..Len(h)}
    <2>0. PICK i : i = Len(g) /\ i \in Nat
        BY DEF ASeq
    <2>1. /\ Len(h) = i + 1 /\ h[i + 1] = v
          /\ \A k \in 1..i : h[k] = g[k]
        BY <2>0, AppendASeq
    <2>2. Parts(1..n, G \cup {v}, T, Q, R) /\ v \notin G
        <3>1. A = {v} \cup T /\ v \notin T
            BY <1>3, <1>5
        <3> HIDE DEF G, A, T, Q, R, v
        <3> QED
            BY <1>1, <3>1 DEF Parts
    <2> HIDE DEF v, h
    <2>3. \A k \in 1..(i + 1) : k \in 1..i \/ k = i + 1
        BY <2>0
    <2>4. \A k \in 1..i : k \in 1..(i + 1)
        BY <2>0
    <2>5. i + 1 \in 1..(i + 1)
        BY <2>0
    <2>6. H = G \cup {v}
        <3>1. ASSUME NEW y \in H PROVE y \in G \cup {v}
            <4>1. PICK k \in 1..(i + 1) : y = h[k]
                BY <2>1
            <4> QED
                BY <2>0, <2>1, <2>3, <4>1
        <3>2. ASSUME NEW y \in G PROVE y \in H
            <4>1. PICK k \in 1..i : y = g[k]
                BY <2>0
            <4> QED
                BY <2>1, <2>4, <4>1
        <3>3. v \in H
            BY <2>1, <2>5
        <3> QED
            BY <3>1, <3>2, <3>3
    <2>7. \A j, k \in 1..Len(h) : j # k => h[j] # h[k]
        <3> SUFFICES ASSUME NEW j \in 1..(i + 1), NEW k \in 1..(i + 1), j # k
                     PROVE  h[j] # h[k]
            BY <2>1
        <3>1. \A l \in 1..i : h[l] # v
            BY <2>0, <2>1, <2>2
        <3>2. CASE j = i + 1 \/ k = i + 1
            BY <2>1, <2>3, <3>1, <3>2
        <3>3. CASE j \in 1..i /\ k \in 1..i
            BY <1>4, <2>0, <2>1, <3>3
        <3> QED
            BY <2>3, <3>2, <3>3
    <2>8. Places(h, Tail(s), q, r \o x, n)
        BY <1>2, <1>3, <1>4, <2>2, <2>6, <2>7 DEF Places
    <2> QED
        BY <1>5, <2>8 DEF h, v
<1>6. CASE s[1].type # "PingResponse"
    <2>1. Places(g, Tail(s), q, r \o x, n)
        BY <1>1, <1>2, <1>3, <1>4, <1>6 DEF Places
    <2> QED
        BY <1>6, <2>1
<1> QED
    BY <1>5, <1>6

LEMMA PingMoved ==
    ASSUME NEW g, NEW s, NEW q, NEW r, NEW n \in Nat, NEW x,
           Places(g, s, q, r, n), ASeq(s), ASeq(q), ASeq(r), r # << >>, Answers(x, r[1])
    PROVE  /\ Places(g, s, q \o x, Tail(r), n)
           /\ Places(g, s \o x, q, Tail(r), n)
<1> DEFINE G == {g[k] : k \in 1..Len(g)}
           A == Numbers(s, "PingResponse")
           Q == Numbers(q, "PingResponse")
           R == Numbers(r, "PingRequest")
           T == Numbers(Tail(r), "PingRequest")
           X == Numbers(x, "PingResponse")
<1>1. Parts(1..n, G, A, Q, R)
    BY DEF Places
<1>2. /\ NoneTwice(s, "PingResponse") /\ NoneTwice(q, "PingResponse")
      /\ NoneTwice(r, "PingRequest")
      /\ \A j, k \in 1..Len(g) : j # k => g[j] # g[k]
    BY DEF Places
<1>3. /\ NoneTwice(Tail(r), "PingRequest")
      /\ r[1].type = "PingRequest" => R = {r[1].value} \cup T /\ r[1].value \notin T
      /\ r[1].type # "PingRequest" => R = T
    BY <1>2, NumbersOfRest
<1>4. ASeq(x)
    BY DEF Answers
<1>5. NoneTwice(x, "PingResponse") /\ R = X \cup T /\ X \cap T = {}
    <2>1. CASE r[1].type = "PingRequest"
        <3>1. r[1].value \in R
            BY <1>3, <2>1
        <3>2. PICK v : v = r[1].value /\ v \in 1..n
            BY <1>1, <3>1 DEF Parts
        <3>3. v \in Nat /\ v - 1 \in Int /\ ((v - 1) + 1)..v = {v}
            BY <3>2
        <3>4. InTurn(x, "PingResponse", v - 1, v)
            BY <2>1, <3>2, <3>3 DEF Answers
        <3>5. X = {v} /\ NoneTwice(x, "PingResponse")
            BY <1>4, <3>3, <3>4, NumbersInTurn
        <3> QED
            BY <1>3, <2>1, <3>2, <3>5
    <2>2. CASE r[1].type # "PingRequest"
        <3>1. X = {} /\ NoneTwice(x, "PingResponse")
            BY <2>2, NumbersOfNone DEF Answers
        <3> QED
            BY <1>3, <2>2, <3>1
    <2> QED
        BY <2>1, <2>2
<1>6. Parts(1..n, G, A, Q \cup X, T) /\ Parts(1..n, G, A \cup X, Q, T)
      /\ A \cap X = {} /\ Q \cap X = {}
    <2> HIDE DEF G, A, Q, R, T, X
    <2>1. R = X \cup T /\ X \cap T = {}
        BY <1>5
    <2>2. Parts(1..n, G, A, Q \cup X, T)
        BY <1>1, <2>1 DEF Parts
    <2>3. Parts(1..n, G, A \cup X, Q, T)
        BY <1>1, <2>1 DEF Parts
    <2>4. A \cap X = {} /\ Q \cap X = {}
        BY <1>1, <2>1 DEF Parts
    <2> QED
        BY <2>2, <2>3, <2>4
<1>7. Numbers(q \o x, "PingResponse") = Q \cup X /\ NoneTwice(q \o x, "PingResponse")
    BY <1>2, <1>4, <1>5, <1>6, NumbersJoined
<1>8. Numbers(s \o x, "PingResponse") = A \cup X /\ NoneTwice(s \o x, "PingResponse")
    BY <1>2, <1>4, <1>5, <1>6, NumbersJoined
<1>9. Places(g, s, q \o x, Tail(r), n)
    BY <1>2, <1>3, <1>6, <1>7 DEF Places
<1>10. Places(g, s \o x, q, Tail(r), n)
    BY <1>2, <1>3, <1>6, <1>8 DEF Places
<1> QED
    BY <1>9, <1>10

------------------------------------------------------------------------------
\* Both at once.
LEMMA TravelAsked ==
    ASSUME NEW p, NEW g, NEW s, NEW q, NEW r, NEW n \in Nat, NEW c \in Nat, NEW x,
           Travel(p, g, s, q, r, n), ASeq(r), ASeq(x), InTurn(x, "PingRequest", n, c)
    PROVE  Travel(p, g, s, q, r \o x, c)
<1>1. Places(g, s, q, r \o x, c)
    BY PingPlaced DEF Travel
<1>2. p \notin impatient => Way(g, s, q, r \o x, c)
    BY PingAsked DEF Travel
<1> QED
    BY <1>1, <1>2 DEF Travel

LEMMA TravelFlushed ==
    ASSUME NEW p, NEW g, NEW s, NEW q, NEW r, NEW n \in Nat, NEW m,
           Travel(p, g, s, q, r, n), ASeq(g), ASeq(s), ASeq(q), m.type # "PingResponse"
    PROVE  Travel(p, g, s \o (<<m>> \o q), << >>, r, n)
<1>1. Places(g, s \o (<<m>> \o q), << >>, r, n)
    BY QueuePlaced DEF Travel
<1>2. p \notin impatient => Way(g, s \o (<<m>> \o q), << >>, r, n)
    BY QueueFlushed DEF Travel
<1> QED
    BY <1>1, <1>2 DEF Travel

LEMMA TravelAnswerRead ==
    ASSUME NEW p, NEW g, NEW s, NEW q, NEW r, NEW n \in Nat, NEW x,
           Travel(p, g, s, q, r, n), ASeq(g), ASeq(s), s # << >>, ASeq(r), ASeq(x),
           Without(x, "PingRequest")
    PROVE  Travel(p, IF s[1].type = "PingResponse" THEN Append(g, s[1].value) ELSE g,
                  Tail(s), q, r \o x, n)
<1> DEFINE h == IF s[1].type = "PingResponse" THEN Append(g, s[1].value) ELSE g
<1>1. Places(h, Tail(s), q, r \o x, n)
    BY AnswerPlaced DEF Travel
<1>2. p \notin impatient => Way(h, Tail(s), q, r \o x, n)
    BY AnswerRead DEF Travel
<1> HIDE DEF h
<1>3. Travel(p, h, Tail(s), q, r \o x, n)
    BY <1>1, <1>2 DEF Travel
<1> QED
    BY <1>3 DEF h

LEMMA TravelPingRead ==
    ASSUME NEW p, NEW g, NEW s, NEW q, NEW r, NEW n \in Nat, NEW x,
           Travel(p, g, s, q, r, n), ASeq(g), ASeq(s), ASeq(q), ASeq(r), r # << >>,
           Answers(x, r[1])
    PROVE  /\ Travel(p, g, s, q \o x, Tail(r), n)
           /\ (p \notin impatient => q = << >>) => Travel(p, g, s \o x, q, Tail(r), n)
<1>1. Places(g, s, q \o x, Tail(r), n) /\ Places(g, s \o x, q, Tail(r), n)
    BY PingMoved DEF Travel
<1>2. p \notin impatient => /\ Way(g, s, q \o x, Tail(r), n)
                            /\ q = << >> => Way(g, s \o x, q, Tail(r), n)
    BY PingRead DEF Travel
<1> QED
    BY <1>1, <1>2 DEF Travel

------------------------------------------------------------------------------
\* The transport and the buffer, one behind the other.
LEMMA Associative ==
    ASSUME NEW s, NEW u, NEW w, ASeq(s), ASeq(u), ASeq(w)
    PROVE  s \o (u \o w) = (s \o u) \o w
<1> DEFINE S == Elements(s) \cup Elements(u) \cup Elements(w)
<1>1. s \in Seq(S) /\ u \in Seq(S) /\ w \in Seq(S)
    <2>1. Elements(s) \subseteq S /\ Elements(u) \subseteq S /\ Elements(w) \subseteq S
        OBVIOUS
    <2> HIDE DEF S
    <2> QED
        BY <2>1, OverItsElements
<1> HIDE DEF S
<1> QED
    BY <1>1

LEMMA FirstTaken ==
    ASSUME NEW s, NEW u, ASeq(s), ASeq(u), s # << >>
    PROVE  /\ s \o u # << >> /\ (s \o u)[1] = Head(s)
           /\ Tail(s) \o u = Tail(s \o u)
<1> DEFINE S == Elements(s) \cup Elements(u)
<1>1. s \in Seq(S) /\ u \in Seq(S)
    <2>1. Elements(s) \subseteq S /\ Elements(u) \subseteq S
        OBVIOUS
    <2> HIDE DEF S
    <2> QED
        BY <2>1, OverItsElements
<1> HIDE DEF S
<1>2. Len(s) >= 1 /\ Head(s) = s[1] /\ (s \o u)[1] = s[1] /\ Len(s \o u) >= 1
    BY TailASeq, ConcatASeq DEF ASeq
<1>3. s \o u # << >>
    BY <1>2, EmptyASeq
<1>4. Tail(s) \o u = Tail(s \o u)
    BY <1>1, <1>2, <1>3
<1> QED
    BY <1>2, <1>3, <1>4

LEMMA MovedOver ==
    ASSUME NEW s, ASeq(s), NEW n \in 1..Len(s)
    PROVE  /\ ASeq(SubSeq(s, 1, n)) /\ ASeq(SubSeq(s, n + 1, Len(s)))
           /\ SubSeq(s, 1, n) \o SubSeq(s, n + 1, Len(s)) = << >> \o s
<1>1. PICK S : s \in Seq(S)
    <2>1. Elements(s) \subseteq Elements(s)
        OBVIOUS
    <2> QED
        BY <2>1, OverItsElements
<1>2. SubSeq(s, 1, n) \in Seq(S) /\ SubSeq(s, n + 1, Len(s)) \in Seq(S)
    BY <1>1
<1>3. SubSeq(s, 1, n) \o SubSeq(s, n + 1, Len(s)) = s
    BY <1>1, <1>2
<1>4. << >> \o s = s
    BY <1>1
<1> QED
    BY <1>2, <1>3, <1>4, SeqIsASeq

LEMMA NothingBehind ==
    ASSUME NEW s, ASeq(s)
    PROVE  s \o << >> = s
<1>1. PICK S : s \in Seq(S)
    <2>1. Elements(s) \subseteq Elements(s)
        OBVIOUS
    <2> QED
        BY <2>1, OverItsElements
<1> QED
    BY <1>1

LEMMA ComingASeq ==
    ASSUME Shapes, NEW e \in Endpoints
    PROVE  ASeq(Coming(e))
BY ConcatASeq DEF Shapes, Coming

\* Appended to both.
LEMMA NothingAsked ==
    ASSUME NEW s, NEW u, ASeq(s), ASeq(u), NEW type, Without(s, type), Without(u, type)
    PROVE  ASeq(s \o u) /\ Without(s \o u, type)
<1>0. PICK i, j : i = Len(s) /\ j = Len(u) /\ i \in Nat /\ j \in Nat
    BY DEF ASeq
<1> DEFINE w == s \o u
<1>1. /\ ASeq(w) /\ Len(w) = i + j
      /\ \A k \in 1..i : w[k] = s[k]
      /\ \A k \in 1..j : w[i + k] = u[k]
    BY <1>0, ConcatASeq
<1>2. \A k \in (i + 1)..(i + j) : w[k] = u[k - i] /\ k - i \in 1..j
    BY <1>0, <1>1
<1> HIDE DEF w
<1>3. \A k \in 1..(i + j) : k \in 1..i \/ k \in (i + 1)..(i + j)
    BY <1>0
<1>4. Without(w, type)
    BY <1>0, <1>1, <1>2, <1>3 DEF Without
<1> QED
    BY <1>1, <1>4 DEF w

------------------------------------------------------------------------------
\* Every step keeps the invariant.
LEMMA Initial == Init => IInv
<1> SUFFICES ASSUME Init PROVE IInv
    OBVIOUS
<1>1. Shapes
    BY EmptyASeq DEF Init, Shapes
<1>2. QueuesRespond
    BY EmptyASeq DEF Init, QueuesRespond, Without
<1>3. ASSUME NEW e \in Endpoints
      PROVE  Travel(Peer(e), pongs[e], Coming(e), manual_response_queue[Peer(e)],
                    Coming(Peer(e)), pings[e])
    <2>1. /\ pongs[e] = << >> /\ manual_response_queue[Peer(e)] = << >> /\ pings[e] = 0
          /\ in_buffer[e] = << >> /\ transport[e] = << >>
          /\ in_buffer[Peer(e)] = << >> /\ transport[Peer(e)] = << >>
        BY TwoEndpoints DEF Init
    <2>2. << >> \o << >> = << >>
        OBVIOUS
    <2>3. Coming(e) = << >> /\ Coming(Peer(e)) = << >>
        BY <2>1, <2>2 DEF Coming
    <2>4. Len(<< >>) = 0 /\ Without(<< >>, "PingRequest") /\ Without(<< >>, "PingResponse")
        BY EmptyASeq DEF Without
    <2>5. InTurn(<< >>, "PingResponse", 0, 0) /\ InTurn(<< >>, "PingRequest", 0, 0)
        BY <2>4, NoneInTurn
    <2>6. << >> = [k \in 1..0 |-> k]
        OBVIOUS
    <2>7. Way(<< >>, << >>, << >>, << >>, 0)
        BY <2>4, <2>5, <2>6 DEF Way
    <2>8. Places(<< >>, << >>, << >>, << >>, 0)
        <3>1. /\ Numbers(<< >>, "PingRequest") = {} /\ NoneTwice(<< >>, "PingRequest")
              /\ Numbers(<< >>, "PingResponse") = {} /\ NoneTwice(<< >>, "PingResponse")
            BY <2>4, NumbersOfNone
        <3>2. \A k \in 1..Len(<< >>) : FALSE
            BY <2>4
        <3>3. {<< >>[k] : k \in 1..Len(<< >>)} = {}
            BY <3>2
        <3>4. Parts(1..0, {}, {}, {}, {})
            BY DEF Parts
        <3> QED
            BY <3>1, <3>2, <3>3, <3>4 DEF Places
    <2>9. Travel(Peer(e), << >>, << >>, << >>, << >>, 0)
        BY <2>7, <2>8 DEF Travel
    <2> QED
        BY <2>1, <2>3, <2>9
<1> QED
    BY <1>1, <1>2, <1>3, InOrderUnfolded DEF IInv

LEMMA ReadKeeps ==
    ASSUME IInv, NEW e \in Endpoints, NEW n \in 1..Len(transport[e]), Read(e, n)
    PROVE  IInv'
<1> USE DEF IInv
<1>1. /\ in_buffer' = [in_buffer EXCEPT ![e] = SubSeq(transport[e], 1, n)]
      /\ transport' = [transport EXCEPT ![e] = SubSeq(@, n + 1, Len(@))]
      /\ in_buffer[e] = << >>
      /\ UNCHANGED <<auto_response_when_recv, impatient, manual_response_queue, pings, pongs>>
    BY DEF Read, userVars
<1>2. /\ in_buffer'[e] = SubSeq(transport[e], 1, n)
      /\ transport'[e] = SubSeq(transport[e], n + 1, Len(transport[e]))
      /\ \A x \in Endpoints : x # e => in_buffer'[x] = in_buffer[x] /\ transport'[x] = transport[x]
      /\ in_buffer' = [x \in Endpoints |-> in_buffer'[x]]
      /\ transport' = [x \in Endpoints |-> transport'[x]]
    BY <1>1 DEF Shapes
<1>3. /\ ASeq(in_buffer'[e]) /\ ASeq(transport'[e])
      /\ in_buffer'[e] \o transport'[e] = in_buffer[e] \o transport[e]
    <2>1. PICK t : t = transport[e] /\ ASeq(t) /\ n \in 1..Len(t)
        BY DEF Shapes
    <2>2. /\ ASeq(SubSeq(t, 1, n)) /\ ASeq(SubSeq(t, n + 1, Len(t)))
          /\ SubSeq(t, 1, n) \o SubSeq(t, n + 1, Len(t)) = << >> \o t
        BY <2>1, MovedOver
    <2> QED
        BY <1>1, <1>2, <2>1, <2>2
<1>4. Shapes'
    BY <1>1, <1>2, <1>3 DEF Shapes
<1>5. \A x \in Endpoints : Coming(x)' = Coming(x)
    BY <1>2, <1>3 DEF Coming
<1>6. QueuesRespond'
    BY <1>1 DEF QueuesRespond
<1>7. (PingsAnsweredInOrder /\ PingsAnsweredOnce)'
    BY <1>1, <1>5, TwoEndpoints, InOrderUnfolded, InOrderUnfoldedNext
<1> QED
    BY <1>4, <1>6, <1>7

\* What goes out behind what is on its way already.
LEMMA SentBehind ==
    ASSUME Shapes, NEW e \in Endpoints, NEW x, ASeq(x), transport'[e] = transport[e] \o x,
           in_buffer'[e] = in_buffer[e]
    PROVE  Coming(e)' = Coming(e) \o x /\ ASeq(transport'[e])
<1>1. PICK b, t : b = in_buffer[e] /\ t = transport[e]
    OBVIOUS
<1>2. ASeq(b) /\ ASeq(t)
    BY <1>1 DEF Shapes
<1>3. b \o (t \o x) = (b \o t) \o x
    BY <1>2, Associative
<1>4. ASeq(t \o x)
    BY <1>2, ConcatASeq
<1>5. Coming(e) = b \o t /\ Coming(e)' = b \o (t \o x)
    BY <1>1 DEF Coming
<1> QED
    BY <1>1, <1>3, <1>4, <1>5

LEMMA SendKeeps ==
    ASSUME IInv, NEW e \in Endpoints, NEW m \in UserMessages(e), Send(e, m)
    PROVE  IInv'
<1> USE DEF IInv
<1>1. PICK q : q = manual_response_queue[e] /\ ASeq(q) /\ Without(q, "PingRequest")
    BY DEF Shapes, QueuesRespond
<1>2. ASeq(<<m>>) /\ Len(<<m>>) = 1 /\ <<m>>[1] = m
    BY SingleASeq
<1>3. PICK p : p = Peer(e) /\ p \in Endpoints /\ p # e /\ Peer(p) = e
               /\ \A x \in Endpoints : x = e \/ x = p
    BY TwoEndpoints
<1>4. /\ transport' = [transport EXCEPT ![p] = (@ \o <<m>>) \o q]
      /\ manual_response_queue' = [manual_response_queue EXCEPT ![e] = << >>]
      /\ pings' = [pings EXCEPT ![e] = IF m.type = "PingRequest" THEN @ + 1 ELSE @]
      /\ UNCHANGED <<auto_response_when_recv, impatient, in_buffer, pongs>>
    BY <1>1, <1>3 DEF Send, Flushed, userVars
<1>5. /\ transport'[p] = transport[p] \o (<<m>> \o q) /\ transport'[e] = transport[e]
      /\ transport' = [x \in Endpoints |-> transport'[x]]
    <2>1. transport[p] \o (<<m>> \o q) = (transport[p] \o <<m>>) \o q
        <3>1. PICK one, t : one = <<m>> /\ t = transport[p]
            OBVIOUS
        <3>2. ASeq(t)
            BY <1>3, <3>1 DEF Shapes
        <3>3. ASeq(one)
            BY <1>2, <3>1
        <3>4. ASeq(q)
            BY <1>1
        <3>5. t \o (one \o q) = (t \o one) \o q
            BY <3>2, <3>3, <3>4, Associative
        <3> QED
            BY <3>1, <3>5
    <2>2. transport = [x \in Endpoints |-> transport[x]]
        BY DEF Shapes
    <2> QED
        BY <1>3, <1>4, <2>1, <2>2
<1>6. /\ manual_response_queue'[e] = << >>
      /\ manual_response_queue'[p] = manual_response_queue[p]
      /\ manual_response_queue' = [x \in Endpoints |-> manual_response_queue'[x]]
    BY <1>3, <1>4 DEF Shapes
<1>7. /\ pings'[e] = (IF m.type = "PingRequest" THEN pings[e] + 1 ELSE pings[e])
      /\ pings'[p] = pings[p]
      /\ pings' = [x \in Endpoints |-> pings'[x]]
    BY <1>3, <1>4 DEF Shapes
<1>8. ASeq(<<m>> \o q)
    BY <1>1, <1>2, ConcatASeq
<1>9. /\ Coming(p)' = Coming(p) \o (<<m>> \o q) /\ ASeq(transport'[p])
      /\ Coming(e)' = Coming(e)
    BY <1>3, <1>4, <1>5, <1>8, SentBehind DEF Coming
<1>10. Shapes'
    BY <1>3, <1>4, <1>5, <1>6, <1>7, <1>9, EmptyASeq DEF Shapes
<1>11. QueuesRespond'
    BY <1>3, <1>4, <1>6, EmptyASeq DEF QueuesRespond, Without
<1>12. /\ m.type # "PingResponse"
       /\ m.type = "PingRequest" => m.value = pings[e] + 1
    BY DEF UserMessages, Message
<1>13. /\ Travel(p, pongs[e], Coming(e), manual_response_queue[p], Coming(p), pings[e])
       /\ Travel(e, pongs[p], Coming(p), q, Coming(e), pings[p])
    BY <1>1, <1>3, InOrderUnfolded
<1>14. pings[e] \in Nat /\ pings[p] \in Nat /\ ASeq(Coming(e)) /\ ASeq(Coming(p)) /\ ASeq(pongs[p])
    BY <1>3, ComingASeq DEF Shapes
<1>15. InTurn(<<m>> \o q, "PingRequest", pings[e], pings'[e])
    <2>1. InTurn(q, "PingRequest", pings'[e], pings'[e])
        BY <1>1, <1>7, <1>14, NoneInTurn
    <2>2. InTurn(<<m>>, "PingRequest", pings[e], pings'[e])
        <3>1. CASE m.type = "PingRequest"
            <4>1. InTurn(<<m>>, m.type, pings[e], pings[e] + 1)
                BY <1>12, <1>14, <3>1, OneInTurn
            <4> QED
                BY <1>7, <3>1, <4>1
        <3>2. CASE m.type # "PingRequest"
            <4>1. Without(<<m>>, "PingRequest")
                BY <1>2, <3>2 DEF Without
            <4> QED
                BY <1>7, <1>14, <3>2, <4>1, NoneInTurn
        <3> QED
            BY <3>1, <3>2
    <2> QED
        BY <1>1, <1>2, <1>7, <1>14, <2>1, <2>2, Joined
<1>16. Travel(p, pongs'[e], Coming(e)', manual_response_queue'[p], Coming(p)', pings'[e])
    <2>1. pings'[e] \in Nat
        BY <1>7, <1>14
    <2>2. Travel(p, pongs[e], Coming(e), manual_response_queue[p], Coming(p) \o (<<m>> \o q), pings'[e])
        BY <1>8, <1>13, <1>14, <1>15, <2>1, TravelAsked
    <2> QED
        BY <1>4, <1>6, <1>9, <2>2
<1>17. Travel(e, pongs'[p], Coming(p)', manual_response_queue'[e], Coming(e)', pings'[p])
    <2>1. Travel(e, pongs[p], Coming(p) \o (<<m>> \o q), << >>, Coming(e), pings[p])
        BY <1>1, <1>12, <1>13, <1>14, TravelFlushed
    <2> QED
        BY <1>4, <1>6, <1>7, <1>9, <2>1
<1>18. (PingsAnsweredInOrder /\ PingsAnsweredOnce)'
    BY <1>3, <1>4, <1>16, <1>17, InOrderUnfoldedNext
<1> QED
    BY <1>10, <1>11, <1>18

\* on_recv_message() answers a ping with its own number, and asks nothing.
LEMMA ResponsesAnswer ==
    ASSUME NEW e \in Endpoints, NEW m
    PROVE  Answers(Responses(e, m), m)
<1> DEFINE first == IF NeedsAcknowledgement(e) THEN <<Acknowledgement(e)>> ELSE << >>
           second == IF m.type = "PingRequest"
                     THEN <<Message("PingResponse", ControlSize, m.value)>> ELSE << >>
<1>1. /\ ASeq(first)
      /\ Without(first, "PingRequest") /\ Without(first, "PingResponse")
    <2>1. CASE NeedsAcknowledgement(e)
        <3>1. first = <<Acknowledgement(e)>> /\ Acknowledgement(e).type = "Acknowledgement"
            BY <2>1 DEF Acknowledgement
        <3> HIDE DEF first
        <3>2. ASeq(first) /\ Len(first) = 1 /\ first[1].type = "Acknowledgement"
            BY <3>1, SingleASeq
        <3> QED
            BY <3>2 DEF Without
    <2>2. CASE ~NeedsAcknowledgement(e)
        BY <2>2, EmptyASeq DEF Without
    <2> QED
        BY <2>1, <2>2
<1>2. /\ ASeq(second) /\ Without(second, "PingRequest")
      /\ m.type = "PingRequest" /\ m.value \in Nat
            => InTurn(second, "PingResponse", m.value - 1, m.value)
      /\ m.type # "PingRequest" => Without(second, "PingResponse")
    <2>1. CASE m.type = "PingRequest"
        <3>1. PICK a : a = Message("PingResponse", ControlSize, m.value)
            OBVIOUS
        <3>2. a.type = "PingResponse" /\ a.value = m.value /\ second = <<a>>
            BY <2>1, <3>1 DEF Message
        <3> HIDE DEF second
        <3>3. ASeq(second) /\ Len(second) = 1 /\ second[1] = a
            BY <3>2, SingleASeq
        <3>4. ASSUME m.value \in Nat
              PROVE  InTurn(second, "PingResponse", m.value - 1, m.value)
            <4>1. PICK n : n = m.value - 1 /\ n \in Int /\ n + 1 = m.value
                BY <3>4
            <4>2. InTurn(<<a>>, a.type, n, n + 1)
                BY <3>2, <4>1, OneInTurn
            <4> QED
                BY <3>2, <4>1, <4>2
        <3> QED
            BY <2>1, <3>2, <3>3, <3>4 DEF Without
    <2>2. CASE m.type # "PingRequest"
        BY <2>2, EmptyASeq DEF Without
    <2> QED
        BY <2>1, <2>2
<1>3. Responses(e, m) = first \o second
    BY DEF Responses
<1> HIDE DEF first, second
<1>4. ASeq(first \o second) /\ Without(first \o second, "PingRequest")
    BY <1>1, <1>2, NothingAsked
<1>5. ASSUME m.type = "PingRequest", m.value \in Nat
      PROVE  InTurn(first \o second, "PingResponse", m.value - 1, m.value)
    <2>1. PICK n : n = m.value - 1 /\ n \in Int /\ m.value \in Int
        BY <1>5
    <2>2. InTurn(first, "PingResponse", n, n)
        BY <1>1, <2>1, NoneInTurn
    <2>3. InTurn(second, "PingResponse", n, m.value)
        BY <1>2, <1>5, <2>1
    <2> QED
        BY <1>1, <1>2, <2>1, <2>2, <2>3, Joined
<1>6. m.type # "PingRequest" => Without(first \o second, "PingResponse")
    BY <1>1, <1>2, NothingAsked
<1> QED
    BY <1>3, <1>4, <1>5, <1>6 DEF Answers

LEMMA ReceiveKeeps ==
    ASSUME IInv, NEW e \in Endpoints, Receive(e)
    PROVE  IInv'
<1> USE DEF IInv
<1>1. PICK p : p = Peer(e) /\ p \in Endpoints /\ p # e /\ Peer(p) = e
               /\ \A x \in Endpoints : x = e \/ x = p
    BY TwoEndpoints
<1>2. PICK m : m = Head(in_buffer[e])
    OBVIOUS
<1>3. PICK x : x = Responses(e, m) /\ Answers(x, m)
    BY ResponsesAnswer
<1>4. /\ in_buffer[e] # << >>
      /\ in_buffer' = [in_buffer EXCEPT ![e] = Tail(@)]
      /\ pongs' = [pongs EXCEPT ![e] = IF m.type = "PingResponse"
                                       THEN Append(@, m.value) ELSE @]
      /\ UNCHANGED <<auto_response_when_recv, impatient, pings>>
      /\ IF ~auto_response_when_recv[e]
         THEN /\ manual_response_queue' = [manual_response_queue EXCEPT ![e] = @ \o x]
              /\ transport' = transport
         ELSE /\ transport' = [transport EXCEPT ![p] = @ \o x]
              /\ manual_response_queue' = manual_response_queue
    BY <1>1, <1>2, <1>3 DEF Receive, Queued, userVars
<1>5. /\ ASeq(in_buffer[e]) /\ ASeq(transport[e]) /\ ASeq(transport[p])
      /\ ASeq(manual_response_queue[e]) /\ ASeq(pongs[e]) /\ ASeq(pongs[p])
      /\ ASeq(Coming(e)) /\ ASeq(Coming(p)) /\ ASeq(x)
      /\ pings[e] \in Nat /\ pings[p] \in Nat
    BY <1>1, <1>3, ComingASeq DEF Shapes, Answers
<1>6. /\ in_buffer'[e] = Tail(in_buffer[e]) /\ in_buffer'[p] = in_buffer[p]
      /\ in_buffer' = [d \in Endpoints |-> in_buffer'[d]]
      /\ ASeq(in_buffer'[e])
    BY <1>1, <1>4, <1>5, TailASeq DEF Shapes
<1>7. /\ pongs'[e] = (IF m.type = "PingResponse" THEN Append(pongs[e], m.value) ELSE pongs[e])
      /\ pongs'[p] = pongs[p]
      /\ pongs' = [d \in Endpoints |-> pongs'[d]]
      /\ ASeq(pongs'[e])
    BY <1>1, <1>4, <1>5, AppendASeq DEF Shapes
<1>8. transport'[e] = transport[e]
    BY <1>1, <1>4 DEF Shapes
<1>9. /\ Coming(e) # << >> /\ Coming(e)[1] = m
      /\ Coming(e)' = Tail(Coming(e))
    <2>1. PICK b, t : b = in_buffer[e] /\ t = transport[e]
        OBVIOUS
    <2>2. /\ b \o t # << >> /\ (b \o t)[1] = Head(b)
          /\ Tail(b) \o t = Tail(b \o t)
        BY <1>4, <1>5, <2>1, FirstTaken
    <2>3. Coming(e) = b \o t /\ Coming(e)' = Tail(b) \o t
        BY <1>6, <1>8, <2>1 DEF Coming
    <2> QED
        BY <1>2, <2>1, <2>2, <2>3
<1>10. /\ Travel(p, pongs[e], Coming(e), manual_response_queue[p], Coming(p), pings[e])
       /\ Travel(e, pongs[p], Coming(p), manual_response_queue[e], Coming(e), pings[p])
    BY <1>1, InOrderUnfolded
<1>11. Without(x, "PingRequest")
    BY <1>3 DEF Answers
<1>12. CASE ~auto_response_when_recv[e]
    <2>1. /\ manual_response_queue'[e] = manual_response_queue[e] \o x
          /\ manual_response_queue'[p] = manual_response_queue[p]
          /\ manual_response_queue' = [d \in Endpoints |-> manual_response_queue'[d]]
          /\ transport' = transport
        BY <1>1, <1>4, <1>12 DEF Shapes
    <2>2. ASeq(manual_response_queue'[e]) /\ Without(manual_response_queue'[e], "PingRequest")
        BY <1>5, <1>11, <2>1, NothingAsked DEF QueuesRespond
    <2>3. Shapes'
        BY <1>1, <1>4, <1>6, <1>7, <2>1, <2>2 DEF Shapes
    <2>4. QueuesRespond'
        BY <1>1, <1>4, <1>12, <2>1, <2>2 DEF QueuesRespond
    <2>5. Coming(p)' = Coming(p)
        BY <1>6, <2>1 DEF Coming
    <2>6. Travel(p, pongs'[e], Coming(e)', manual_response_queue'[p], Coming(p)', pings'[e])
        <3>1. InTurn(<< >>, "PingRequest", pings[e], pings[e]) /\ ASeq(<< >>)
            BY <1>5, EmptyASeq, NoneInTurn DEF Without
        <3>2. Coming(p) \o << >> = Coming(p)
            BY <1>5, NothingBehind
        <3>3. Travel(p, pongs'[e], Tail(Coming(e)), manual_response_queue[p], Coming(p) \o << >>,
                  pings[e])
            <4>1. Without(<< >>, "PingRequest")
                BY EmptyASeq DEF Without
            <4> QED
                BY <1>5, <1>7, <1>9, <1>10, <3>1, <4>1, TravelAnswerRead
        <3> QED
            BY <1>4, <1>9, <2>1, <2>5, <3>2, <3>3
    <2>7. Travel(e, pongs'[p], Coming(p)', manual_response_queue'[e], Coming(e)', pings'[p])
        <3>1. Travel(e, pongs[p], Coming(p), manual_response_queue[e] \o x, Tail(Coming(e)), pings[p])
            BY <1>3, <1>5, <1>9, <1>10, TravelPingRead
        <3> QED
            BY <1>4, <1>7, <1>9, <2>1, <2>5, <3>1
    <2>8. (PingsAnsweredInOrder /\ PingsAnsweredOnce)'
        BY <1>1, <1>4, <2>6, <2>7, InOrderUnfoldedNext
    <2> QED
        BY <2>3, <2>4, <2>8
<1>13. CASE auto_response_when_recv[e]
    <2>1. /\ transport'[p] = transport[p] \o x
          /\ transport' = [d \in Endpoints |-> transport'[d]]
          /\ manual_response_queue' = manual_response_queue
        BY <1>1, <1>4, <1>13 DEF Shapes
    <2>2. Coming(p)' = Coming(p) \o x /\ ASeq(transport'[p])
        BY <1>1, <1>5, <1>6, <2>1, SentBehind
    <2>3. Shapes'
        BY <1>1, <1>4, <1>5, <1>6, <1>7, <1>8, <2>1, <2>2 DEF Shapes
    <2>4. QueuesRespond' /\ (e \notin impatient => manual_response_queue[e] = << >>)
        BY <1>4, <1>13, <2>1 DEF QueuesRespond
    <2>5. Travel(p, pongs'[e], Coming(e)', manual_response_queue'[p], Coming(p)', pings'[e])
        <3>1. Travel(p, pongs'[e], Tail(Coming(e)), manual_response_queue[p], Coming(p) \o x, pings[e])
            BY <1>5, <1>7, <1>9, <1>10, <1>11, TravelAnswerRead
        <3> QED
            BY <1>4, <1>9, <2>1, <2>2, <3>1
    <2>6. Travel(e, pongs'[p], Coming(p)', manual_response_queue'[e], Coming(e)', pings'[p])
        <3>1. Travel(e, pongs[p], Coming(p) \o x, manual_response_queue[e], Tail(Coming(e)), pings[p])
            BY <1>3, <1>5, <1>9, <1>10, <2>4, TravelPingRead
        <3> QED
            BY <1>4, <1>7, <1>9, <2>1, <2>2, <3>1
    <2>7. (PingsAnsweredInOrder /\ PingsAnsweredOnce)'
        BY <1>1, <1>4, <2>5, <2>6, InOrderUnfoldedNext
    <2> QED
        BY <2>3, <2>4, <2>7
<1> QED
    BY <1>12, <1>13

\* An endpoint that begins to answer at once with answers queued is impatient from then on.
LEMMA SetAutoResponseKeeps ==
    ASSUME IInv, NEW e \in Endpoints, NEW v \in BOOLEAN, SetAutoResponse(e, v)
    PROVE  IInv'
<1> USE DEF IInv
<1>1. /\ auto_response_when_recv' = [auto_response_when_recv EXCEPT ![e] = v]
      /\ impatient \subseteq impatient'
      /\ v /\ manual_response_queue[e] # << >> => e \in impatient'
      /\ UNCHANGED <<in_buffer, transport, manual_response_queue, pings, pongs>>
    BY DEF SetAutoResponse
<1>2. /\ auto_response_when_recv' = [x \in Endpoints |-> auto_response_when_recv'[x]]
      /\ auto_response_when_recv'[e] = v
      /\ \A x \in Endpoints : x # e => auto_response_when_recv'[x] = auto_response_when_recv[x]
    BY <1>1 DEF Shapes
<1>3. Shapes'
    BY <1>1, <1>2 DEF Shapes
<1>4. QueuesRespond'
    <2> SUFFICES ASSUME NEW x \in Endpoints
                 PROVE  /\ Without(manual_response_queue[x], "PingRequest")
                        /\ auto_response_when_recv'[x] /\ x \notin impatient'
                              => manual_response_queue[x] = << >>
        BY <1>1 DEF QueuesRespond
    <2>1. CASE x = e
        BY <1>1, <1>2, <2>1 DEF QueuesRespond
    <2>2. CASE x # e
        BY <1>1, <1>2, <2>2 DEF QueuesRespond
    <2> QED
        BY <2>1, <2>2
<1>5. \A x \in Endpoints : Coming(x)' = Coming(x)
    BY <1>1 DEF Coming
<1>6. PingsAnsweredOnce'
    <2>1. \A x \in Endpoints :
              Places(pongs[x], Coming(x), manual_response_queue[Peer(x)], Coming(Peer(x)),
                     pings[x])
        BY DEF PingsAnsweredOnce, Places
    <2>2. PingsAnsweredOnce' <=>
            \A x \in Endpoints :
                Places(pongs'[x], Coming(x)', manual_response_queue'[Peer(x)],
                       Coming(Peer(x))', pings'[x])
        BY DEF PingsAnsweredOnce, Places
    <2> QED
        BY <1>1, <1>5, <2>1, <2>2, TwoEndpoints
<1>7. PingsAnsweredInOrder'
    BY <1>1, <1>5, TwoEndpoints DEF PingsAnsweredInOrder
<1> QED
    BY <1>3, <1>4, <1>6, <1>7

LEMMA Inductive == IInv /\ [Next]_vars => IInv'
<1> SUFFICES ASSUME IInv, [Next]_vars PROVE IInv'
    OBVIOUS
<1>1. ASSUME NEW e \in Endpoints, NEW m \in UserMessages(e), Send(e, m)
      PROVE  IInv'
    BY <1>1, SendKeeps
<1>2. ASSUME NEW e \in Endpoints, NEW n \in 1..Len(transport[e]), Read(e, n)
      PROVE  IInv'
    BY <1>2, ReadKeeps
<1>3. ASSUME NEW e \in Endpoints, Receive(e)
      PROVE  IInv'
    BY <1>3, ReceiveKeeps
<1>4. ASSUME NEW e \in Endpoints, NEW v \in BOOLEAN, SetAutoResponse(e, v)
      PROVE  IInv'
    BY <1>4, SetAutoResponseKeeps
<1>5. CASE UNCHANGED vars
    <2>1. Shapes' /\ QueuesRespond'
        BY <1>5 DEF IInv, Shapes, QueuesRespond, vars, userVars
    <2>2. \A e \in Endpoints : Coming(e)' = Coming(e)
        BY <1>5 DEF Coming, vars
    <2>3. (PingsAnsweredInOrder /\ PingsAnsweredOnce)'
        BY <1>5, <2>2, TwoEndpoints, InOrderUnfolded, InOrderUnfoldedNext DEF IInv, vars, userVars
    <2> QED
        BY <2>1, <2>3 DEF IInv
<1> QED
    BY <1>1, <1>2, <1>3, <1>4, <1>5 DEF Next

\* Every ping gets one answer, with its own data, whatever windows are announced and sizes
\* messages have, and whenever the users turn the automatic response off and on.
THEOREM PingsOnce == Spec => []PingsAnsweredOnce
<1>1. IInv => PingsAnsweredOnce
    BY DEF IInv
<1> QED
    BY <1>1, Initial, Inductive, PTL DEF Spec

\* And in its turn, at once or behind a flush, unless the peer ever turned the automatic
\* response on with answers in the queue, which its next answer then overtakes.
THEOREM PingsInOrder == Spec => []PingsAnsweredInOrder
<1>1. IInv => PingsAnsweredInOrder
    BY DEF IInv
<1> QED
    BY <1>1, Initial, Inductive, PTL DEF Spec
==============================================================================
