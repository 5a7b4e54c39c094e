-------------------------- MODULE PacketReader_proofs --------------------------
(***************************************************************************)
(* srs_rtmp_read_packet() loses, repeats and reorders nothing, for any     *)
(* messages, aggregates of any length, and however they are broken.        *)
(***************************************************************************)
EXTENDS PacketReader, ASequence, SequenceTheorems, TLAPS

------------------------------------------------------------------------------
(***************************************************************************)
(* Sequences of any elements.                                              *)
(***************************************************************************)
\* A sequence is one over its own elements, and over whatever contains them.
LEMMA OverItsElements ==
    ASSUME NEW s, ASeq(s), NEW S, Elements(s) \subseteq S
    PROVE  s \in Seq(S)
<1>1. \A k \in 1..Len(s) : s[k] \in S
  BY DEF Elements
<1>2. QED  BY <1>1 DEF ASeq

LEMMA SeqIsASeq ==
    ASSUME NEW S, NEW s \in Seq(S)
    PROVE  ASeq(s)
BY DEF ASeq

LEMMA EmptyASeq == ASeq(<< >>) /\ Len(<< >>) = 0
BY DEF ASeq

\* A function on 1..n is a sequence of length n.
LEMMA FunctionIsASeq ==
    ASSUME NEW s, NEW n \in Nat, DOMAIN s = 1..n, s = [k \in DOMAIN s |-> s[k]]
    PROVE  ASeq(s) /\ Len(s) = n
<1> DEFINE S == {s[k] : k \in 1..n}
<1>1. \A k \in 1..n : s[k] \in S
  OBVIOUS
<1>2. s \in [1..n -> S]
  <2> HIDE DEF S
  <2> QED  BY <1>1
<1>3. s \in Seq(S) /\ Len(s) = n
  <2> HIDE DEF S
  <2> QED  BY <1>2
<1>4. QED  BY <1>3, SeqIsASeq

LEMMA TailASeq ==
    ASSUME NEW s, ASeq(s), s # << >>
    PROVE  /\ ASeq(Tail(s)) /\ Head(s) = s[1]
           /\ Len(s) >= 1 /\ Len(Tail(s)) = Len(s) - 1
           /\ \A k \in 1..(Len(s) - 1) : Tail(s)[k] = s[k + 1]
<1> DEFINE S == Elements(s)
<1>1. s \in Seq(S)
  <2> HIDE DEF S
  <2> QED  BY OverItsElements DEF S
<1> HIDE DEF S
<1>2. Tail(s) \in Seq(S) /\ Len(Tail(s)) = Len(s) - 1 /\ Len(s) >= 1
  BY <1>1
<1>3. ASeq(Tail(s))
  BY <1>2, SeqIsASeq
<1>4. QED  BY <1>1, <1>2, <1>3

LEMMA AppendASeq ==
    ASSUME NEW s, ASeq(s), NEW e
    PROVE  /\ ASeq(Append(s, e))
           /\ Len(Append(s, e)) = Len(s) + 1
           /\ \A k \in 1..Len(s) : Append(s, e)[k] = s[k]
           /\ Append(s, e)[Len(s) + 1] = e
<1> DEFINE S == Elements(s) \cup {e}
<1>1. s \in Seq(S) /\ e \in S
  <2>1. Elements(s) \subseteq S /\ e \in S
    OBVIOUS
  <2> HIDE DEF S
  <2>2. QED  BY <2>1, OverItsElements
<1> HIDE DEF S
<1>2. Append(s, e) \in Seq(S)
  BY <1>1
<1>3. ASeq(Append(s, e))
  BY <1>2, SeqIsASeq
<1>4. QED  BY <1>1, <1>3

------------------------------------------------------------------------------
\* An aggregate has pieces, which are numbered.
Whole(m) ==
    m.type = "Aggregate" =>
        /\ ASeq(m.pieces) /\ Len(m.pieces) >= 1
        /\ \A k \in 1..Len(m.pieces) : "id" \in DOMAIN m.pieces[k]

Shapes ==
    /\ ASeq(incoming) /\ ASeq(msgs) /\ ASeq(returned) /\ arrived \in Nat
    /\ \A k \in 1..Len(incoming) : Whole(incoming[k])

IInv == Shapes /\ PacketsInOrder

\* Where the numbers of the k-th message that is to be received begin, behind the n
\* packets returned and cached.
Before(in, n, k) == IF k = 1 THEN n ELSE LastOf(in[k - 1])

InOrder(in, n, last) ==
    /\ \A k \in 1..Len(in) : Following(Waiting(in[k]), Before(in, n, k))
    /\ Before(in, n, Len(in) + 1) = last

LEMMA InOrderUnfolded ==
    PacketsInOrder <=>
        /\ Following(returned, 0) /\ Following(msgs, Len(returned))
        /\ InOrder(incoming, Len(returned) + Len(msgs), arrived)
BY DEF PacketsInOrder, InOrder, Before

LEMMA InOrderUnfoldedNext ==
    PacketsInOrder' <=>
        /\ Following(returned', 0) /\ Following(msgs', Len(returned'))
        /\ InOrder(incoming', Len(returned') + Len(msgs'), arrived')
BY DEF PacketsInOrder, InOrder, Before

LEMMA WaitingIsASeq ==
    ASSUME NEW m, Whole(m)
    PROVE  ASeq(Waiting(m)) /\ Len(Waiting(m)) >= 1
<1>1. CASE m.type = "Aggregate"
  BY <1>1 DEF Waiting, Whole
<1>2. CASE m.type # "Aggregate"
  <2>1. Waiting(m) = <<m>>
    BY <1>2 DEF Waiting
  <2>2. <<m>> \in Seq({m})
    OBVIOUS
  <2>3. ASeq(<<m>>)
    BY <2>2, SeqIsASeq
  <2>4. Len(<<m>>) >= 1
    OBVIOUS
  <2>5. QED  BY <2>1, <2>3, <2>4
<1>3. QED  BY <1>1, <1>2

\* A message that is numbered on from the last one goes behind the others.
LEMMA InOrderAppend ==
    ASSUME NEW in, ASeq(in), NEW n, NEW last \in Nat, InOrder(in, n, last),
           NEW m, Whole(m), Following(Waiting(m), last)
    PROVE  InOrder(Append(in, m), n, last + Len(Waiting(m)))
<1> DEFINE in2 == Append(in, m)
<1>1. /\ Len(in2) = Len(in) + 1 /\ Len(in) \in Nat
      /\ \A k \in 1..Len(in) : in2[k] = in[k]
      /\ in2[Len(in) + 1] = m
  BY AppendASeq DEF ASeq
<1> HIDE DEF in2
<1>2. \A k \in 1..(Len(in) + 1) : Before(in2, n, k) = Before(in, n, k)
  <2> SUFFICES ASSUME NEW k \in 1..(Len(in) + 1) PROVE Before(in2, n, k) = Before(in, n, k)
    OBVIOUS
  <2>1. CASE k = 1
    BY <2>1 DEF Before
  <2>2. CASE k # 1
    <3>1. k - 1 \in 1..Len(in)
      BY <1>1, <2>2
    <3>2. QED  BY <1>1, <2>2, <3>1 DEF Before
  <2>3. QED  BY <2>1, <2>2
<1>3. \A k \in 1..Len(in2) : Following(Waiting(in2[k]), Before(in2, n, k))
  <2> SUFFICES ASSUME NEW k \in 1..Len(in2)
               PROVE  Following(Waiting(in2[k]), Before(in2, n, k))
    OBVIOUS
  <2>1. CASE k = Len(in) + 1
    <3>1. Before(in2, n, k) = last
      BY <1>1, <1>2, <2>1 DEF InOrder
    <3>2. QED  BY <1>1, <2>1, <3>1
  <2>2. CASE k # Len(in) + 1
    <3>1. k \in 1..Len(in)
      BY <1>1, <2>2
    <3>2. QED  BY <1>1, <1>2, <3>1 DEF InOrder
  <2>3. QED  BY <2>1, <2>2
<1>4. Before(in2, n, Len(in2) + 1) = last + Len(Waiting(m))
  <2>1. Before(in2, n, Len(in2) + 1) = LastOf(m)
    <3>1. Len(in2) + 1 # 1 /\ (Len(in2) + 1) - 1 = Len(in) + 1
      BY <1>1
    <3>2. QED  BY <1>1, <3>1 DEF Before
  <2>2. Len(Waiting(m)) \in 1..Len(Waiting(m))
    BY WaitingIsASeq DEF ASeq
  <2>3. LastOf(m) = last + Len(Waiting(m))
    BY <2>2 DEF LastOf, Following
  <2>4. QED  BY <2>1, <2>3
<1>5. QED  BY <1>3, <1>4 DEF InOrder, in2

\* The first message goes to what was read.
LEMMA InOrderTail ==
    ASSUME NEW in, ASeq(in), in # << >>, NEW n \in Nat, NEW last, InOrder(in, n, last),
           Whole(Head(in))
    PROVE  /\ Following(Waiting(Head(in)), n)
           /\ InOrder(Tail(in), n + Len(Waiting(Head(in))), last)
<1> DEFINE in2 == Tail(in)
           n2 == n + Len(Waiting(Head(in)))
<1>1. /\ Head(in) = in[1] /\ Len(in) \in Nat /\ Len(in) >= 1 /\ Len(in2) = Len(in) - 1
      /\ \A k \in 1..(Len(in) - 1) : in2[k] = in[k + 1]
  BY TailASeq DEF ASeq
<1> HIDE DEF in2
<1>2. Following(Waiting(Head(in)), n)
  <2>1. Before(in, n, 1) = n
    BY DEF Before
  <2>2. QED  BY <1>1, <2>1 DEF InOrder
<1>3. LastOf(Head(in)) = n2
  <2>1. Len(Waiting(Head(in))) \in 1..Len(Waiting(Head(in)))
    BY WaitingIsASeq DEF ASeq
  <2>2. QED  BY <1>2, <2>1 DEF LastOf, Following
<1> HIDE DEF n2
<1>4. \A k \in 1..(Len(in2) + 1) : Before(in2, n2, k) = Before(in, n, k + 1)
  <2> SUFFICES ASSUME NEW k \in 1..(Len(in2) + 1)
               PROVE  Before(in2, n2, k) = Before(in, n, k + 1)
    OBVIOUS
  <2>1. Before(in, n, k + 1) = LastOf(in[k])
    BY <1>1 DEF Before
  <2>2. CASE k = 1
    BY <1>1, <1>3, <2>1, <2>2 DEF Before
  <2>3. CASE k # 1
    <3>1. k - 1 \in 1..(Len(in) - 1) /\ (k - 1) + 1 = k
      BY <1>1, <2>3
    <3>2. in2[k - 1] = in[k]
      BY <1>1, <3>1
    <3>3. QED  BY <2>1, <2>3, <3>2 DEF Before
  <2>4. QED  BY <2>2, <2>3
<1>5. \A k \in 1..Len(in2) : Following(Waiting(in2[k]), Before(in2, n2, k))
  <2> SUFFICES ASSUME NEW k \in 1..Len(in2)
               PROVE  Following(Waiting(in2[k]), Before(in2, n2, k))
    OBVIOUS
  <2>1. k + 1 \in 1..Len(in) /\ in2[k] = in[k + 1] /\ k \in 1..(Len(in2) + 1)
    BY <1>1
  <2>2. Following(Waiting(in[k + 1]), Before(in, n, k + 1))
    BY <2>1 DEF InOrder
  <2>3. QED  BY <1>4, <2>1, <2>2
<1>6. Before(in2, n2, Len(in2) + 1) = last
  <2>1. Len(in2) + 1 \in 1..(Len(in2) + 1) /\ (Len(in2) + 1) + 1 = Len(in) + 1
    BY <1>1
  <2>2. QED  BY <1>4, <2>1 DEF InOrder
<1>7. QED  BY <1>2, <1>5, <1>6 DEF InOrder, in2, n2

LEMMA InitHolds == Init => IInv
<1> SUFFICES ASSUME Init PROVE IInv
  OBVIOUS
<1>1. incoming = << >> /\ msgs = << >> /\ returned = << >> /\ arrived = 0
  BY DEF Init
<1>2. Shapes
  BY <1>1, EmptyASeq DEF Shapes
<1>3. InOrder(incoming, Len(returned) + Len(msgs), arrived)
  BY <1>1 DEF InOrder, Before
<1>4. PacketsInOrder
  BY <1>1, <1>3, InOrderUnfolded DEF Following
<1>5. QED  BY <1>2, <1>4 DEF IInv

\* What arrives is numbered on from what arrived before.
LEMMA ArrivalHolds ==
    ASSUME IInv, NEW m, Whole(m), Following(Waiting(m), arrived),
           incoming' = Append(incoming, m),
           arrived' = arrived + Len(Waiting(m)),
           UNCHANGED <<msgs, returned>>
    PROVE  IInv'
<1>1. ASeq(incoming) /\ ASeq(msgs) /\ ASeq(returned) /\ arrived \in Nat
  BY DEF IInv, Shapes
<1>2. /\ ASeq(incoming') /\ Len(incoming') = Len(incoming) + 1 /\ Len(incoming) \in Nat
      /\ \A k \in 1..Len(incoming) : incoming'[k] = incoming[k]
      /\ incoming'[Len(incoming) + 1] = m
  BY <1>1, AppendASeq DEF ASeq
<1>3. Len(Waiting(m)) \in Nat
  BY WaitingIsASeq DEF ASeq
<1>4. \A k \in 1..Len(incoming') : Whole(incoming'[k])
  <2> SUFFICES ASSUME NEW k \in 1..Len(incoming') PROVE Whole(incoming'[k])
    OBVIOUS
  <2>1. CASE k = Len(incoming) + 1
    BY <1>2, <2>1
  <2>2. CASE k # Len(incoming) + 1
    <3>1. k \in 1..Len(incoming)
      BY <1>2, <2>2
    <3>2. QED  BY <1>2, <3>1 DEF IInv, Shapes
  <2>3. QED  BY <2>1, <2>2
<1>5. Shapes'
  BY <1>1, <1>2, <1>3, <1>4 DEF Shapes
<1>6. InOrder(incoming', Len(returned) + Len(msgs), arrived')
  BY <1>1, InOrderAppend, InOrderUnfolded DEF IInv
<1>7. PacketsInOrder'
  BY <1>6, InOrderUnfolded, InOrderUnfoldedNext DEF IInv
<1>8. QED  BY <1>5, <1>7 DEF IInv

LEMMA ArrivePlainHolds ==
    ASSUME IInv, NEW type \in Types, NEW timestamp \in Times, ArrivePlain(type, timestamp)
    PROVE  IInv'
<1> DEFINE m == [type |-> type, timestamp |-> timestamp, id |-> arrived + 1,
                 due |-> timestamp, brought |-> timestamp, early |-> FALSE]
<1>1. m.type # "Aggregate" /\ m.id = arrived + 1
  BY PacketAssumption
<1>2. /\ incoming' = Append(incoming, m) /\ arrived' = arrived + 1
      /\ UNCHANGED <<msgs, returned>>
  BY DEF ArrivePlain
<1> HIDE DEF m
<1>3. Waiting(m) = <<m>>
  BY <1>1 DEF Waiting
<1>4. Whole(m)
  BY <1>1 DEF Whole
<1>5. Following(Waiting(m), arrived)
  BY <1>1, <1>3 DEF Following
<1>6. arrived' = arrived + Len(Waiting(m))
  BY <1>2, <1>3
<1>7. QED  BY <1>2, <1>4, <1>5, <1>6, ArrivalHolds

LEMMA ArriveAggregateHolds ==
    ASSUME IInv, NEW type \in Types, NEW timestamp \in Times,
           NEW times \in BoundedSeq(Times, MaxPieces), NEW broken \in BOOLEAN,
           ArriveAggregate(type, timestamp, times, broken)
    PROVE  IInv'
<1> DEFINE Piece(k) == [type |-> type, timestamp |-> times[k], id |-> arrived + k,
                        due |-> StreamTime(timestamp, times, k),
                        brought |-> timestamp, early |-> timestamp < times[1]]
           pieces == [k \in 1..Len(times) |-> Piece(k)]
           m == [type |-> "Aggregate", timestamp |-> timestamp, broken |-> broken,
                 pieces |-> pieces]
<1>1. Len(times) \in Nat /\ Len(times) >= 1
  <2>1. PICK l \in 0..MaxPieces : times \in [1..l -> Times]
    BY DEF BoundedSeq, SeqOf
  <2>2. times \in Seq(Times) /\ times # << >>
    BY <2>1, PacketAssumption DEF ArriveAggregate
  <2>3. QED  BY <2>2
<1>2. ASeq(pieces) /\ Len(pieces) = Len(times)
  <2>1. DOMAIN pieces = 1..Len(times)
    OBVIOUS
  <2>2. pieces = [k \in DOMAIN pieces |-> pieces[k]]
    OBVIOUS
  <2> HIDE DEF pieces
  <2>3. QED  BY <1>1, <2>1, <2>2, FunctionIsASeq
<1>3. \A k \in 1..Len(times) : pieces[k].id = arrived + k /\ "id" \in DOMAIN pieces[k]
  OBVIOUS
<1>4. /\ incoming' = Append(incoming, m) /\ arrived' = arrived + Len(times)
      /\ UNCHANGED <<msgs, returned>>
  BY DEF ArriveAggregate
<1>5. m.type = "Aggregate" /\ m.pieces = pieces
  OBVIOUS
<1> HIDE DEF m, pieces
<1>6. Waiting(m) = pieces
  BY <1>5 DEF Waiting
<1>7. Whole(m)
  BY <1>1, <1>2, <1>3, <1>5 DEF Whole
<1>8. Following(Waiting(m), arrived)
  BY <1>2, <1>3, <1>6 DEF Following
<1>9. QED  BY <1>2, <1>4, <1>6, <1>7, <1>8, ArrivalHolds

\* A packet is what its message was, under the same number.
LEMMA ReturnHolds ==
    ASSUME NEW ret, ASeq(ret), Following(ret, 0), NEW m, m.id = Len(ret) + 1
    PROVE  /\ ASeq(Append(ret, Packet(m))) /\ Len(Append(ret, Packet(m))) = Len(ret) + 1
           /\ Following(Append(ret, Packet(m)), 0)
<1> DEFINE ret2 == Append(ret, Packet(m))
<1>1. /\ ASeq(ret2) /\ Len(ret2) = Len(ret) + 1 /\ Len(ret) \in Nat
      /\ \A k \in 1..Len(ret) : ret2[k] = ret[k]
      /\ ret2[Len(ret) + 1] = Packet(m)
  BY AppendASeq DEF ASeq
<1> HIDE DEF ret2
<1>2. Packet(m).id = m.id
  BY DEF Packet
<1>3. \A k \in 1..Len(ret2) : ret2[k].id = 0 + k
  <2> SUFFICES ASSUME NEW k \in 1..Len(ret2) PROVE ret2[k].id = 0 + k
    OBVIOUS
  <2>1. CASE k = Len(ret) + 1
    BY <1>1, <1>2, <2>1
  <2>2. CASE k # Len(ret) + 1
    <3>1. k \in 1..Len(ret)
      BY <1>1, <2>2
    <3>2. QED  BY <1>1, <3>1 DEF Following
  <2>3. QED  BY <2>1, <2>2
<1>4. QED  BY <1>1, <1>3 DEF Following, ret2

LEMMA ReadCachedHolds ==
    ASSUME IInv, ReadCached
    PROVE  IInv'
<1>1. /\ ASeq(incoming) /\ ASeq(msgs) /\ ASeq(returned) /\ arrived \in Nat
      /\ Len(msgs) \in Nat /\ Len(returned) \in Nat
  BY DEF IInv, Shapes, ASeq
<1>2. /\ msgs # << >> /\ returned' = Append(returned, Packet(Head(msgs)))
      /\ msgs' = Tail(msgs) /\ incoming' = incoming /\ arrived' = arrived
  BY DEF ReadCached
<1>3. /\ Following(returned, 0) /\ Following(msgs, Len(returned))
      /\ InOrder(incoming, Len(returned) + Len(msgs), arrived)
  BY InOrderUnfolded DEF IInv
<1>4. /\ ASeq(msgs') /\ Head(msgs) = msgs[1] /\ Len(msgs) >= 1
      /\ Len(msgs') = Len(msgs) - 1
      /\ \A k \in 1..(Len(msgs) - 1) : msgs'[k] = msgs[k + 1]
  BY <1>1, <1>2, TailASeq
<1>5. Head(msgs).id = Len(returned) + 1
  BY <1>1, <1>3, <1>4 DEF Following
<1>6. /\ ASeq(returned') /\ Len(returned') = Len(returned) + 1
      /\ Following(returned', 0)
  BY <1>1, <1>2, <1>3, <1>5, ReturnHolds
<1>7. Following(msgs', Len(returned'))
  <2> SUFFICES ASSUME NEW k \in 1..Len(msgs')
               PROVE  msgs'[k].id = Len(returned') + k
    BY DEF Following
  <2>1. k + 1 \in 1..Len(msgs) /\ msgs'[k] = msgs[k + 1]
    BY <1>1, <1>4
  <2>2. msgs[k + 1].id = Len(returned) + (k + 1)
    BY <1>3, <2>1 DEF Following
  <2>3. QED  BY <1>1, <1>6, <2>1, <2>2
<1>8. Len(returned') + Len(msgs') = Len(returned) + Len(msgs)
  BY <1>1, <1>4, <1>6
<1>9. InOrder(incoming', Len(returned') + Len(msgs'), arrived')
  BY <1>2, <1>3, <1>8
<1>10. Shapes'
  BY <1>1, <1>2, <1>4, <1>6 DEF IInv, Shapes
<1>11. PacketsInOrder'
  BY <1>6, <1>7, <1>9, InOrderUnfoldedNext
<1>12. QED  BY <1>10, <1>11 DEF IInv

\* What both reads from the connection have in common: it loses its first message.
LEMMA ConnectionRead ==
    ASSUME IInv, CacheEmpty
    PROVE  /\ ASeq(incoming) /\ incoming # << >> /\ msgs = << >> /\ Len(msgs) = 0
           /\ ASeq(returned) /\ Len(returned) \in Nat /\ arrived \in Nat
           /\ Following(returned, 0) /\ Whole(Head(incoming))
           /\ ASeq(Tail(incoming))
           /\ \A k \in 1..Len(Tail(incoming)) : Whole(Tail(incoming)[k])
           /\ Following(Waiting(Head(incoming)), Len(returned))
           /\ InOrder(Tail(incoming), Len(returned) + Len(Waiting(Head(incoming))), arrived)
<1>1. /\ ASeq(incoming) /\ ASeq(returned) /\ Len(returned) \in Nat /\ arrived \in Nat
      /\ incoming # << >> /\ msgs = << >> /\ Len(msgs) = 0
  BY DEF IInv, Shapes, ASeq, CacheEmpty
<1>2. /\ ASeq(Tail(incoming)) /\ Head(incoming) = incoming[1] /\ Len(incoming) >= 1
      /\ Len(incoming) \in Nat /\ Len(Tail(incoming)) = Len(incoming) - 1
      /\ \A k \in 1..(Len(incoming) - 1) : Tail(incoming)[k] = incoming[k + 1]
  BY <1>1, TailASeq DEF ASeq
<1>3. Whole(Head(incoming))
  BY <1>2 DEF IInv, Shapes
<1>4. \A k \in 1..Len(Tail(incoming)) : Whole(Tail(incoming)[k])
  <2> SUFFICES ASSUME NEW k \in 1..(Len(incoming) - 1) PROVE Whole(Tail(incoming)[k])
    BY <1>2
  <2>1. k + 1 \in 1..Len(incoming)
    BY <1>2
  <2>2. QED  BY <1>2, <2>1 DEF IInv, Shapes
<1>5. Following(returned, 0) /\ InOrder(incoming, Len(returned), arrived)
  <2>1. /\ Following(returned, 0)
        /\ InOrder(incoming, Len(returned) + Len(msgs), arrived)
    BY InOrderUnfolded DEF IInv
  <2>2. Len(returned) + Len(msgs) = Len(returned)
    BY <1>1
  <2>3. QED  BY <2>1, <2>2
<1>6. /\ Following(Waiting(Head(incoming)), Len(returned))
      /\ InOrder(Tail(incoming), Len(returned) + Len(Waiting(Head(incoming))), arrived)
  BY <1>1, <1>3, <1>5, InOrderTail
<1>7. QED  BY <1>1, <1>2, <1>3, <1>4, <1>5, <1>6

LEMMA ReadPlainHolds ==
    ASSUME IInv, ReadPlain
    PROVE  IInv'
<1> DEFINE m == Head(incoming)
<1>1. /\ CacheEmpty /\ m.type # "Aggregate"
      /\ returned' = Append(returned, Packet(m)) /\ incoming' = Tail(incoming)
      /\ msgs' = msgs /\ arrived' = arrived
  BY DEF ReadPlain
<1>2. /\ msgs = << >> /\ Len(msgs) = 0
      /\ ASeq(returned) /\ Len(returned) \in Nat /\ arrived \in Nat
      /\ Following(returned, 0) /\ ASeq(Tail(incoming))
      /\ \A k \in 1..Len(Tail(incoming)) : Whole(Tail(incoming)[k])
      /\ Following(Waiting(m), Len(returned))
      /\ InOrder(Tail(incoming), Len(returned) + Len(Waiting(m)), arrived)
  BY <1>1, ConnectionRead
<1> HIDE DEF m
<1>3. Waiting(m) = <<m>>
  BY <1>1 DEF Waiting
<1>4. Len(Waiting(m)) = 1 /\ Waiting(m)[1] = m
  BY <1>3
<1>5. m.id = Len(returned) + 1
  BY <1>2, <1>4 DEF Following
<1>6. /\ ASeq(returned') /\ Len(returned') = Len(returned) + 1 /\ Following(returned', 0)
  BY <1>1, <1>2, <1>5, ReturnHolds
<1>7. InOrder(incoming', Len(returned') + Len(msgs'), arrived')
  <2>1. Len(returned') + Len(msgs') = Len(returned) + Len(Waiting(m))
    BY <1>1, <1>2, <1>4, <1>6
  <2>2. QED  BY <1>1, <1>2, <2>1
<1>8. Following(msgs', Len(returned'))
  BY <1>1, <1>2 DEF Following
<1>9. PacketsInOrder'
  BY <1>6, <1>7, <1>8, InOrderUnfoldedNext
<1>10. Shapes'
  <2>1. ASeq(msgs')
    BY <1>1, <1>2, EmptyASeq
  <2>2. QED  BY <1>1, <1>2, <1>6, <2>1 DEF Shapes
<1>11. QED  BY <1>9, <1>10 DEF IInv

\* The pieces an aggregate is taken to: as many as it has, under their numbers.
LEMMA PiecesAreNumbered ==
    ASSUME NEW m, m.type = "Aggregate", Whole(m), NEW n, Following(m.pieces, n)
    PROVE  ASeq(Pieces(m)) /\ Len(Pieces(m)) = Len(m.pieces) /\ Following(Pieces(m), n)
<1>1. /\ Len(m.pieces) \in Nat
      /\ \A k \in 1..Len(m.pieces) : "id" \in DOMAIN m.pieces[k]
  BY DEF Whole, ASeq
<1> DEFINE delta(k) == m.timestamp - m.pieces[GivesDelta(m, k)].timestamp
<1>2. Pieces(m) = [k \in 1..Len(m.pieces) |->
                     [m.pieces[k] EXCEPT !.timestamp = @ + delta(k)]]
  BY DEF Pieces
<1> HIDE DEF delta
<1>3. ASeq(Pieces(m)) /\ Len(Pieces(m)) = Len(m.pieces)
  <2>1. /\ DOMAIN Pieces(m) = 1..Len(m.pieces)
        /\ Pieces(m) = [k \in DOMAIN Pieces(m) |-> Pieces(m)[k]]
    BY <1>2
  <2>2. QED  BY <1>1, <2>1, FunctionIsASeq
<1>4. \A k \in 1..Len(m.pieces) : Pieces(m)[k].id = m.pieces[k].id
  <2> SUFFICES ASSUME NEW k \in 1..Len(m.pieces)
               PROVE  Pieces(m)[k].id = m.pieces[k].id
    OBVIOUS
  <2>1. Pieces(m)[k] = [m.pieces[k] EXCEPT !.timestamp = m.pieces[k].timestamp + delta(k)]
    BY <1>2
  <2>2. QED  BY <1>1, <2>1
<1>5. QED  BY <1>3, <1>4 DEF Following

LEMMA ReadAggregateHolds ==
    ASSUME IInv, ReadAggregate
    PROVE  IInv'
<1> DEFINE m == Head(incoming)
<1>1. /\ CacheEmpty /\ m.type = "Aggregate"
      /\ msgs' = msgs \o Pieces(m) /\ incoming' = Tail(incoming)
      /\ returned' = returned /\ arrived' = arrived
  BY DEF ReadAggregate, Cached
<1>2. /\ msgs = << >> /\ Len(msgs) = 0
      /\ ASeq(returned) /\ Len(returned) \in Nat /\ arrived \in Nat
      /\ Following(returned, 0) /\ ASeq(Tail(incoming)) /\ Whole(m)
      /\ \A k \in 1..Len(Tail(incoming)) : Whole(Tail(incoming)[k])
      /\ Following(Waiting(m), Len(returned))
      /\ InOrder(Tail(incoming), Len(returned) + Len(Waiting(m)), arrived)
  BY <1>1, ConnectionRead
<1> HIDE DEF m
<1>3. Waiting(m) = m.pieces
  BY <1>1 DEF Waiting
<1>4. /\ ASeq(Pieces(m)) /\ Len(Pieces(m)) = Len(Waiting(m))
      /\ Following(Pieces(m), Len(returned))
  BY <1>1, <1>2, <1>3, PiecesAreNumbered
<1>5. msgs' = Pieces(m)
  <2>1. Pieces(m) \in Seq(Elements(Pieces(m)))
    BY <1>4, OverItsElements
  <2>2. QED  BY <1>1, <1>2, <2>1
<1>6. Following(msgs', Len(returned'))
  BY <1>1, <1>4, <1>5
<1>7. InOrder(incoming', Len(returned') + Len(msgs'), arrived')
  BY <1>1, <1>2, <1>4, <1>5
<1>8. PacketsInOrder'
  BY <1>1, <1>2, <1>6, <1>7, InOrderUnfoldedNext
<1>9. Shapes'
  BY <1>1, <1>2, <1>4, <1>5 DEF Shapes
<1>10. QED  BY <1>8, <1>9 DEF IInv

LEMMA StepHolds == IInv /\ [Next]_vars => IInv'
<1> SUFFICES ASSUME IInv, [Next]_vars PROVE IInv'
  OBVIOUS
<1>1. CASE UNCHANGED vars
  BY <1>1, InOrderUnfolded, InOrderUnfoldedNext DEF vars, IInv, Shapes
<1>2. CASE Next
  BY <1>2, ArrivePlainHolds, ArriveAggregateHolds, ReadCachedHolds, ReadPlainHolds,
     ReadAggregateHolds DEF Next
<1>3. QED  BY <1>1, <1>2

\* srs_rtmp_read_packet() returns every packet once and in its order, whatever mix of
\* messages and aggregates, whole or broken, brings them.
THEOREM EveryPacketInOrder == Spec => []PacketsInOrder
<1>1. IInv => PacketsInOrder
  BY DEF IInv
<1>2. QED  BY <1>1, InitHolds, StepHolds, PTL DEF Spec

------------------------------------------------------------------------------
(***************************************************************************)
(* Times.  A piece in the cache already has the time it is returned with:  *)
(* the first piece of an aggregate gives the delta for all of them, and    *)
(* where the aggregate is older than that piece it is older than every     *)
(* one, and each is moved to the aggregate's time by a delta of its own.   *)
(***************************************************************************)
\* The time the piece or message is to be returned with.
AtItsTime(p) == p.timestamp = IF p.early THEN p.brought ELSE p.due

Described(m, k) ==
    /\ m.pieces[k].timestamp \in Nat /\ "timestamp" \in DOMAIN m.pieces[k]
    /\ m.pieces[1].timestamp <= m.pieces[k].timestamp
    /\ m.pieces[k].due = m.timestamp + m.pieces[k].timestamp - m.pieces[1].timestamp
    /\ m.pieces[k].brought = m.timestamp
    /\ m.pieces[k].early <=> m.timestamp < m.pieces[1].timestamp

DueWhenAggregated(m) ==
    m.timestamp \in Nat /\ \A k \in 1..Len(m.pieces) : Described(m, k)

Timed(m) == IF m.type = "Aggregate" THEN DueWhenAggregated(m) ELSE AtItsTime(m)

InTime ==
    /\ \A k \in 1..Len(incoming) : Timed(incoming[k])
    /\ \A k \in 1..Len(msgs) : AtItsTime(msgs[k])
    /\ TimesAreKept

TInv == IInv /\ InTime

LEMMA TimesInit == Init => TInv
<1> SUFFICES ASSUME Init PROVE InTime
  BY InitHolds DEF TInv
<1>1. Len(incoming) = 0 /\ Len(msgs) = 0 /\ Len(returned) = 0
  BY EmptyASeq DEF Init
<1>2. QED  BY <1>1 DEF InTime, TimesAreKept

LEMMA TimedArrival ==
    ASSUME TInv, NEW m, Timed(m), incoming' = Append(incoming, m),
           UNCHANGED <<msgs, returned>>
    PROVE  InTime'
<1>1. /\ Len(incoming') = Len(incoming) + 1 /\ Len(incoming) \in Nat
      /\ \A k \in 1..Len(incoming) : incoming'[k] = incoming[k]
      /\ incoming'[Len(incoming) + 1] = m
  BY AppendASeq DEF TInv, IInv, Shapes, ASeq
<1>2. \A k \in 1..Len(incoming') : k \in 1..Len(incoming) \/ k = Len(incoming) + 1
  BY <1>1
<1>3. \A k \in 1..Len(incoming') : Timed(incoming'[k])
  BY <1>1, <1>2 DEF TInv, InTime
<1>4. QED  BY <1>3 DEF TInv, InTime, TimesAreKept

LEMMA PlainInTime ==
    ASSUME TInv, NEW type \in Types, NEW timestamp \in Times, ArrivePlain(type, timestamp)
    PROVE  InTime'
<1> DEFINE m == [type |-> type, timestamp |-> timestamp, id |-> arrived + 1,
                 due |-> timestamp, brought |-> timestamp, early |-> FALSE]
<1>1. Timed(m)
  BY PacketAssumption DEF Timed, AtItsTime
<1>2. incoming' = Append(incoming, m) /\ UNCHANGED <<msgs, returned>>
  BY DEF ArrivePlain
<1> HIDE DEF m
<1>3. QED  BY <1>1, <1>2, TimedArrival

LEMMA AggregateInTime ==
    ASSUME TInv, NEW type \in Types, NEW timestamp \in Times,
           NEW times \in BoundedSeq(Times, MaxPieces), NEW broken \in BOOLEAN,
           ArriveAggregate(type, timestamp, times, broken)
    PROVE  InTime'
<1> DEFINE Piece(k) == [type |-> type, timestamp |-> times[k], id |-> arrived + k,
                        due |-> StreamTime(timestamp, times, k),
                        brought |-> timestamp, early |-> timestamp < times[1]]
           pieces == [k \in 1..Len(times) |-> Piece(k)]
           m == [type |-> "Aggregate", timestamp |-> timestamp, broken |-> broken,
                 pieces |-> pieces]
<1>1. /\ Len(times) \in Nat /\ Len(times) >= 1
      /\ \A k \in 1..Len(times) : times[k] \in Nat
      /\ timestamp \in Nat
  <2>1. PICK l \in 0..MaxPieces : times \in [1..l -> Times]
    BY DEF BoundedSeq, SeqOf
  <2>2. times \in Seq(Times) /\ times # << >>
    BY <2>1, PacketAssumption DEF ArriveAggregate
  <2>3. \A k \in 1..Len(times) : times[k] \in Times
    BY <2>2
  <2>4. timestamp \in Nat /\ Times \subseteq Nat
    BY PacketAssumption
  <2>5. Len(times) \in Nat /\ Len(times) >= 1
    BY <2>2
  <2>6. QED  BY <2>3, <2>4, <2>5
<1>2. Len(pieces) = Len(times)
  <2>1. DOMAIN pieces = 1..Len(times) /\ pieces = [k \in DOMAIN pieces |-> pieces[k]]
    OBVIOUS
  <2> HIDE DEF pieces
  <2>2. QED  BY <1>1, <2>1, FunctionIsASeq
<1>3. \A k \in 1..Len(times) :
        /\ pieces[k].timestamp = times[k] /\ "timestamp" \in DOMAIN pieces[k]
        /\ pieces[k].due = timestamp + times[k] - times[1]
        /\ pieces[k].brought = timestamp
        /\ pieces[k].early = (timestamp < times[1])
  BY DEF StreamTime
<1>4. \A k \in 1..Len(times) : times[1] <= times[k]
  <2>1. \A k \in 1..Len(times) : 1 \in 1..Len(times) /\ 1 <= k
    BY <1>1
  <2>2. QED  BY <2>1 DEF ArriveAggregate
<1>5. incoming' = Append(incoming, m) /\ UNCHANGED <<msgs, returned>>
  BY DEF ArriveAggregate
<1>6. m.type = "Aggregate" /\ m.pieces = pieces /\ m.timestamp = timestamp
  OBVIOUS
<1> HIDE DEF m, pieces
<1>7. 1 \in 1..Len(times)
  BY <1>1
<1>8. DueWhenAggregated(m)
  <2> SUFFICES ASSUME NEW k \in 1..Len(times) PROVE Described(m, k)
    BY <1>1, <1>2, <1>6 DEF DueWhenAggregated
  <2>1. m.pieces[1].timestamp = times[1]
    BY <1>3, <1>6, <1>7
  <2>2. QED  BY <1>1, <1>3, <1>4, <1>6, <2>1 DEF Described
<1>9. QED  BY <1>5, <1>6, <1>8, TimedArrival DEF Timed

\* All pieces are moved by the delta of the first, or each by its own.
LEMMA PiecesInTime ==
    ASSUME NEW m, m.type = "Aggregate", Whole(m), Timed(m), NEW k \in 1..Len(m.pieces)
    PROVE  AtItsTime(Pieces(m)[k])
<1>1. m.timestamp \in Nat /\ \A j \in 1..Len(m.pieces) : Described(m, j)
  BY DEF Timed, DueWhenAggregated
<1>2. Len(m.pieces) \in Nat /\ 1 \in 1..k /\ 1 \in 1..Len(m.pieces) /\ 1..k \subseteq 1..Len(m.pieces)
  BY DEF Whole, ASeq
<1>3. m.pieces[1].timestamp \in Nat /\ m.pieces[k].timestamp \in Nat
  BY <1>1, <1>2 DEF Described
<1> DEFINE known == {j \in 1..k : m.pieces[j].timestamp <= m.timestamp}
           t == m.pieces[k].timestamp
                    + (m.timestamp - m.pieces[GivesDelta(m, k)].timestamp)
<1>4. Pieces(m)[k] = [m.pieces[k] EXCEPT !.timestamp = t]
  BY DEF Pieces
<1>5. CASE m.timestamp < m.pieces[1].timestamp
  <2>1. \A j \in 1..k : m.timestamp < m.pieces[j].timestamp
    <3> SUFFICES ASSUME NEW j \in 1..k PROVE m.timestamp < m.pieces[j].timestamp
      OBVIOUS
    <3>1. m.pieces[1].timestamp <= m.pieces[j].timestamp /\ m.pieces[j].timestamp \in Nat
      BY <1>1, <1>2 DEF Described
    <3>2. QED  BY <1>1, <1>3, <1>5, <3>1
  <2>2. \A j \in 1..k : ~(m.pieces[j].timestamp <= m.timestamp)
    <3> SUFFICES ASSUME NEW j \in 1..k PROVE ~(m.pieces[j].timestamp <= m.timestamp)
      OBVIOUS
    <3>1. m.pieces[j].timestamp \in Nat
      BY <1>1, <1>2 DEF Described
    <3>2. QED  BY <1>1, <2>1, <3>1
  <2>3. known = {}
    BY <2>2
  <2>4. GivesDelta(m, k) = k
    BY <2>3 DEF GivesDelta
  <2>5. t = m.timestamp
    BY <1>1, <1>3, <2>4
  <2>6. m.pieces[k].early /\ m.pieces[k].brought = m.timestamp
    BY <1>1, <1>5 DEF Described
  <2> HIDE DEF t
  <2>7. /\ Pieces(m)[k].timestamp = t
        /\ Pieces(m)[k].early = m.pieces[k].early
        /\ Pieces(m)[k].brought = m.pieces[k].brought
    BY <1>1, <1>4 DEF Described
  <2>8. QED  BY <2>5, <2>6, <2>7 DEF AtItsTime
<1>6. CASE ~(m.timestamp < m.pieces[1].timestamp)
  <2>1. 1 \in known
    BY <1>1, <1>2, <1>3, <1>6
  <2>2. known \subseteq 1..k
    OBVIOUS
  <2>3. GivesDelta(m, k) = CHOOSE j \in known : \A i \in known : j <= i
    BY <2>1 DEF GivesDelta
  <2> HIDE DEF known
  <2>4. \A i \in known : 1 <= i
    BY <1>2, <2>2
  <2>5. PICK first : first = CHOOSE j \in known : \A i \in known : j <= i
    OBVIOUS
  <2>6. first \in known /\ \A i \in known : first <= i
    BY <2>1, <2>4, <2>5
  <2>7. first = 1
    BY <1>2, <2>1, <2>2, <2>6
  <2>8. GivesDelta(m, k) = 1
    BY <2>3, <2>5, <2>7
  <2>9. ~m.pieces[k].early
    BY <1>1, <1>6 DEF Described
  <2>10. t = m.pieces[k].due
    BY <1>1, <1>3, <2>8 DEF Described
  <2> HIDE DEF t
  <2>11. /\ Pieces(m)[k].timestamp = t
         /\ Pieces(m)[k].early = m.pieces[k].early
         /\ Pieces(m)[k].due = m.pieces[k].due
    BY <1>1, <1>4 DEF Described
  <2>12. QED  BY <2>9, <2>10, <2>11 DEF AtItsTime
<1>7. QED  BY <1>5, <1>6

\* What is returned in time goes behind what was.
LEMMA ReturnInTime ==
    ASSUME TInv, NEW m, AtItsTime(m), returned' = Append(returned, Packet(m))
    PROVE  TimesAreKept'
<1>1. /\ Len(returned') = Len(returned) + 1 /\ Len(returned) \in Nat
      /\ \A k \in 1..Len(returned) : returned'[k] = returned[k]
      /\ returned'[Len(returned) + 1] = Packet(m)
  BY AppendASeq DEF TInv, IInv, Shapes, ASeq
<1>2. Packet(m).type \in {"Audio", "Video"} => AtItsTime(Packet(m))
  BY DEF Packet, AtItsTime
<1>3. \A k \in 1..Len(returned') : k \in 1..Len(returned) \/ k = Len(returned) + 1
  BY <1>1
<1>4. QED  BY <1>1, <1>2, <1>3 DEF TInv, InTime, TimesAreKept, AtItsTime

LEMMA ReadCachedInTime ==
    ASSUME TInv, ReadCached
    PROVE  InTime'
<1>1. /\ returned' = Append(returned, Packet(Head(msgs)))
      /\ msgs' = Tail(msgs) /\ incoming' = incoming
  BY DEF ReadCached
<1>2. /\ Head(msgs) = msgs[1] /\ Len(msgs) >= 1 /\ Len(msgs) \in Nat
      /\ Len(msgs') = Len(msgs) - 1
      /\ \A k \in 1..(Len(msgs) - 1) : msgs'[k] = msgs[k + 1]
  BY <1>1, TailASeq DEF TInv, IInv, Shapes, ASeq, ReadCached
<1>3. \A k \in 1..Len(msgs') : k + 1 \in 1..Len(msgs) /\ msgs'[k] = msgs[k + 1]
  BY <1>2
<1>4. 1 \in 1..Len(msgs)
  BY <1>2
<1>5. AtItsTime(Head(msgs))
  BY <1>2, <1>4 DEF TInv, InTime
<1>6. TimesAreKept'
  BY <1>1, <1>5, ReturnInTime
<1>7. QED  BY <1>1, <1>3, <1>6 DEF TInv, InTime

LEMMA ConnectionInTime ==
    ASSUME TInv, CacheEmpty
    PROVE  /\ Timed(Head(incoming)) /\ Whole(Head(incoming))
           /\ \A k \in 1..Len(Tail(incoming)) : Timed(Tail(incoming)[k])
<1>1. /\ Head(incoming) = incoming[1] /\ Len(incoming) >= 1 /\ Len(incoming) \in Nat
      /\ Len(Tail(incoming)) = Len(incoming) - 1
      /\ \A k \in 1..(Len(incoming) - 1) : Tail(incoming)[k] = incoming[k + 1]
  BY TailASeq DEF TInv, IInv, Shapes, ASeq, CacheEmpty
<1>2. 1 \in 1..Len(incoming)
  BY <1>1
<1>3. \A k \in 1..Len(Tail(incoming)) :
        k + 1 \in 1..Len(incoming) /\ Tail(incoming)[k] = incoming[k + 1]
  BY <1>1
<1>4. QED  BY <1>1, <1>2, <1>3 DEF TInv, InTime, IInv, Shapes

LEMMA ReadPlainInTime ==
    ASSUME TInv, ReadPlain
    PROVE  InTime'
<1>1. /\ CacheEmpty /\ Head(incoming).type # "Aggregate"
      /\ returned' = Append(returned, Packet(Head(incoming)))
      /\ incoming' = Tail(incoming) /\ msgs' = msgs
  BY DEF ReadPlain
<1>2. AtItsTime(Head(incoming))
  BY <1>1, ConnectionInTime DEF Timed
<1>3. TimesAreKept'
  BY <1>1, <1>2, ReturnInTime
<1>4. QED  BY <1>1, <1>3, ConnectionInTime DEF TInv, InTime

LEMMA ReadAggregateInTime ==
    ASSUME TInv, ReadAggregate
    PROVE  InTime'
<1>1. PICK m : m = Head(incoming)
  OBVIOUS
<1>2. /\ CacheEmpty /\ m.type = "Aggregate"
      /\ msgs' = msgs \o Pieces(m) /\ incoming' = Tail(incoming) /\ returned' = returned
  BY <1>1 DEF ReadAggregate, Cached
<1>3. Timed(m) /\ Whole(m) /\ msgs = << >>
  BY <1>1, <1>2, ConnectionInTime DEF CacheEmpty
<1>4. ASeq(Pieces(m)) /\ Len(Pieces(m)) = Len(m.pieces)
  <2>1. Following(Waiting(m), Len(returned)) /\ Waiting(m) = m.pieces
    BY <1>1, <1>2, ConnectionRead DEF TInv, Waiting
  <2>2. QED  BY <1>2, <1>3, <2>1, PiecesAreNumbered
<1>5. msgs' = Pieces(m)
  <2>1. Pieces(m) \in Seq(Elements(Pieces(m)))
    BY <1>4, OverItsElements
  <2>2. QED  BY <1>2, <1>3, <2>1
<1>6. \A k \in 1..Len(msgs') : AtItsTime(msgs'[k])
  BY <1>2, <1>3, <1>4, <1>5, PiecesInTime
<1>7. TimesAreKept'
  BY <1>2 DEF TInv, InTime, TimesAreKept
<1>8. QED  BY <1>2, <1>6, <1>7, ConnectionInTime DEF InTime

LEMMA TimesStep == TInv /\ [Next]_vars => TInv'
<1> SUFFICES ASSUME TInv, [Next]_vars PROVE TInv'
  OBVIOUS
<1>1. ASSUME UNCHANGED vars PROVE InTime'
  BY <1>1 DEF vars, TInv, InTime, TimesAreKept
<1>2. ASSUME Next PROVE InTime'
  BY <1>2, PlainInTime, AggregateInTime, ReadCachedInTime, ReadPlainInTime,
     ReadAggregateInTime DEF Next
<1>3. IInv'
  BY StepHolds DEF TInv
<1>4. QED  BY <1>1, <1>2, <1>3 DEF TInv

\* Audio and video come with the time they have on the stream, from whatever aggregates;
\* where an aggregate is older than its first piece, each of its pieces comes with the
\* time of the aggregate instead.
THEOREM EveryTimeKept == Spec => []TimesAreKept
<1>1. TInv => TimesAreKept
  BY DEF TInv, InTime
<1>2. QED  BY <1>1, TimesInit, TimesStep, PTL DEF Spec
==============================================================================
