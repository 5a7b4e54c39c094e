------------------------- MODULE SendMessages_proofs -------------------------
(***************************************************************************)
(* do_send_messages() stays inside its iovs and its header cache, and what *)
(* it writes is the messages chunk by chunk, for every size of the iovs    *)
(* and of the cache, every limit of writev(), every chunk size and every   *)
(* group of messages.                                                      *)
(***************************************************************************)
EXTENDS SendMessages, ASequence, SequenceTheorems, WellFoundedInduction, TLAPS

------------------------------------------------------------------------------
(***************************************************************************)
(* Sequences of any elements.                                              *)
(***************************************************************************)
\* Where pairs are counted off: between two even positions is an odd one.
LEMMA OddBehindEven ==
    ASSUME NEW n \in Nat, n % 2 = 0, NEW i \in 1..n, i % 2 = 0, i # n
    PROVE  i + 1 \in 1..(n - 1) /\ (i + 1) % 2 = 1
<1>1. (i + 1) % 2 = 1
  OBVIOUS
<1>2. i + 1 # n
  BY <1>1
<1>3. QED  BY <1>1, <1>2

\* A sequence is one over its own elements, and over whatever contains them.
LEMMA OverItsElements ==
    ASSUME NEW s, ASeq(s), NEW S, Elements(s) \subseteq S
    PROVE  s \in Seq(S)
<1>1. \A k \in 1..Len(s) : s[k] \in S
  BY DEF Elements
<1>2. QED  BY <1>1 DEF ASeq

LEMMA SeqIsASeq ==
    ASSUME NEW S, NEW s \in Seq(S)
    PROVE  ASeq(s)
BY DEF ASeq

LEMMA EmptyASeq == ASeq(<< >>) /\ Len(<< >>) = 0
BY DEF ASeq

\* A function on 1..n is a sequence of length n.
LEMMA FunctionIsASeq ==
    ASSUME NEW s, NEW n \in Nat, DOMAIN s = 1..n, s = [k \in DOMAIN s |-> s[k]]
    PROVE  ASeq(s) /\ Len(s) = n
<1> DEFINE S == {s[k] : k \in 1..n}
<1>1. \A k \in 1..n : s[k] \in S
  OBVIOUS
<1>2. s \in [1..n -> S]
  <2> HIDE DEF S
  <2> QED  BY <1>1
<1>3. s \in Seq(S) /\ Len(s) = n
  <2> HIDE DEF S
  <2> QED  BY <1>2
<1>4. QED  BY <1>3, SeqIsASeq

LEMMA ConcatASeq ==
    ASSUME NEW s, NEW t, ASeq(s), ASeq(t)
    PROVE  /\ ASeq(s \o t)
           /\ Len(s \o t) = Len(s) + Len(t)
           /\ \A k \in 1..Len(s) : (s \o t)[k] = s[k]
           /\ \A k \in 1..Len(t) : (s \o t)[Len(s) + k] = t[k]
<1> DEFINE S == Elements(s) \cup Elements(t)
<1>1. s \in Seq(S) /\ t \in Seq(S)
  <2>1. Elements(s) \subseteq S /\ Elements(t) \subseteq S
    OBVIOUS
  <2> HIDE DEF S
  <2>2. QED  BY <2>1, OverItsElements
<1> HIDE DEF S
<1>2. s \o t \in Seq(S)
  BY <1>1
<1>3. ASeq(s \o t)
  BY <1>2, SeqIsASeq
<1>4. QED  BY <1>1, <1>3

------------------------------------------------------------------------------
Message == [size : Nat, extended : BOOLEAN]
Iov == [at : Nat, len : Nat] \cup [payload : Nat, from : Nat, size : Nat]

\* The loop is at a message with something left to send.
AtAMessage ==
    /\ current <= Len(given) + 1
    /\ current <= Len(given) => p < given[current].size
    /\ pc = "filling" => current <= Len(given)

\* The iovs are filled and added in pairs, so room for one of them is room for both.
Pairs ==
    /\ nb_out_iovs % 2 = 0 /\ iov_index % 2 = 0
    /\ iov_index + 2 <= nb_out_iovs

\* The caches are at their start between calls, and nothing is half written while
\* pairs are filled.
CachesReset ==
    /\ pc # "writing" => cur_iov = 0 \/ pc = "failed"
    /\ pc = "writing" => cur_iov < iov_index
    /\ pc = "idle" => iovs = << >> /\ c0c3_cache_index = 0

Types ==
    /\ given \in Seq(Message)
    /\ out_chunk_size \in Nat \ {0}
    /\ current \in Nat \ {0} /\ p \in Nat
    /\ iovs \in Seq(Iov)
    /\ nb_out_iovs \in Nat
    /\ c0c3_cache_index \in Nat /\ cur_iov \in Nat
    /\ pc \in {"idle", "filling", "writing", "failed"}

\* The inductive invariant: NextPairFits needs to know that pairs are filled, and that
\* the cache was dry before it could overflow.
IInv ==
    /\ Types /\ AtAMessage /\ Pairs /\ CachesReset
    /\ c0c3_cache_index <= SRS_CONSTS_C0C3_HEADERS_MAX
    /\ cur_iov <= iov_index
    /\ NextPairFits

\* There is one first message to send.
LEMMA FirstToSendUnique ==
    ASSUME NEW messages \in Seq(Message), NEW k \in 1..(Len(messages) + 1),
           NEW j \in k..(Len(messages) + 1),
           \A i \in k..(j - 1) : messages[i].size = 0,
           j <= Len(messages) => messages[j].size > 0
    PROVE  FirstToSend(messages, k) = j
<1> DEFINE Is(x) == /\ \A i \in k..(x - 1) : messages[i].size = 0
                    /\ x <= Len(messages) => messages[x].size > 0
<1>1. ASSUME NEW x \in k..(Len(messages) + 1), Is(x) PROVE x = j
  <2>1. ~(x < j)
    <3> SUFFICES ASSUME x < j PROVE FALSE
      OBVIOUS
    <3>1. x \in k..(j - 1) /\ x <= Len(messages)
      OBVIOUS
    <3>2. messages[x].size = 0 /\ messages[x].size > 0
      BY <1>1, <3>1
    <3>3. QED  BY <3>2
  <2>2. ~(j < x)
    <3> SUFFICES ASSUME j < x PROVE FALSE
      OBVIOUS
    <3>1. j \in k..(x - 1) /\ j <= Len(messages)
      OBVIOUS
    <3>2. messages[j].size = 0 /\ messages[j].size > 0
      BY <1>1, <3>1
    <3>3. QED  BY <3>2
  <2>3. QED  BY <2>1, <2>2
<1>2. Is(j)
  OBVIOUS
<1>3. FirstToSend(messages, k) = CHOOSE x \in k..(Len(messages) + 1) : Is(x)
  BY DEF FirstToSend
<1> HIDE DEF Is
<1>4. QED  BY <1>1, <1>2, <1>3

\* And nothing to send in front of it.
LEMMA NothingBefore ==
    ASSUME NEW messages \in Seq(Message), NEW k \in 1..(Len(messages) + 1)
    PROVE  /\ FirstToSend(messages, k) \in k..(Len(messages) + 1)
           /\ \A i \in k..(FirstToSend(messages, k) - 1) : messages[i].size = 0
           /\ FirstToSend(messages, k) <= Len(messages)
                 => messages[FirstToSend(messages, k)].size > 0
<1> DEFINE Stops == {j \in k..(Len(messages) + 1) :
                        j <= Len(messages) => messages[j].size # 0}
<1>1. Len(messages) + 1 \in Stops /\ Stops \subseteq Nat
  OBVIOUS
<1>2. PICK x \in Stops : \A y \in Stops : ~(<<y, x>> \in OpToRel(<, Nat))
  BY <1>1, WFMin, NatLessThanWellFounded
<1>3. \A y \in Stops : ~(y < x)
  BY <1>1, <1>2 DEF OpToRel
<1>4. \A i \in k..(x - 1) : messages[i].size = 0
  <2> SUFFICES ASSUME NEW i \in k..(x - 1), messages[i].size # 0 PROVE FALSE
    OBVIOUS
  <2>1. i \in Stops /\ i < x  OBVIOUS
  <2>2. QED  BY <2>1, <1>3
<1>5. x <= Len(messages) => messages[x].size > 0
  <2> SUFFICES ASSUME x <= Len(messages) PROVE messages[x].size > 0
    OBVIOUS
  <2>1. x \in 1..Len(messages) /\ messages[x].size # 0  OBVIOUS
  <2>2. messages[x] \in Message  BY <2>1, ElementOfSeq
  <2>3. QED  BY <2>1, <2>2 DEF Message
<1>6. x \in k..(Len(messages) + 1)
  OBVIOUS
<1>7. FirstToSend(messages, k) = x
  BY <1>4, <1>5, <1>6, FirstToSendUnique
<1>8. QED  BY <1>4, <1>5, <1>6, <1>7

LEMMA InitHolds == Init => IInv
BY CachesAssumption
DEF Init, IInv, Types, AtAMessage, Pairs, CachesReset, NextPairFits, iov_index

USE DEF iov_index, SRS_CONSTS_RTMP_MAX_FMT0_HEADER_SIZE

LEMMA SendHolds ==
    ASSUME IInv, NEW group \in Groups, NEW chunk_size \in ChunkSizes, Send(group, chunk_size)
    PROVE  IInv'
<1>1. group \in Seq(Message) /\ chunk_size \in Nat \ {0}
  BY CachesAssumption DEF Message
<1>2. /\ given' \in Seq(Message) /\ given' = given \o group
      /\ Len(given') = Len(given) + Len(group)
  BY <1>1, ConcatProperties DEF Send, IInv, Types
<1>3. current \in 1..(Len(given') + 1)
  BY <1>1, <1>2 DEF IInv, Types, AtAMessage
<1>4. /\ current' \in Nat \ {0} /\ current' <= Len(given') + 1 /\ p' = 0
      /\ current' <= Len(given') => 0 < given'[current'].size
  <2>1. current' = FirstToSend(given', current) /\ p' = 0
    BY DEF Send
  <2>2. /\ FirstToSend(given', current) \in current..(Len(given') + 1)
        /\ FirstToSend(given', current) <= Len(given')
              => given'[FirstToSend(given', current)].size > 0
    BY <1>2, <1>3, NothingBefore
  <2>3. QED  BY <1>3, <2>1, <2>2
<1>5. Types' /\ AtAMessage'
  BY <1>1, <1>2, <1>4 DEF Send, IInv, Types, AtAMessage
<1>6. /\ iovs = << >> /\ c0c3_cache_index = 0 /\ cur_iov = 0
      /\ iovs' = iovs /\ c0c3_cache_index' = c0c3_cache_index /\ cur_iov' = cur_iov
      /\ nb_out_iovs' = nb_out_iovs /\ pc' \in {"filling", "idle"}
  BY DEF Send, IInv, CachesReset
<1>7. Pairs' /\ CachesReset' /\ NextPairFits'
  BY <1>6, CachesAssumption DEF IInv, Pairs, CachesReset, NextPairFits, Types
<1>8. QED  BY <1>5, <1>6, <1>7, CachesAssumption DEF IInv

\* A pair of iovs is filled: it points into the cache and into the message.
LEMMA FillPairHolds ==
    ASSUME IInv, FillPair
    PROVE  IInv'
<1> DEFINE message == given[current]
           nbh == HeaderSize(message, p = 0)
           payload_size == Min2(out_chunk_size, message.size - p)
           done == p + payload_size = message.size
           pair == <<[at |-> c0c3_cache_index, len |-> nbh],
                     [payload |-> current, from |-> p, size |-> payload_size]>>
<1>1. /\ current \in 1..Len(given) /\ p \in Nat /\ p < message.size
      /\ c0c3_cache_index + 16 <= SRS_CONSTS_C0C3_HEADERS_MAX
      /\ cur_iov = 0
  BY DEF IInv, FillPair, AtAMessage, Types, NextPairFits, CachesReset
<1>2. message \in Message
  BY <1>1, ElementOfSeq DEF IInv, Types
<1>3. nbh \in 1..16
  BY <1>2 DEF HeaderSize, Message
<1>4. payload_size \in Nat \ {0} /\ p + payload_size <= message.size
  BY <1>1, <1>2 DEF Min2, Message, IInv, Types
<1>5. iovs' = iovs \o pair /\ pair \in Seq(Iov) /\ Len(pair) = 2
  <2>1. [at |-> c0c3_cache_index, len |-> nbh] \in Iov
    BY SMTT(30), <1>3 DEF Iov, IInv, Types
  <2>2. [payload |-> current, from |-> p, size |-> payload_size] \in Iov
    BY <1>4 DEF Iov, IInv, Types
  <2>3. pair \in Seq(Iov) /\ Len(pair) = 2
    <3> HIDE DEF nbh, payload_size
    <3> QED  BY <2>1, <2>2
  <2>4. iovs' = iovs \o pair
    BY DEF FillPair
  <2>5. QED  BY <2>3, <2>4
<1>6. iovs' \in Seq(Iov) /\ Len(iovs') = Len(iovs) + 2
  BY <1>5, ConcatProperties DEF IInv, Types
<1>7. /\ nb_out_iovs' \in Nat /\ nb_out_iovs' % 2 = 0 /\ Len(iovs') % 2 = 0
      /\ Len(iovs') + 2 <= nb_out_iovs'
  <2>1. nb_out_iovs' = IF Len(iovs) >= nb_out_iovs - 2
                      THEN nb_out_iovs + SRS_CONSTS_IOVS_MAX ELSE nb_out_iovs
    BY DEF FillPair, Grown
  <2>2. /\ nb_out_iovs \in Nat /\ nb_out_iovs % 2 = 0
        /\ Len(iovs) \in Nat /\ Len(iovs) % 2 = 0 /\ Len(iovs) + 2 <= nb_out_iovs
    BY DEF IInv, Pairs, Types
  <2>3. SRS_CONSTS_IOVS_MAX \in Nat /\ SRS_CONSTS_IOVS_MAX % 2 = 0
        /\ SRS_CONSTS_IOVS_MAX >= 2
    BY CachesAssumption
  <2>4. QED  BY <1>6, <2>1, <2>2, <2>3
<1>8. /\ current' \in Nat \ {0} /\ current' <= Len(given) + 1 /\ p' \in Nat
      /\ current' <= Len(given) => p' < given[current'].size
  <2>1. CASE done
    <3>1. current' = FirstToSend(given, current + 1) /\ p' = 0
      BY <2>1 DEF FillPair
    <3>2. current + 1 \in 1..(Len(given) + 1)
      BY <1>1
    <3>3. QED  BY <3>1, <3>2, NothingBefore DEF IInv, Types
  <2>2. CASE ~done
    <3>1. current' = current /\ p' = p + payload_size
      BY <2>2 DEF FillPair
    <3>2. QED  BY <2>2, <3>1, <1>1, <1>2, <1>4 DEF Message
  <2>3. QED  BY <2>1, <2>2
<1>9. /\ c0c3_cache_index' = c0c3_cache_index + nbh
      /\ c0c3_cache_index' \in Nat /\ c0c3_cache_index' <= SRS_CONSTS_C0C3_HEADERS_MAX
  <2>1. c0c3_cache_index' = c0c3_cache_index + nbh
    BY DEF FillPair
  <2>2. /\ c0c3_cache_index \in Nat
        /\ c0c3_cache_index + 16 <= SRS_CONSTS_C0C3_HEADERS_MAX
        /\ SRS_CONSTS_C0C3_HEADERS_MAX \in Nat
    BY <1>1, CachesAssumption DEF IInv, Types
  <2> HIDE DEF nbh
  <2>3. QED  BY <1>3, <2>1, <2>2
<1>10. /\ given' = given /\ out_chunk_size' = out_chunk_size /\ cur_iov' = cur_iov
       /\ \/ pc' = "writing"
          \/ /\ pc' = "filling" /\ current' <= Len(given)
             /\ ~Dry(c0c3_cache_index')
  <2>1. /\ given' = given /\ out_chunk_size' = out_chunk_size /\ cur_iov' = cur_iov
    BY DEF FillPair
  <2>2. \/ pc' = "writing"
        \/ pc' = "filling" /\ ~(current' > Len(given)) /\ ~Dry(c0c3_cache_index')
    BY DEF FillPair
  <2>3. Len(given) \in Nat /\ current' \in Nat
    BY <1>8 DEF IInv, Types
  <2>4. ~(current' > Len(given)) => current' <= Len(given)
    BY <2>3
  <2>5. QED  BY <2>1, <2>2, <2>4
<1>11. Types' /\ AtAMessage'
  BY <1>6, <1>7, <1>8, <1>9, <1>10 DEF IInv, Types, AtAMessage
<1>12. NextPairFits'
  BY <1>7, <1>9, <1>10, CachesAssumption DEF NextPairFits, Dry
<1>13. Pairs' /\ CachesReset' /\ cur_iov' <= iov_index'
  <2>1. cur_iov' = 0 /\ Len(iovs') \in Nat /\ Len(iovs') >= 2
    BY <1>1, <1>6, <1>10 DEF IInv, Types
  <2>2. pc' \in {"writing", "filling"}
    BY <1>10
  <2>3. Pairs'
    BY <1>7 DEF Pairs
  <2>4. CachesReset'
    BY <2>1, <2>2 DEF CachesReset
  <2>5. QED  BY <2>1, <2>3, <2>4
<1>14. QED  BY <1>9, <1>11, <1>12, <1>13 DEF IInv

LEMMA WriteSliceHolds ==
    ASSUME IInv, WriteSlice
    PROVE  IInv'
<1>1. /\ pc = "writing" /\ cur_iov \in Nat /\ Len(iovs) \in Nat /\ cur_iov < Len(iovs)
      /\ SliceCount \in Nat
  BY CachesAssumption DEF WriteSlice, IInv, Types, CachesReset, SliceCount, Min2
<1>2. UNCHANGED <<given, out_chunk_size, current, p, nb_out_iovs>>
  BY DEF WriteSlice
<1>3. CASE cur_iov + SliceCount < iov_index
  <2>1. cur_iov' = cur_iov + SliceCount /\ UNCHANGED <<iovs, c0c3_cache_index, pc>>
    BY <1>3 DEF WriteSlice
  <2>2. QED
    BY <1>1, <1>2, <1>3, <2>1
    DEF IInv, Types, AtAMessage, Pairs, CachesReset, NextPairFits
<1>4. CASE ~(cur_iov + SliceCount < iov_index)
  <2>1. /\ cur_iov' = 0 /\ iovs' = << >> /\ c0c3_cache_index' = 0
        /\ pc' = IF current <= Len(given) THEN "filling" ELSE "idle"
    BY <1>4 DEF WriteSlice, ResetCaches
  <2>2. 2 <= nb_out_iovs
    BY <1>1 DEF IInv, Pairs, Types
  <2>3. QED
    BY <1>1, <1>2, <2>1, <2>2, CachesAssumption
    DEF IInv, Types, AtAMessage, Pairs, CachesReset, NextPairFits
<1>5. QED  BY <1>3, <1>4

LEMMA WriteFailsHolds ==
    ASSUME IInv, WriteFails
    PROVE  IInv'
BY DEF WriteFails, IInv, Types, AtAMessage, Pairs, CachesReset, NextPairFits

LEMMA StepHolds == IInv /\ [Next]_vars => IInv'
<1> SUFFICES ASSUME IInv, [Next]_vars PROVE IInv'
  OBVIOUS
<1>1. CASE UNCHANGED vars
  BY <1>1 DEF vars, IInv, Types, AtAMessage, Pairs, CachesReset, NextPairFits
<1>2. CASE Next
  BY <1>2, SendHolds, FillPairHolds, WriteSliceHolds, WriteFailsHolds DEF Next
<1>3. QED  BY <1>1, <1>2

\* The caches stay as the loops of do_send_messages() assume them.
THEOREM Inductive == Spec => []IInv
BY InitHolds, StepHolds, PTL DEF Spec

\* Every variable of do_send_messages() keeps its type, whatever is sent.
THEOREM TypeCorrect == Spec => []TypeOK
<1>1. ASSUME IInv PROVE TypeOK
  <2>1. /\ Len(iovs) \in Nat /\ Len(iovs) <= nb_out_iovs
        /\ cur_iov \in 0..Len(iovs)
        /\ c0c3_cache_index \in 0..SRS_CONSTS_C0C3_HEADERS_MAX
    BY <1>1, CachesAssumption DEF IInv, Types, Pairs
  <2>2. QED  BY <1>1, <2>1 DEF IInv, Types, TypeOK, Message
<1>2. QED  BY <1>1, Inductive, PTL

\* No chunk is ever put behind the end of out_iovs, and no header is asked for where it
\* does not fit, whatever the sizes of the two caches.
THEOREM EveryPairFits == Spec => []NextPairFits
<1>1. IInv => NextPairFits
  BY DEF IInv
<1>2. QED  BY <1>1, Inductive, PTL

(***************************************************************************)
(* What is written.  The pieces that were written and those in the iovs    *)
(* are one sequence, which only grows; each iov of a header still points   *)
(* at the header of the piece behind it.                                   *)
(***************************************************************************)
Piece == [payload : Nat \ {0}, from : Nat, size : Nat \ {0}]
HeaderOf(c) == [header |-> c.payload, from |-> c.from]

\* What an iov points at in the caches, and what one of the k-th of iovs should.
Points(iov, caches) ==
    IF "at" \notin DOMAIN iov THEN iov
    ELSE LET owner == caches[iov.at]
         IN  IF \A b \in iov.at..(iov.at + iov.len - 1) : caches[b] = owner
             THEN owner ELSE Torn
Meant(s, k) == IF k % 2 = 1 THEN HeaderOf(s[k + 1]) ELSE s[k]

\* The pair of iovs at k and k + 1, the first of them below the cache's index.
PairAt(s, k, caches, index) ==
    /\ s[k + 1] \in Piece
    /\ s[k] \in [at : Nat, len : Nat \ {0}] /\ s[k].at + s[k].len <= index
    /\ \A b \in s[k].at..(s[k].at + s[k].len - 1) : caches[b] = HeaderOf(s[k + 1])
PairsOf(s, caches, index) ==
    \A k \in 1..(Len(s) - 1) : k % 2 = 1 => PairAt(s, k, caches, index)

PendingOf(s, n, caches) == [k \in 1..(Len(s) - n) |-> Points(s[n + k], caches)]
SliceOf(s, n, m, caches) == [k \in 1..m |-> Points(s[n + k], caches)]
Pending == PendingOf(iovs, cur_iov, out_c0c3_caches)
All == written \o Pending

\* What follows a piece in the messages.
Successor(messages, c) ==
    IF c.from + c.size < messages[c.payload].size
    THEN [header |-> c.payload, from |-> c.from + c.size]
    ELSE [header |-> FirstToSend(messages, c.payload + 1), from |-> 0]

\* A piece of the messages.
PieceOf(messages, c) ==
    /\ c \in Piece /\ c.payload <= Len(messages)
    /\ c.from + c.size <= messages[c.payload].size

\* Chunk by chunk, up to the place the loop is at.
Chunked(messages, all, place) ==
    /\ Len(all) % 2 = 0
    /\ \A i \in 1..(Len(all) - 1) : i % 2 = 1 =>
          PieceOf(messages, all[i + 1]) /\ all[i] = HeaderOf(all[i + 1])
    /\ \A i \in 1..Len(all) : i % 2 = 0 =>
          Successor(messages, all[i]) = IF i = Len(all) THEN place ELSE all[i + 1]
    /\ Len(all) = 0 => place = [header |-> FirstToSend(messages, 1), from |-> 0]

Place == [header |-> current, from |-> p]

Slices ==
    /\ pc = "idle" => current = Len(given) + 1
    /\ current = Len(given) + 1 => p = 0
    /\ iov_index < IovLimit => cur_iov = 0

IovsPoint == PairsOf(iovs, out_c0c3_caches, c0c3_cache_index)

\* The inductive invariant of what is written.
WInv ==
    /\ IInv /\ Slices /\ IovsPoint
    /\ ASeq(written)
    /\ Chunked(given, All, Place)

\* Iovs that point into the caches point at headers and pieces in turn.
LEMMA PendingIsMeant ==
    ASSUME NEW s, ASeq(s), Len(s) % 2 = 0, NEW caches, NEW index,
           PairsOf(s, caches, index), NEW n \in 0..Len(s)
    PROVE  /\ ASeq(PendingOf(s, n, caches)) /\ Len(PendingOf(s, n, caches)) = Len(s) - n
           /\ \A k \in 1..(Len(s) - n) : PendingOf(s, n, caches)[k] = Meant(s, n + k)
<1>1. Len(s) \in Nat /\ Len(s) - n \in Nat
  BY DEF ASeq
<1>2. ASeq(PendingOf(s, n, caches)) /\ Len(PendingOf(s, n, caches)) = Len(s) - n
  BY <1>1, FunctionIsASeq DEF PendingOf
<1>3. ASSUME NEW j \in 1..Len(s) PROVE Points(s[j], caches) = Meant(s, j)
  <2>1. CASE j % 2 = 1
    <3>1. j \in 1..(Len(s) - 1)
      BY <1>1, <2>1
    <3>2. PairAt(s, j, caches, index)
      BY <2>1, <3>1 DEF PairsOf
    <3>3. /\ s[j].at \in Nat /\ s[j].len \in Nat \ {0} /\ "at" \in DOMAIN s[j]
          /\ \A b \in s[j].at..(s[j].at + s[j].len - 1) : caches[b] = HeaderOf(s[j + 1])
      BY <3>2 DEF PairAt
    <3>4. caches[s[j].at] = HeaderOf(s[j + 1])
      BY <3>3
    <3>5. QED  BY <2>1, <3>3, <3>4 DEF Points, Meant
  <2>2. CASE j % 2 # 1
    <3>1. j - 1 \in 1..(Len(s) - 1) /\ (j - 1) % 2 = 1 /\ (j - 1) + 1 = j
      BY <1>1, <2>2
    <3>2. PairAt(s, j - 1, caches, index)
      BY <3>1 DEF PairsOf
    <3>3. s[j] \in Piece
      BY <3>1, <3>2 DEF PairAt
    <3>4. "at" \notin DOMAIN s[j]
      BY <3>3 DEF Piece
    <3>5. QED  BY <2>2, <3>4 DEF Points, Meant
  <2>3. QED  BY <2>1, <2>2
<1>4. ASSUME NEW k \in 1..(Len(s) - n)
      PROVE  PendingOf(s, n, caches)[k] = Meant(s, n + k)
  <2>1. n + k \in 1..Len(s)
    BY <1>1
  <2>2. QED  BY <1>3, <2>1 DEF PendingOf
<1>5. QED  BY <1>2, <1>4

\* Sequences are equal when their elements are.
LEMMA SameElements ==
    ASSUME NEW s, NEW t, ASeq(s), ASeq(t), Len(s) = Len(t),
           \A k \in 1..Len(s) : s[k] = t[k]
    PROVE  s = t
BY DEF ASeq

\* A pair goes to the end of what is to be written.
LEMMA PairAppended ==
    ASSUME NEW s, ASeq(s), NEW t, ASeq(t), NEW h, NEW c
    PROVE  s \o (t \o <<h, c>>) = (s \o t) \o <<h, c>>
<1>1. ASeq(<<h, c>>) /\ Len(<<h, c>>) = 2
  BY DEF ASeq
<1>2. /\ ASeq(t \o <<h, c>>) /\ ASeq(s \o t)
      /\ Len(t \o <<h, c>>) = Len(t) + 2 /\ Len(s \o t) = Len(s) + Len(t)
  BY <1>1, ConcatASeq
<1> DEFINE S == Elements(s) \cup Elements(t) \cup {h, c}
<1>3. s \in Seq(S) /\ t \in Seq(S) /\ <<h, c>> \in Seq(S)
  <2>1. Elements(s) \subseteq S /\ Elements(t) \subseteq S /\ h \in S /\ c \in S
    OBVIOUS
  <2> HIDE DEF S
  <2>2. QED  BY <2>1, OverItsElements
<1> HIDE DEF S
<1>4. QED  BY <1>3

LEMMA ChunkedExtends ==
    ASSUME NEW messages \in Seq(Message), NEW all, ASeq(all), NEW c, NEW place, NEW next,
           Chunked(messages, all, place), PieceOf(messages, c),
           place = HeaderOf(c), next = Successor(messages, c)
    PROVE  Chunked(messages, all \o <<HeaderOf(c), c>>, next)
<1> DEFINE pair == <<HeaderOf(c), c>>
           longer == all \o pair
<1>1. ASeq(pair) /\ Len(pair) = 2 /\ pair[1] = HeaderOf(c) /\ pair[2] = c
  BY DEF ASeq
<1>2. /\ ASeq(longer) /\ Len(longer) = Len(all) + 2 /\ Len(all) \in Nat
      /\ \A k \in 1..Len(all) : longer[k] = all[k]
      /\ longer[Len(all) + 1] = HeaderOf(c) /\ longer[Len(all) + 2] = c
  <2>1. /\ ASeq(longer) /\ Len(longer) = Len(all) + Len(pair)
        /\ \A k \in 1..Len(all) : longer[k] = all[k]
        /\ \A k \in 1..Len(pair) : longer[Len(all) + k] = pair[k]
    BY <1>1, ConcatASeq
  <2> HIDE DEF longer, pair
  <2>2. QED  BY <1>1, <2>1 DEF ASeq
<1> HIDE DEF longer, pair
<1>3. Len(all) % 2 = 0 /\ Len(longer) % 2 = 0
  BY <1>2 DEF Chunked
<1>4. ASSUME NEW i \in 1..(Len(longer) - 1), i % 2 = 1
      PROVE  PieceOf(messages, longer[i + 1]) /\ longer[i] = HeaderOf(longer[i + 1])
  <2>1. CASE i = Len(all) + 1
    <3>1. i + 1 = Len(all) + 2
      BY <1>2, <2>1
    <3>2. longer[i] = HeaderOf(c) /\ longer[i + 1] = c
      BY <1>2, <2>1, <3>1
    <3>3. QED  BY <3>2
  <2>2. CASE i # Len(all) + 1
    <3>1. i \in 1..(Len(all) - 1) /\ i \in 1..Len(all) /\ i + 1 \in 1..Len(all)
      BY <1>2, <1>3, <1>4, <2>2
    <3>2. longer[i] = all[i] /\ longer[i + 1] = all[i + 1]
      BY <1>2, <3>1
    <3>3. QED  BY <1>4, <3>1, <3>2 DEF Chunked
  <2>3. QED  BY <2>1, <2>2
<1>5. ASSUME NEW i \in 1..Len(longer), i % 2 = 0
      PROVE  Successor(messages, longer[i]) = IF i = Len(longer) THEN next ELSE longer[i + 1]
  <2>1. CASE i = Len(longer)
    <3>1. longer[i] = c
      BY <1>2, <2>1
    <3>2. QED  BY <2>1, <3>1
  <2>2. CASE i = Len(all)
    <3>1. i \in 1..Len(all) /\ i # Len(longer)
      BY <1>2, <1>5, <2>2
    <3>2. longer[i] = all[i] /\ longer[i + 1] = HeaderOf(c)
      BY <1>2, <2>2, <3>1
    <3>3. Successor(messages, all[i]) = place
      BY <1>5, <2>2, <3>1 DEF Chunked
    <3>4. QED  BY <3>1, <3>2, <3>3
  <2>3. CASE i # Len(longer) /\ i # Len(all)
    <3>1. /\ i \in 1..Len(all) /\ i + 1 \in 1..Len(all) /\ i # Len(all) /\ i # Len(longer)
      BY <1>2, <1>3, <1>5, <2>3
    <3>2. longer[i] = all[i] /\ longer[i + 1] = all[i + 1]
      BY <1>2, <3>1
    <3>3. Successor(messages, all[i]) = all[i + 1]
      BY <1>5, <3>1 DEF Chunked
    <3>4. QED  BY <3>1, <3>2, <3>3
  <2>4. QED  BY <2>1, <2>2, <2>3
<1>6. Len(longer) # 0
  BY <1>2
<1>7. QED  BY <1>3, <1>4, <1>5, <1>6 DEF Chunked, longer, pair

\* Empty messages are skipped, however many of them.
LEMMA SkipEmpty ==
    ASSUME NEW messages \in Seq(Message), NEW k \in 1..(Len(messages) + 1),
           NEW j \in k..(Len(messages) + 1), \A i \in k..(j - 1) : messages[i].size = 0
    PROVE  FirstToSend(messages, k) = FirstToSend(messages, j)
<1> DEFINE f == FirstToSend(messages, j)
<1>1. /\ f \in j..(Len(messages) + 1)
      /\ \A i \in j..(f - 1) : messages[i].size = 0
      /\ f <= Len(messages) => messages[f].size > 0
  BY NothingBefore
<1> HIDE DEF f
<1>2. f \in k..(Len(messages) + 1)
  BY <1>1
<1>3. \A i \in k..(f - 1) : messages[i].size = 0
  <2> SUFFICES ASSUME NEW i \in k..(f - 1) PROVE messages[i].size = 0
    OBVIOUS
  <2>1. i \in k..(j - 1) \/ i \in j..(f - 1)
    BY <1>2
  <2>2. QED  BY <1>1, <2>1
<1>4. FirstToSend(messages, k) = f
  BY <1>1, <1>2, <1>3, FirstToSendUnique
<1>5. QED  BY <1>4 DEF f

\* What was chunked of the messages given is chunked of them and those given next.
LEMMA ChunkedGrows ==
    ASSUME NEW messages \in Seq(Message), NEW group \in Seq(Message), NEW all,
           ASeq(all),
           Chunked(messages, all, [header |-> Len(messages) + 1, from |-> 0])
    PROVE  Chunked(messages \o group, all,
                   [header |-> FirstToSend(messages \o group, Len(messages) + 1), from |-> 0])
<1> DEFINE more == messages \o group
           n == Len(messages)
           end == [header |-> n + 1, from |-> 0]
           next == [header |-> FirstToSend(more, n + 1), from |-> 0]
<1>1. /\ more \in Seq(Message) /\ n \in Nat /\ Len(more) \in Nat /\ n <= Len(more)
      /\ \A i \in 1..n : more[i] = messages[i]
  BY ConcatProperties
<1> HIDE DEF more, next
<1>2. ASSUME NEW k \in 1..(n + 1)
      PROVE  FirstToSend(more, k) = IF FirstToSend(messages, k) <= n THEN FirstToSend(messages, k)
                                    ELSE FirstToSend(more, n + 1)
  <2> DEFINE f == FirstToSend(messages, k)
  <2>1. /\ f \in k..(n + 1) /\ \A i \in k..(f - 1) : messages[i].size = 0
        /\ f <= n => messages[f].size > 0
    BY NothingBefore
  <2> HIDE DEF f
  <2>2. k \in 1..(Len(more) + 1) /\ f \in k..(Len(more) + 1)
        /\ \A i \in k..(f - 1) : more[i].size = 0
    <3>1. \A i \in k..(f - 1) : i \in 1..n
      BY <1>1, <2>1
    <3>2. QED  BY <1>1, <2>1, <3>1
  <2>3. CASE f <= n
    <3>1. f <= Len(more) /\ more[f].size > 0
      BY <1>1, <2>1, <2>3
    <3>2. FirstToSend(more, k) = f
      BY <1>1, <2>2, <3>1, FirstToSendUnique
    <3>3. QED  BY <2>3, <3>2 DEF f
  <2>4. CASE ~(f <= n)
    <3>1. f = n + 1
      BY <1>1, <2>1, <2>4
    <3>2. FirstToSend(more, k) = FirstToSend(more, f)
      BY <1>1, <2>2, SkipEmpty
    <3>3. QED  BY <2>4, <3>1, <3>2 DEF f
  <2>5. QED  BY <2>3, <2>4
<1>3. ASSUME NEW c, PieceOf(messages, c)
      PROVE  /\ PieceOf(more, c)
             /\ Successor(messages, c).header <= n => Successor(more, c) = Successor(messages, c)
             /\ Successor(messages, c) = end => Successor(more, c) = next
  <2>1. /\ c \in Piece /\ c.payload \in 1..n /\ more[c.payload] = messages[c.payload]
        /\ c.from + c.size <= messages[c.payload].size
    BY <1>1, <1>3 DEF PieceOf, Piece
  <2>2. PieceOf(more, c)
    BY <1>1, <2>1 DEF PieceOf
  <2>3. CASE c.from + c.size < messages[c.payload].size
    <3>1. /\ Successor(more, c) = Successor(messages, c)
          /\ Successor(messages, c).header = c.payload
      BY <2>1, <2>3 DEF Successor
    <3>2. c.payload # n + 1
      BY <1>1, <2>1
    <3>3. Successor(messages, c) # end
      BY <3>1, <3>2
    <3>4. QED  BY <2>2, <3>1, <3>3
  <2>4. CASE ~(c.from + c.size < messages[c.payload].size)
    <3>1. c.payload + 1 \in 1..(n + 1)
      BY <1>1, <2>1
    <3>2. /\ Successor(messages, c) = [header |-> FirstToSend(messages, c.payload + 1), from |-> 0]
          /\ Successor(more, c) = [header |-> FirstToSend(more, c.payload + 1), from |-> 0]
      BY <2>1, <2>4 DEF Successor
    <3>3. FirstToSend(messages, c.payload + 1) \in Int
      BY <3>1, NothingBefore
    <3>4. Successor(messages, c).header = FirstToSend(messages, c.payload + 1)
      BY <3>2
    <3>5. Successor(messages, c).header <= n => Successor(more, c) = Successor(messages, c)
      BY <1>2, <3>1, <3>2, <3>4
    <3>6. Successor(messages, c) = end => Successor(more, c) = next
      <4> SUFFICES ASSUME Successor(messages, c) = end PROVE Successor(more, c) = next
        OBVIOUS
      <4>1. FirstToSend(messages, c.payload + 1) = n + 1
        BY <3>4
      <4>2. FirstToSend(more, c.payload + 1) = FirstToSend(more, n + 1)
        BY <1>1, <1>2, <3>1, <4>1
      <4>3. QED  BY <3>2, <4>2 DEF next
    <3>7. QED  BY <2>2, <3>5, <3>6
  <2>5. QED  BY <2>3, <2>4
<1>4. Len(all) \in Nat /\ Len(all) % 2 = 0
  BY DEF Chunked, ASeq
<1>5. ASSUME NEW i \in 1..Len(all), i % 2 = 0
      PROVE  PieceOf(messages, all[i])
  <2>1. i - 1 \in 1..(Len(all) - 1) /\ (i - 1) % 2 = 1 /\ (i - 1) + 1 = i
    BY <1>4, <1>5
  <2>2. QED  BY <2>1 DEF Chunked
<1>6. ASSUME NEW i \in 1..(Len(all) - 1), i % 2 = 1
      PROVE  PieceOf(more, all[i + 1]) /\ all[i] = HeaderOf(all[i + 1])
  <2>1. PieceOf(messages, all[i + 1]) /\ all[i] = HeaderOf(all[i + 1])
    BY <1>6 DEF Chunked
  <2>2. QED  BY <1>3, <2>1
<1>7. ASSUME NEW i \in 1..Len(all), i % 2 = 0
      PROVE  Successor(more, all[i]) = IF i = Len(all) THEN next ELSE all[i + 1]
  <2>1. CASE i = Len(all)
    <3>1. Successor(messages, all[i]) = end
      BY <1>7, <2>1 DEF Chunked
    <3>2. QED  BY <1>3, <1>5, <1>7, <2>1, <3>1
  <2>2. CASE i # Len(all)
    <3>1. Successor(messages, all[i]) = all[i + 1]
      BY <1>7, <2>2 DEF Chunked
    <3>2. i + 1 \in 1..(Len(all) - 1) /\ (i + 1) % 2 = 1
      BY <1>4, <1>7, <2>2, OddBehindEven
    <3>3. PieceOf(messages, all[(i + 1) + 1]) /\ all[i + 1] = HeaderOf(all[(i + 1) + 1])
      BY <3>2 DEF Chunked
    <3>4. all[i + 1].header <= n
      BY <3>3 DEF HeaderOf, PieceOf
    <3>5. QED  BY <1>3, <1>5, <1>7, <2>2, <3>1, <3>4
  <2>3. QED  BY <2>1, <2>2
<1>8. Len(all) = 0 => next = [header |-> FirstToSend(more, 1), from |-> 0]
  <2> SUFFICES ASSUME Len(all) = 0 PROVE next = [header |-> FirstToSend(more, 1), from |-> 0]
    OBVIOUS
  <2>1. end = [header |-> FirstToSend(messages, 1), from |-> 0]
    BY DEF Chunked
  <2>2. FirstToSend(messages, 1) = n + 1
    BY <2>1
  <2>3. FirstToSend(more, 1) = FirstToSend(more, n + 1)
    BY <1>1, <1>2, <2>2
  <2>4. QED  BY <2>3 DEF next
<1>9. Chunked(more, all, next)
  BY <1>4, <1>6, <1>7, <1>8 DEF Chunked
<1>10. QED  BY <1>9 DEF more, next

LEMMA WInitHolds == Init => WInv
<1> SUFFICES ASSUME Init PROVE WInv
  OBVIOUS
<1>1. IInv
  BY InitHolds
<1>2. /\ given = << >> /\ current = 1 /\ p = 0 /\ iovs = << >> /\ cur_iov = 0 /\ written = << >>
      /\ Len(given) = 0 /\ Len(iovs) = 0 /\ Len(written) = 0
  BY DEF Init
<1>3. Slices /\ IovsPoint /\ ASeq(written)
  BY <1>2, EmptyASeq DEF Slices, IovsPoint, PairsOf
<1>4. ASeq(Pending) /\ Len(Pending) = 0
  BY <1>2, EmptyASeq, PendingIsMeant DEF Pending, PairsOf
<1>5. ASeq(All) /\ Len(All) = 0
  BY <1>2, <1>3, <1>4, ConcatASeq DEF All
<1>6. given \in Seq(Message)
  BY <1>1 DEF IInv, Types
<1>7. FirstToSend(given, 1) = 1
  <2>1. 1 \in 1..(Len(given) + 1)
    BY <1>2
  <2>2. FirstToSend(given, 1) \in 1..(Len(given) + 1)
    BY <1>6, <2>1, NothingBefore
  <2>3. QED  BY <1>2, <2>2
<1>8. Chunked(given, All, Place)
  BY <1>2, <1>5, <1>7 DEF Chunked, Place
<1>9. QED  BY <1>1, <1>3, <1>8 DEF WInv

LEMMA WSendHolds ==
    ASSUME WInv, NEW group \in Groups, NEW chunk_size \in ChunkSizes, Send(group, chunk_size)
    PROVE  WInv'
<1>1. IInv'
  BY SendHolds DEF WInv
<1>2. /\ given \in Seq(Message) /\ group \in Seq(Message) /\ given' = given \o group
      /\ given' \in Seq(Message)
  BY <1>1, CachesAssumption DEF Send, WInv, IInv, Types, Message
<1>3. /\ pc = "idle" /\ current = Len(given) + 1 /\ p = 0
      /\ current' = FirstToSend(given', Len(given) + 1) /\ p' = 0
      /\ pc' = IF current' <= Len(given') THEN "filling" ELSE "idle"
      /\ UNCHANGED <<iovs, out_c0c3_caches, c0c3_cache_index, cur_iov, written>>
  BY DEF Send, WInv, Slices
<1>4. IovsPoint' /\ ASeq(written)' /\ All' = All
  BY <1>3 DEF WInv, IovsPoint, All, Pending
<1>5. ASeq(All)
  <2>1. ASeq(iovs) /\ Len(iovs) % 2 = 0 /\ cur_iov \in 0..Len(iovs)
    BY SeqIsASeq DEF WInv, IInv, Types, Pairs
  <2>2. ASeq(Pending)
    BY <2>1, PendingIsMeant DEF Pending, WInv, IovsPoint
  <2>3. QED  BY <2>2, ConcatASeq DEF All, WInv
<1>6. Place = [header |-> Len(given) + 1, from |-> 0]
  BY <1>3 DEF Place
<1>7. Chunked(given \o group, All, [header |-> FirstToSend(given \o group, Len(given) + 1),
                                     from |-> 0])
  BY <1>2, <1>5, <1>6, ChunkedGrows DEF WInv
<1>8. Chunked(given', All', Place')
  BY <1>2, <1>3, <1>4, <1>7 DEF Place
<1>9. Slices'
  <2>1. current' \in Nat /\ current' <= Len(given') + 1 /\ Len(given') \in Nat
    BY <1>1 DEF IInv, Types, AtAMessage
  <2>2. (pc' = "idle" => current' = Len(given') + 1) /\ p' = 0
    BY <1>3, <2>1
  <2>3. iov_index' < IovLimit => cur_iov' = 0
    BY <1>3 DEF WInv, Slices
  <2>4. QED  BY <2>2, <2>3 DEF Slices
<1>10. QED  BY <1>1, <1>4, <1>8, <1>9 DEF WInv

NewHeader == [at |-> c0c3_cache_index, len |-> HeaderSize(given[current], p = 0)]
NewPiece == [payload |-> current, from |-> p,
             size |-> Min2(out_chunk_size, given[current].size - p)]

\* What a round of the inner loop adds.
LEMMA FillPairAdds ==
    ASSUME WInv, FillPair
    PROVE  /\ pc = "filling" /\ cur_iov = 0 /\ cur_iov' = 0
           /\ given' = given /\ given \in Seq(Message) /\ written' = written
           /\ PieceOf(given, NewPiece)
           /\ Place = HeaderOf(NewPiece) /\ Place' = Successor(given, NewPiece)
           /\ NewHeader \in [at : Nat, len : Nat \ {0}]
           /\ c0c3_cache_index' = NewHeader.at + NewHeader.len
           /\ NewHeader.at = c0c3_cache_index
           /\ c0c3_cache_index' <= SRS_CONSTS_C0C3_HEADERS_MAX
           /\ iovs' = iovs \o <<NewHeader, NewPiece>>
           /\ out_c0c3_caches' =
                [b \in Cache |-> IF b \in NewHeader.at..(NewHeader.at + NewHeader.len - 1)
                                 THEN HeaderOf(NewPiece) ELSE out_c0c3_caches[b]]
<1> DEFINE message == given[current]
           size == Min2(out_chunk_size, message.size - p)
           nbh == HeaderSize(message, p = 0)
<1>1. /\ pc = "filling" /\ current \in 1..Len(given) /\ p \in Nat /\ p < message.size
      /\ c0c3_cache_index + 16 <= SRS_CONSTS_C0C3_HEADERS_MAX /\ c0c3_cache_index \in Nat
      /\ cur_iov = 0 /\ given \in Seq(Message) /\ out_chunk_size \in Nat \ {0}
  BY DEF WInv, IInv, FillPair, AtAMessage, Types, NextPairFits, CachesReset
<1>2. message \in Message
  BY <1>1, ElementOfSeq
<1>3. nbh \in 1..16
  BY <1>2 DEF HeaderSize, Message
<1>4. size \in Nat \ {0} /\ p + size <= message.size
  BY <1>1, <1>2 DEF Min2, Message
<1>5. /\ cur_iov' = cur_iov /\ given' = given /\ written' = written
      /\ c0c3_cache_index' = c0c3_cache_index + nbh
      /\ p' = IF p + size = message.size THEN 0 ELSE p + size
      /\ current' = IF p + size = message.size THEN FirstToSend(given, current + 1) ELSE current
  BY DEF FillPair
<1>6. iovs' = iovs \o <<NewHeader, NewPiece>>
  BY DEF FillPair, NewHeader, NewPiece
<1>7. /\ NewPiece = [payload |-> current, from |-> p, size |-> size]
      /\ NewHeader = [at |-> c0c3_cache_index, len |-> nbh]
  BY DEF NewPiece, NewHeader
<1>8. out_c0c3_caches' =
          [b \in Cache |-> IF b \in c0c3_cache_index..(c0c3_cache_index + nbh - 1)
                           THEN [header |-> current, from |-> p] ELSE out_c0c3_caches[b]]
  BY DEF FillPair
<1> HIDE DEF size, nbh
<1>9. message.size \in Nat
  BY <1>2 DEF Message
<1>10. PieceOf(given, NewPiece)
  BY <1>1, <1>4, <1>7 DEF PieceOf, Piece
<1>11. Place = HeaderOf(NewPiece)
  BY <1>7 DEF Place, HeaderOf
<1>12. Place' = Successor(given, NewPiece)
  <2>1. NewPiece.payload = current /\ NewPiece.from = p /\ NewPiece.size = size
    BY <1>7
  <2>2. p + size < message.size <=> p + size # message.size
    BY <1>1, <1>4, <1>9
  <2>3. QED  BY <1>5, <2>1, <2>2 DEF Place, Successor
<1>13. /\ NewHeader \in [at : Nat, len : Nat \ {0}] /\ NewHeader.at = c0c3_cache_index
       /\ NewHeader.len = nbh
  BY <1>1, <1>3, <1>7
<1>14. c0c3_cache_index' <= SRS_CONSTS_C0C3_HEADERS_MAX
  BY <1>1, <1>3, <1>5, CachesAssumption
<1>15. out_c0c3_caches' =
          [b \in Cache |-> IF b \in NewHeader.at..(NewHeader.at + NewHeader.len - 1)
                           THEN HeaderOf(NewPiece) ELSE out_c0c3_caches[b]]
  <2>1. HeaderOf(NewPiece) = [header |-> current, from |-> p]
    BY <1>7 DEF HeaderOf
  <2>2. QED  BY <1>8, <1>13, <2>1
<1>16. QED
  BY <1>1, <1>5, <1>6, <1>10, <1>11, <1>12, <1>13, <1>14, <1>15

\* The pairs in front keep their headers, the new one has its own.
LEMMA PairsGrow ==
    ASSUME NEW s, ASeq(s), Len(s) % 2 = 0, NEW caches, NEW index \in Nat,
           PairsOf(s, caches, index), NEW h \in [at : Nat, len : Nat \ {0}], NEW c \in Piece,
           h.at = index, h.at + h.len <= SRS_CONSTS_C0C3_HEADERS_MAX,
           NEW after,
           after = [b \in Cache |-> IF b \in h.at..(h.at + h.len - 1) THEN HeaderOf(c)
                                    ELSE caches[b]]
    PROVE  PairsOf(s \o <<h, c>>, after, h.at + h.len)
<1> DEFINE pair == <<h, c>>
           longer == s \o pair
<1>1. ASeq(pair) /\ Len(pair) = 2 /\ pair[1] = h /\ pair[2] = c
  BY DEF ASeq
<1>2. /\ Len(longer) = Len(s) + 2 /\ Len(s) \in Nat
      /\ \A k \in 1..Len(s) : longer[k] = s[k]
      /\ longer[Len(s) + 1] = h /\ longer[Len(s) + 2] = c
  <2>1. /\ Len(longer) = Len(s) + Len(pair)
        /\ \A k \in 1..Len(s) : longer[k] = s[k]
        /\ \A k \in 1..Len(pair) : longer[Len(s) + k] = pair[k]
    BY <1>1, ConcatASeq
  <2> HIDE DEF longer, pair
  <2>2. QED  BY <1>1, <2>1 DEF ASeq
<1> HIDE DEF longer, pair
<1>3. h.at \in Nat /\ h.len \in Nat \ {0} /\ SRS_CONSTS_C0C3_HEADERS_MAX \in Nat
  BY CachesAssumption
<1>4. ASSUME NEW k \in 1..(Len(longer) - 1), k % 2 = 1
      PROVE  PairAt(longer, k, after, h.at + h.len)
  <2>1. CASE k = Len(s) + 1
    <3>1. longer[k] = h /\ longer[k + 1] = c
      <4>1. k + 1 = Len(s) + 2
        BY <1>2, <2>1
      <4>2. QED  BY <1>2, <2>1, <4>1
    <3>2. ASSUME NEW b \in h.at..(h.at + h.len - 1) PROVE after[b] = HeaderOf(c)
      <4>1. b \in Cache
        BY <1>3 DEF Cache
      <4>2. QED  BY <4>1
    <3>3. h.at + h.len <= h.at + h.len
      BY <1>3
    <3>4. QED  BY <3>1, <3>2, <3>3 DEF PairAt
  <2>2. CASE k # Len(s) + 1
    <3>1. k \in 1..(Len(s) - 1) /\ k \in 1..Len(s) /\ k + 1 \in 1..Len(s)
      BY SMTT(30), <1>2, <1>4, <2>2
    <3>2. longer[k] = s[k] /\ longer[k + 1] = s[k + 1]
      BY <1>2, <3>1
    <3>3. PairAt(s, k, caches, index)
      BY <1>4, <3>1 DEF PairsOf
    <3>4. /\ s[k + 1] \in Piece /\ s[k] \in [at : Nat, len : Nat \ {0}]
          /\ s[k].at + s[k].len <= index
          /\ \A b \in s[k].at..(s[k].at + s[k].len - 1) : caches[b] = HeaderOf(s[k + 1])
      BY <3>3 DEF PairAt
    <3>5. s[k].at \in Nat /\ s[k].len \in Nat \ {0}
      BY <3>4
    <3>6. ASSUME NEW b \in s[k].at..(s[k].at + s[k].len - 1)
          PROVE  after[b] = HeaderOf(s[k + 1])
      <4>1. b \in Cache /\ ~(b \in h.at..(h.at + h.len - 1))
        BY SMTT(30), <1>3, <3>4, <3>5 DEF Cache
      <4>2. after[b] = caches[b]
        BY <4>1
      <4>3. QED  BY <3>4, <4>2
    <3>7. s[k].at + s[k].len <= h.at + h.len
      BY <1>3, <3>4, <3>5
    <3>8. QED  BY <3>2, <3>4, <3>6, <3>7 DEF PairAt
  <2>3. QED  BY <2>1, <2>2
<1>5. QED  BY <1>4 DEF PairsOf, longer, pair

LEMMA WFillPairHolds ==
    ASSUME WInv, FillPair
    PROVE  WInv'
<1> DEFINE pair == <<HeaderOf(NewPiece), NewPiece>>
<1>1. IInv'
  BY FillPairHolds DEF WInv
<1>2. /\ ASeq(iovs) /\ Len(iovs) % 2 = 0 /\ Len(iovs) \in Nat /\ c0c3_cache_index \in Nat
      /\ ASeq(written) /\ IovsPoint
  BY SeqIsASeq DEF WInv, IInv, Types, Pairs
<1>3. /\ pc = "filling" /\ cur_iov = 0 /\ cur_iov' = 0 /\ written' = written
      /\ given' = given /\ given \in Seq(Message)
      /\ iovs' = iovs \o <<NewHeader, NewPiece>>
      /\ PieceOf(given, NewPiece) /\ Place = HeaderOf(NewPiece)
      /\ Place' = Successor(given, NewPiece)
  BY FillPairAdds
<1>4. NewPiece \in Piece
  BY <1>3 DEF PieceOf
<1>5. IovsPoint'
  <2>1. /\ NewHeader \in [at : Nat, len : Nat \ {0}] /\ NewHeader.at = c0c3_cache_index
        /\ c0c3_cache_index' = NewHeader.at + NewHeader.len
        /\ NewHeader.at + NewHeader.len <= SRS_CONSTS_C0C3_HEADERS_MAX
        /\ out_c0c3_caches' =
             [b \in Cache |-> IF b \in NewHeader.at..(NewHeader.at + NewHeader.len - 1)
                              THEN HeaderOf(NewPiece) ELSE out_c0c3_caches[b]]
    BY FillPairAdds
  <2>2. PairsOf(iovs, out_c0c3_caches, c0c3_cache_index)
    BY <1>2 DEF IovsPoint
  <2>3. PairsOf(iovs \o <<NewHeader, NewPiece>>, out_c0c3_caches', NewHeader.at + NewHeader.len)
    BY <1>2, <1>4, <2>1, <2>2, PairsGrow
  <2>4. QED  BY <1>3, <2>1, <2>3 DEF IovsPoint
<1>6. /\ ASeq(iovs') /\ Len(iovs') = Len(iovs) + 2
      /\ \A k \in 1..Len(iovs) : iovs'[k] = iovs[k]
      /\ iovs'[Len(iovs) + 1] = NewHeader /\ iovs'[Len(iovs) + 2] = NewPiece
  <2> DEFINE new == <<NewHeader, NewPiece>>
  <2>1. ASeq(new) /\ Len(new) = 2 /\ new[1] = NewHeader /\ new[2] = NewPiece
    BY DEF ASeq
  <2> HIDE DEF new
  <2>2. /\ ASeq(iovs \o new) /\ Len(iovs \o new) = Len(iovs) + Len(new)
        /\ \A k \in 1..Len(iovs) : (iovs \o new)[k] = iovs[k]
        /\ \A k \in 1..Len(new) : (iovs \o new)[Len(iovs) + k] = new[k]
    <3>1. ASeq(iovs) /\ ASeq(new)
      BY <1>2, <2>1
    <3>2. QED  BY <3>1, ConcatASeq
  <2>3. iovs' = iovs \o new
    BY <1>3 DEF new
  <2>4. QED  BY <2>1, <2>2, <2>3
<1>7. /\ ASeq(Pending) /\ Len(Pending) = Len(iovs)
      /\ \A k \in 1..Len(iovs) : Pending[k] = Meant(iovs, k)
  <2>1. 0 \in 0..Len(iovs) /\ Len(iovs) - 0 = Len(iovs)
    BY <1>2
  <2>2. /\ ASeq(PendingOf(iovs, 0, out_c0c3_caches))
        /\ Len(PendingOf(iovs, 0, out_c0c3_caches)) = Len(iovs) - 0
        /\ \A k \in 1..(Len(iovs) - 0) :
              PendingOf(iovs, 0, out_c0c3_caches)[k] = Meant(iovs, 0 + k)
    BY <1>2, <2>1, PendingIsMeant DEF IovsPoint
  <2>3. Pending = PendingOf(iovs, 0, out_c0c3_caches)
    BY <1>3 DEF Pending
  <2>4. \A k \in 1..Len(iovs) : 0 + k = k
    BY <1>2
  <2>5. QED  BY <2>1, <2>2, <2>3, <2>4
<1>8. /\ ASeq(Pending') /\ Len(Pending') = Len(iovs) + 2
      /\ \A k \in 1..(Len(iovs) + 2) : Pending'[k] = Meant(iovs', k)
  <2> DEFINE late == PendingOf(iovs', 0, out_c0c3_caches')
  <2>1. 0 \in 0..Len(iovs') /\ Len(iovs') - 0 = Len(iovs) + 2 /\ Len(iovs') % 2 = 0
    BY <1>2, <1>6
  <2>2. /\ ASeq(late) /\ Len(late) = Len(iovs') - 0
        /\ \A k \in 1..(Len(iovs') - 0) : late[k] = Meant(iovs', 0 + k)
    BY <1>5, <1>6, <2>1, PendingIsMeant DEF IovsPoint
  <2>3. Pending' = late
    BY <1>3 DEF Pending
  <2>4. \A k \in 1..(Len(iovs) + 2) : 0 + k = k
    BY <1>2
  <2> HIDE DEF late
  <2>5. QED  BY <2>1, <2>2, <2>3, <2>4
<1>9. /\ ASeq(pair) /\ Len(pair) = 2 /\ pair[1] = HeaderOf(NewPiece) /\ pair[2] = NewPiece
  BY DEF ASeq
<1> HIDE DEF pair
<1>10. Pending' = Pending \o pair
  <2>1. /\ ASeq(Pending \o pair) /\ Len(Pending \o pair) = Len(Pending) + Len(pair)
        /\ \A k \in 1..Len(Pending) : (Pending \o pair)[k] = Pending[k]
        /\ \A k \in 1..Len(pair) : (Pending \o pair)[Len(Pending) + k] = pair[k]
    <3>1. ASeq(Pending) /\ ASeq(pair)
      BY <1>7, <1>9
    <3>2. QED  BY <3>1, ConcatASeq
  <2>2. ASSUME NEW k \in 1..(Len(iovs) + 2) PROVE Pending'[k] = (Pending \o pair)[k]
    <3>1. Pending'[k] = Meant(iovs', k)
      BY <1>8
    <3>2. CASE k = Len(iovs) + 1
      <4>1. k % 2 = 1 /\ k + 1 = Len(iovs) + 2
        BY <1>2, <3>2
      <4>2. Meant(iovs', k) = HeaderOf(NewPiece)
        BY <1>6, <4>1 DEF Meant
      <4>3. (Pending \o pair)[k] = HeaderOf(NewPiece)
        BY <1>7, <1>9, <2>1, <3>2
      <4>4. QED  BY <3>1, <4>2, <4>3
    <3>3. CASE k = Len(iovs) + 2
      <4>1. k % 2 # 1
        BY <1>2, <3>3
      <4>2. Meant(iovs', k) = NewPiece
        BY <1>6, <3>3, <4>1 DEF Meant
      <4>3. (Pending \o pair)[k] = NewPiece
        BY <1>7, <1>9, <2>1, <3>3
      <4>4. QED  BY <3>1, <4>2, <4>3
    <3>4. CASE k \in 1..Len(iovs)
      <4>1. k % 2 = 1 => k + 1 \in 1..Len(iovs)
        BY <1>2, <3>4
      <4>2. Meant(iovs', k) = Meant(iovs, k)
        BY <1>6, <3>4, <4>1 DEF Meant
      <4>3. (Pending \o pair)[k] = Meant(iovs, k)
        BY <1>7, <2>1, <3>4
      <4>4. QED  BY <3>1, <4>2, <4>3
    <3>5. k = Len(iovs) + 1 \/ k = Len(iovs) + 2 \/ k \in 1..Len(iovs)
      BY <1>2
    <3>6. QED  BY <3>2, <3>3, <3>4, <3>5
  <2>3. Len(Pending \o pair) = Len(iovs) + 2
    BY <1>7, <1>9, <2>1
  <2>4. QED  BY <1>8, <2>1, <2>2, <2>3, SameElements
<1>11. All' = All \o pair
  <2>1. written \o (Pending \o pair) = (written \o Pending) \o pair
    BY SMTT(30), <1>2, <1>7, PairAppended DEF pair
  <2>2. QED  BY <1>3, <1>10, <2>1 DEF All
<1>12. ASeq(All)
  BY <1>2, <1>7, ConcatASeq DEF All
<1>13. Chunked(given, All \o pair, Place')
  BY <1>3, <1>12, ChunkedExtends DEF pair, WInv
<1>14. Chunked(given', All', Place') /\ ASeq(written')
  BY <1>2, <1>3, <1>11, <1>13
<1>15. Slices'
  <2>1. pc' # "idle"
    BY DEF FillPair
  <2>2. current' = Len(given') + 1 => p' = 0
    <3> SUFFICES ASSUME current' = Len(given) + 1 PROVE p' = 0
      BY <1>3
    <3>1. Place'.header = Len(given) + 1 /\ p' = Place'.from
      BY DEF Place
    <3>2. NewPiece.payload # Len(given) + 1
      BY <1>3 DEF PieceOf, Piece
    <3>3. Successor(given, NewPiece).header = Len(given) + 1
      BY <1>3, <3>1
    <3>4. Successor(given, NewPiece).from = 0
      BY <3>2, <3>3 DEF Successor
    <3>5. QED  BY <1>3, <3>1, <3>4
  <2>3. QED  BY <1>3, <2>1, <2>2 DEF Slices
<1>16. QED  BY <1>1, <1>5, <1>14, <1>15 DEF WInv

\* What a writev() takes: at least one iov, none that was written, and no more than the limit.
LEMMA SliceFits ==
    ASSUME WInv, WriteSlice
    PROVE  /\ SliceCount \in 1..IovLimit /\ cur_iov + SliceCount <= Len(iovs)
           /\ iov_index < IovLimit => SliceCount = Len(iovs)
<1>1. /\ cur_iov \in Nat /\ Len(iovs) \in Nat /\ cur_iov < Len(iovs)
      /\ iov_index < IovLimit => cur_iov = 0
  BY DEF WriteSlice, WInv, IInv, Types, CachesReset, Slices
<1>2. IovLimit \in Nat \ {0}
  BY CachesAssumption
<1>3. QED  BY <1>1, <1>2 DEF SliceCount, Min2

\* m iovs from n on may be written to what w is.
Writable(w, s, caches, index, n, m) ==
    /\ ASeq(w) /\ ASeq(s) /\ Len(s) % 2 = 0 /\ PairsOf(s, caches, index)
    /\ n \in Nat /\ m \in Nat /\ n + m <= Len(s)

\* A slice that is written is taken from what was to be written.
LEMMA SliceMoves ==
    ASSUME NEW w, NEW s, NEW caches, NEW index, NEW n, NEW m,
           Writable(w, s, caches, index, n, m)
    PROVE  /\ ASeq(w \o SliceOf(s, n, m, caches))
           /\ (w \o SliceOf(s, n, m, caches)) \o PendingOf(s, n + m, caches)
                 = w \o PendingOf(s, n, caches)
<1> DEFINE slice == SliceOf(s, n, m, caches)
<1>1. /\ ASeq(w) /\ ASeq(s) /\ Len(s) % 2 = 0 /\ PairsOf(s, caches, index)
       /\ n \in Nat /\ m \in Nat /\ n + m <= Len(s)
  BY DEF Writable
<1>2. Len(s) \in Nat /\ n + m \in 0..Len(s) /\ n \in 0..Len(s)
  BY <1>1 DEF ASeq
<1>3. ASeq(slice) /\ Len(slice) = m
  BY <1>1, FunctionIsASeq DEF SliceOf
<1>4. \A k \in 1..m : slice[k] = Points(s[n + k], caches)
  BY DEF SliceOf
<1> HIDE DEF slice
<1> DEFINE rest == PendingOf(s, n + m, caches)
           pending == PendingOf(s, n, caches)
<1>5. /\ ASeq(pending) /\ Len(pending) = Len(s) - n
      /\ \A k \in 1..(Len(s) - n) : pending[k] = Points(s[n + k], caches)
  BY <1>2, <1>1, PendingIsMeant DEF PendingOf
<1>6. /\ ASeq(rest) /\ Len(rest) = Len(s) - (n + m)
      /\ \A k \in 1..(Len(s) - (n + m)) : rest[k] = Points(s[(n + m) + k], caches)
  BY <1>2, <1>1, PendingIsMeant DEF PendingOf
<1> HIDE DEF rest, pending
<1> DEFINE head == w \o slice
           whole == head \o rest
           same == w \o pending
<1>7. /\ ASeq(head) /\ Len(head) = Len(w) + m
      /\ \A k \in 1..Len(w) : head[k] = w[k]
      /\ \A k \in 1..m : head[Len(w) + k] = slice[k]
  <2>1. ASeq(w) /\ ASeq(slice) /\ Len(slice) = m
    BY <1>3, <1>1
  <2> HIDE DEF head
  <2>2. /\ ASeq(head) /\ Len(head) = Len(w) + Len(slice)
        /\ \A k \in 1..Len(w) : head[k] = w[k]
        /\ \A k \in 1..Len(slice) : head[Len(w) + k] = slice[k]
    BY <2>1, ConcatASeq DEF head
  <2>3. QED  BY <2>1, <2>2
<1> HIDE DEF head
<1>8. /\ ASeq(whole) /\ Len(whole) = Len(head) + Len(rest)
      /\ \A k \in 1..Len(head) : whole[k] = head[k]
      /\ \A k \in 1..Len(rest) : whole[Len(head) + k] = rest[k]
  <2>1. ASeq(head) /\ ASeq(rest)
    BY <1>6, <1>7
  <2>2. QED  BY <2>1, ConcatASeq
<1>9. /\ ASeq(same) /\ Len(same) = Len(w) + Len(pending)
      /\ \A k \in 1..Len(w) : same[k] = w[k]
      /\ \A k \in 1..Len(pending) : same[Len(w) + k] = pending[k]
  <2>1. ASeq(w) /\ ASeq(pending)
    BY <1>5, <1>1
  <2>2. QED  BY <2>1, ConcatASeq
<1> HIDE DEF whole, same
<1>10. Len(w) \in Nat /\ n \in Nat /\ m \in Nat
  BY <1>1 DEF ASeq
<1>11. ASSUME NEW k \in 1..(Len(w) + (Len(s) - n))
      PROVE  whole[k] = same[k]
  <2>1. CASE k \in 1..Len(w)
    <3>1. k \in 1..(Len(w) + m)
      BY <1>10, <2>1
    <3>2. QED  BY <1>7, <1>8, <1>9, <2>1, <3>1
  <2>2. CASE k \in (Len(w) + 1)..(Len(w) + m)
    <3>1. PICK j \in 1..m : k = Len(w) + j
      <4>1. k - Len(w) \in 1..m /\ k = Len(w) + (k - Len(w))
        BY <1>10, <2>2
      <4>2. QED  BY <4>1
    <3>2. k \in 1..(Len(w) + m) /\ j \in 1..(Len(s) - n)
      <4>1. k \in 1..(Len(w) + m)
        BY <1>10, <2>2
      <4>2. m <= Len(s) - n
        BY <1>2, <1>1
      <4>3. QED  BY <1>2, <1>10, <4>1, <4>2
    <3>3. whole[k] = slice[j]
      BY <1>7, <1>8, <3>1, <3>2
    <3>4. same[k] = pending[j]
      BY <1>5, <1>9, <3>1, <3>2
    <3>5. slice[j] = Points(s[n + j], caches)
      BY <1>4
    <3>6. QED  BY <1>5, <3>2, <3>3, <3>4, <3>5
  <2>3. CASE k \in (Len(w) + m + 1)..(Len(w) + (Len(s) - n))
    <3>1. PICK j \in 1..(Len(s) - (n + m)) : k = (Len(w) + m) + j
      <4>1. /\ k - (Len(w) + m) \in 1..(Len(s) - (n + m))
            /\ k = (Len(w) + m) + (k - (Len(w) + m))
        BY <1>2, <1>10, <2>3
      <4>2. QED  BY <4>1
    <3>2. /\ m + j \in 1..(Len(s) - n) /\ k = Len(w) + (m + j) /\ n + (m + j) = (n + m) + j
      BY <1>2, <1>10, <3>1
    <3>3. whole[k] = rest[j]
      <4>1. k = Len(head) + j /\ j \in 1..Len(rest)
        BY <1>6, <1>7, <3>1
      <4>2. QED  BY <1>8, <4>1
    <3>4. same[k] = pending[m + j]
      BY <1>5, <1>9, <3>2
    <3>5. rest[j] = Points(s[(n + m) + j], caches)
      BY <1>6
    <3>6. pending[m + j] = Points(s[n + (m + j)], caches)
      BY <1>5, <3>2
    <3>7. QED  BY <3>2, <3>3, <3>4, <3>5, <3>6
  <2>4. \/ k \in 1..Len(w)
        \/ k \in (Len(w) + 1)..(Len(w) + m)
        \/ k \in (Len(w) + m + 1)..(Len(w) + (Len(s) - n))
    BY <1>2, <1>10
  <2>5. QED  BY <2>1, <2>2, <2>3, <2>4
<1>12. /\ Len(whole) = Len(w) + (Len(s) - n)
       /\ Len(same) = Len(w) + (Len(s) - n)
  <2>1. Len(whole) = (Len(w) + m) + (Len(s) - (n + m))
    BY <1>6, <1>7, <1>8
  <2>2. Len(same) = Len(w) + (Len(s) - n)
    BY <1>5, <1>9
  <2>3. QED  BY <1>2, <1>10, <2>1, <2>2
<1>13. whole = same
  BY <1>8, <1>9, <1>11, <1>12, SameElements
<1>14. QED  BY <1>3, <1>7, <1>13 DEF rest, pending, head, whole, same, slice

LEMMA WWriteSliceHolds ==
    ASSUME WInv, WriteSlice
    PROVE  WInv'
<1> DEFINE slice == [k \in 1..SliceCount |-> Points(iovs[cur_iov + k], out_c0c3_caches)]
<1>1. IInv'
  BY WriteSliceHolds DEF WInv
<1>2. /\ pc = "writing" /\ ASeq(iovs) /\ Len(iovs) \in Nat /\ Len(iovs) % 2 = 0
      /\ cur_iov \in 0..Len(iovs) /\ ASeq(written) /\ given \in Seq(Message)
      /\ PairsOf(iovs, out_c0c3_caches, c0c3_cache_index)
      /\ current \in Nat /\ Len(given) \in Nat /\ current <= Len(given) + 1
      /\ current <= Len(given) => p < given[current].size
  <2>1. IInv /\ pc = "writing" /\ ASeq(written)
        /\ PairsOf(iovs, out_c0c3_caches, c0c3_cache_index)
    BY DEF WriteSlice, WInv, IovsPoint
  <2>2. /\ given \in Seq(Message) /\ iovs \in Seq(Iov) /\ Len(iovs) % 2 = 0
        /\ current \in Nat /\ cur_iov \in Nat /\ cur_iov <= Len(iovs)
    BY <2>1 DEF IInv, Types, Pairs
  <2>3. current <= Len(given) + 1 /\ (current <= Len(given) => p < given[current].size)
    BY <2>1 DEF IInv, AtAMessage
  <2>4. ASeq(iovs) /\ Len(iovs) \in Nat /\ Len(given) \in Nat
    BY <2>2, SeqIsASeq
  <2>5. QED  BY <2>1, <2>2, <2>3, <2>4
<1>3. SliceCount \in Nat /\ cur_iov + SliceCount <= Len(iovs)
  BY SliceFits, CachesAssumption
<1>4. /\ UNCHANGED <<given, current, p, out_c0c3_caches>>
      /\ written' = written \o [k \in 1..SliceCount |-> Content(iovs[cur_iov + k])]
  BY DEF WriteSlice
<1>5. written' = written \o slice
  BY <1>4 DEF Content, Points
<1> HIDE DEF slice
<1>6. /\ ASeq(written')
      /\ written' \o PendingOf(iovs, cur_iov + SliceCount, out_c0c3_caches) = All
  <2> DEFINE n == cur_iov
             m == SliceCount
             caches == out_c0c3_caches
  <2>1. n \in Nat /\ m \in Nat /\ n + m <= Len(iovs)
    BY <1>2, <1>3
  <2>2. slice = SliceOf(iovs, n, m, caches)
    BY DEF slice, SliceOf
  <2>3. PairsOf(iovs, caches, c0c3_cache_index)
    BY <1>2
  <2> HIDE DEF n, m, caches
  <2>4. /\ ASeq(written \o SliceOf(iovs, n, m, caches))
        /\ (written \o SliceOf(iovs, n, m, caches)) \o PendingOf(iovs, n + m, caches)
              = written \o PendingOf(iovs, n, caches)
    <3>1. ASeq(written) /\ ASeq(iovs) /\ Len(iovs) % 2 = 0
      BY <1>2
    <3>2. Writable(written, iovs, caches, c0c3_cache_index, n, m)
      BY <2>1, <2>3, <3>1 DEF Writable
    <3>3. QED  BY <3>2, SliceMoves
  <2>5. QED  BY <1>5, <2>2, <2>4 DEF All, Pending, n, m, caches
<1>7. CASE cur_iov + SliceCount < iov_index
  <2>1. cur_iov' = cur_iov + SliceCount /\ UNCHANGED <<iovs, c0c3_cache_index, pc>>
    BY <1>7 DEF WriteSlice
  <2>2. All' = All
    BY <1>4, <1>6, <2>1 DEF All, Pending
  <2>3. IovsPoint'
    BY <1>2, <1>4, <2>1 DEF IovsPoint
  <2>4. Chunked(given', All', Place')
    BY <1>4, <2>2 DEF WInv, Place
  <2>5. Slices'
    <3>1. ~(iov_index < IovLimit)
      <4> SUFFICES ASSUME iov_index < IovLimit PROVE FALSE
        OBVIOUS
      <4>1. SliceCount = Len(iovs)
        BY SliceFits
      <4>2. QED  BY <1>2, <1>7, <4>1
    <3>2. iov_index' = iov_index
      BY <2>1
    <3>3. QED  BY <1>2, <1>4, <2>1, <3>1, <3>2 DEF WInv, Slices
  <2>6. QED  BY <1>1, <1>6, <2>3, <2>4, <2>5 DEF WInv
<1>8. CASE ~(cur_iov + SliceCount < iov_index)
  <2>1. /\ cur_iov' = 0 /\ iovs' = << >> /\ c0c3_cache_index' = 0
        /\ pc' = IF current <= Len(given) THEN "filling" ELSE "idle"
    BY <1>8 DEF WriteSlice, ResetCaches
  <2>2. cur_iov + SliceCount = Len(iovs)
    BY <1>2, <1>3, <1>8
  <2>3. Len(iovs') = 0 /\ ASeq(iovs')
    BY <2>1, EmptyASeq
  <2>4. IovsPoint'
    BY <2>3 DEF IovsPoint, PairsOf
  <2>5. All' = All
    <3> DEFINE before == PendingOf(iovs, Len(iovs), out_c0c3_caches)
               after == PendingOf(iovs', 0, out_c0c3_caches')
    <3>1. ASeq(before) /\ Len(before) = Len(iovs) - Len(iovs)
      <4>1. Len(iovs) \in 0..Len(iovs)
        BY <1>2
      <4>2. QED  BY <1>2, <4>1, PendingIsMeant
    <3>2. ASeq(after) /\ Len(after) = Len(iovs') - 0
      <4>1. 0 \in 0..Len(iovs') /\ Len(iovs') % 2 = 0
        BY <2>3
      <4>2. PairsOf(iovs', out_c0c3_caches', c0c3_cache_index')
        BY <2>4 DEF IovsPoint
      <4>3. QED  BY <2>3, <4>1, <4>2, PendingIsMeant
    <3> HIDE DEF before, after
    <3>3. Len(before) = 0 /\ Len(after) = 0
      BY <1>2, <2>3, <3>1, <3>2
    <3>4. before = after
      BY <3>1, <3>2, <3>3, SameElements
    <3>5. All' = written' \o after
      BY <2>1 DEF All, Pending, after
    <3>6. All = written' \o before
      BY <1>6, <2>2 DEF before
    <3>7. QED  BY <3>4, <3>5, <3>6
  <2>6. Chunked(given', All', Place')
    BY <1>4, <2>5 DEF WInv, Place
  <2>7. Slices'
    <3>1. pc' = "idle" => current' = Len(given') + 1
      BY <1>2, <1>4, <2>1
    <3>2. current' = Len(given') + 1 => p' = 0
      BY <1>4 DEF WInv, Slices
    <3>3. QED  BY <2>1, <3>1, <3>2 DEF Slices
  <2>8. QED  BY <1>1, <1>6, <2>4, <2>6, <2>7 DEF WInv
<1>9. QED  BY <1>7, <1>8

LEMMA WStepHolds == WInv /\ [Next]_vars => WInv'
<1> SUFFICES ASSUME WInv, [Next]_vars PROVE WInv'
  OBVIOUS
<1>1. CASE WriteFails
  <2>1. IInv'
    BY <1>1, WriteFailsHolds DEF WInv
  <2>2. /\ pc' = "failed"
        /\ UNCHANGED <<given, current, p, iovs, out_c0c3_caches, c0c3_cache_index, cur_iov, written>>
    BY <1>1 DEF WriteFails
  <2>3. IovsPoint' /\ ASeq(written') /\ All' = All /\ Place' = Place
    BY <2>2 DEF WInv, IovsPoint, All, Pending, Place
  <2>4. Slices'
    BY <2>2 DEF WInv, Slices
  <2>5. Chunked(given', All', Place')
    BY <2>2, <2>3 DEF WInv
  <2>6. QED  BY <2>1, <2>3, <2>4, <2>5 DEF WInv
<1>2. CASE UNCHANGED vars
  <2>1. IInv'
    BY StepHolds DEF WInv
  <2>2. UNCHANGED <<given, current, p, iovs, out_c0c3_caches, c0c3_cache_index, cur_iov, written, pc>>
    BY <1>2 DEF vars
  <2>3. IovsPoint' /\ ASeq(written') /\ All' = All /\ Place' = Place
    BY <2>2 DEF WInv, IovsPoint, All, Pending, Place
  <2>4. Slices'
    BY <2>2 DEF WInv, Slices
  <2>5. Chunked(given', All', Place')
    BY <2>2, <2>3 DEF WInv
  <2>6. QED  BY <2>1, <2>3, <2>4, <2>5 DEF WInv
<1>3. QED
  BY <1>1, <1>2, WSendHolds, WFillPairHolds, WWriteSliceHolds DEF Next

\* What is written and what waits in the iovs is the messages, chunk by chunk.
THEOREM WrittenInductive == Spec => []WInv
BY WInitHolds, WStepHolds, PTL DEF Spec

\* However the iovs are collected, flushed early and cut into slices, the transport gets
\* every message whole and in order, behind each header its piece: no header of the cache is
\* overwritten before it is written.
THEOREM ChunkByChunk == Spec => []WrittenChunkByChunk
<1>1. ASSUME WInv PROVE WrittenChunkByChunk
  <2>1. /\ ASeq(written) /\ ASeq(Pending)
    <3>1. /\ ASeq(iovs) /\ Len(iovs) % 2 = 0 /\ cur_iov \in 0..Len(iovs)
          /\ PairsOf(iovs, out_c0c3_caches, c0c3_cache_index)
      BY <1>1, SeqIsASeq DEF WInv, IInv, Types, Pairs, IovsPoint
    <3>2. QED  BY <1>1, <3>1, PendingIsMeant DEF WInv, Pending
  <2>2. /\ ASeq(All) /\ Len(All) = Len(written) + Len(Pending)
        /\ \A k \in 1..Len(written) : All[k] = written[k]
    BY <2>1, ConcatASeq DEF All
  <2>3. Len(written) \in Nat /\ Len(Pending) \in Nat
    BY <2>1 DEF ASeq
  <2>4. ASSUME NEW k \in 1..(Len(written) - 1)
        PROVE  IF k % 2 = 1 THEN Headed(k) ELSE Follows(k)
    <3>1. /\ k \in 1..Len(written) /\ k + 1 \in 1..Len(written)
          /\ k \in 1..(Len(All) - 1) /\ k \in 1..Len(All) /\ k # Len(All)
      BY <2>2, <2>3
    <3>2. All[k] = written[k] /\ All[k + 1] = written[k + 1]
      BY <2>2, <3>1
    <3>3. CASE k % 2 = 1
      <4>1. All[k] = HeaderOf(All[k + 1])
        BY <1>1, <3>1, <3>3 DEF WInv, Chunked
      <4>2. Headed(k)
        BY <3>2, <4>1 DEF Headed, HeaderOf
      <4>3. QED  BY <3>3, <4>2
    <3>4. CASE k % 2 # 1
      <4>1. k % 2 = 0
        BY <3>1, <3>4
      <4>2. Successor(given, All[k]) = All[k + 1]
        BY <1>1, <3>1, <4>1 DEF WInv, Chunked
      <4>3. Follows(k)
        BY <3>2, <4>2 DEF Follows, Successor
      <4>4. QED  BY <3>4, <4>3
    <3>5. QED  BY <3>3, <3>4
  <2>5. QED  BY <2>4 DEF WrittenChunkByChunk
<1>2. QED  BY <1>1, WrittenInductive, PTL

\* No writev() gets more iovs than the system takes, or none at all.
THEOREM SlicesFit == Spec => SlicesWithinLimit
<1>1. ASSUME WInv, [Next]_vars
      PROVE  [pc = "writing" /\ written' # written
                => Len(written') - Len(written) \in 1..IovLimit]_vars
  <2> SUFFICES ASSUME pc = "writing", written' # written
               PROVE  Len(written') - Len(written) \in 1..IovLimit
    OBVIOUS
  <2>1. WriteSlice
    BY <1>1 DEF Next, Send, FillPair, WriteFails, vars
  <2> DEFINE slice == [k \in 1..SliceCount |-> Content(iovs[cur_iov + k])]
  <2>2. SliceCount \in 1..IovLimit /\ SliceCount \in Nat
    BY <1>1, <2>1, SliceFits, CachesAssumption
  <2>3. ASeq(slice) /\ Len(slice) = SliceCount
    BY <2>2, FunctionIsASeq
  <2>4. written' = written \o slice
    BY <2>1 DEF WriteSlice
  <2> HIDE DEF slice
  <2>5. ASeq(written) /\ Len(written) \in Nat
    BY <1>1 DEF WInv, ASeq
  <2>6. Len(written') = Len(written) + Len(slice)
    BY <2>3, <2>4, <2>5, ConcatASeq
  <2>7. QED  BY <2>2, <2>3, <2>5, <2>6, CachesAssumption
<1>2. QED  BY <1>1, WrittenInductive, PTL DEF Spec, SlicesWithinLimit

\* A call that returns success has written everything it was given.
THEOREM SuccessIsWritten == Spec => []SuccessMeansWritten
<1>1. ASSUME WInv PROVE SuccessMeansWritten
  <2> SUFFICES ASSUME NEW k \in 1..Len(given), pc = "idle", given[k].size > 0
               PROVE  /\ written # << >> /\ k <= written[Len(written)].payload
                      /\ written[Len(written)].from + written[Len(written)].size
                            = given[written[Len(written)].payload].size
    BY DEF SuccessMeansWritten
  <2>1. /\ given \in Seq(Message) /\ Len(given) \in Nat /\ current = Len(given) + 1
        /\ Len(iovs) = 0 /\ cur_iov = 0 /\ ASeq(iovs) /\ ASeq(written) /\ Len(written) \in Nat
    BY <1>1, EmptyASeq DEF WInv, IInv, Types, Slices, CachesReset, ASeq
  <2>2. ASeq(Pending) /\ Len(Pending) = 0
    BY <1>1, <2>1, PendingIsMeant DEF WInv, IovsPoint, Pending
  <2>3. All = written
    <3>1. /\ ASeq(All) /\ Len(All) = Len(written) + Len(Pending)
          /\ \A i \in 1..Len(written) : All[i] = written[i]
      BY <2>1, <2>2, ConcatASeq DEF All
    <3>2. Len(All) = Len(written)
      BY <2>1, <2>2, <3>1
    <3>3. QED  BY <2>1, <3>1, <3>2, SameElements
  <2>4. Chunked(given, written, Place) /\ Place.header = Len(given) + 1
    BY <1>1, <2>1, <2>3 DEF WInv, Place
  <2>5. Len(written) # 0
    <3> SUFFICES ASSUME Len(written) = 0 PROVE FALSE
      OBVIOUS
    <3>1. Place.header = FirstToSend(given, 1)
      BY <2>4 DEF Chunked
    <3>2. 1 \in 1..(Len(given) + 1)
      BY <2>1
    <3>3. \A i \in 1..(FirstToSend(given, 1) - 1) : given[i].size = 0
      BY <2>1, <3>2, NothingBefore
    <3>4. k \in 1..(FirstToSend(given, 1) - 1)
      BY <2>1, <2>4, <3>1
    <3>5. QED  BY <3>3, <3>4
  <2> DEFINE last == Len(written)
             c == written[last]
  <2>6. last % 2 = 0 /\ last \in 1..Len(written) /\ last - 1 \in 1..(Len(written) - 1)
        /\ (last - 1) % 2 = 1 /\ (last - 1) + 1 = last
    <3>1. last \in Nat /\ last % 2 = 0 /\ last # 0 /\ last = Len(written)
      BY <2>1, <2>4, <2>5 DEF Chunked
    <3> HIDE DEF last
    <3>2. QED  BY <3>1
  <2>7. PieceOf(given, c) /\ Successor(given, c) = Place
    BY <2>4, <2>6 DEF Chunked
  <2> HIDE DEF last, c
  <2>8. /\ c.payload \in 1..Len(given) /\ c.from \in Nat /\ c.size \in Nat
        /\ c.from + c.size <= given[c.payload].size
        /\ given[c.payload].size \in Nat
    <3>1. c.payload \in 1..Len(given) /\ c.from \in Nat /\ c.size \in Nat
      BY <2>1, <2>7 DEF PieceOf, Piece
    <3>2. given[c.payload] \in Message
      BY <2>1, <3>1, ElementOfSeq
    <3>3. QED  BY <2>7, <3>1, <3>2 DEF PieceOf, Message
  <2>9. ~(c.from + c.size < given[c.payload].size)
    <3> SUFFICES ASSUME c.from + c.size < given[c.payload].size PROVE FALSE
      OBVIOUS
    <3>1. Place.header = c.payload
      BY <2>7 DEF Successor
    <3>2. QED  BY <2>1, <2>4, <2>8, <3>1
  <2>10. FirstToSend(given, c.payload + 1) = Len(given) + 1
    BY <2>4, <2>7, <2>9 DEF Successor
  <2>11. k <= c.payload
    <3> SUFFICES ASSUME ~(k <= c.payload) PROVE FALSE
      OBVIOUS
    <3>1. c.payload + 1 \in 1..(Len(given) + 1)
      BY <2>1, <2>8
    <3>2. \A i \in (c.payload + 1)..(FirstToSend(given, c.payload + 1) - 1) : given[i].size = 0
      BY <2>1, <3>1, NothingBefore
    <3>3. k \in (c.payload + 1)..(FirstToSend(given, c.payload + 1) - 1)
      BY <2>1, <2>8, <2>10
    <3>4. QED  BY <3>2, <3>3
  <2>12. c.from + c.size = given[c.payload].size
    BY <2>8, <2>9
  <2>13. written # << >>
    BY <2>5, EmptyASeq
  <2>14. QED  BY <2>11, <2>12, <2>13 DEF c, last
<1>2. QED  BY <1>1, WrittenInductive, PTL
==============================================================================
