---------------------------- MODULE ProtocolControl --------------------------
(***************************************************************************)
(* The protocol control traffic of two SrsProtocol that are connected:     *)
(* on_recv_message() acknowledges the bytes received and answers pings,    *)
(* at once, or through manual_response_queue while the automatic response  *)
(* is off, which the user may turn off and on at any time; the             *)
(* acknowledgements are messages too, and count where they arrive.         *)
(*                                                                         *)
(* Messages are whole here (ChunkLink cuts them).  The buffer reads ahead, *)
(* so more bytes may have been counted than were decoded when an           *)
(* acknowledgement is due.  A writev() takes whatever it is given.         *)
(***************************************************************************)
EXTENDS Integers, Sequences, SequencesExt

CONSTANTS
    Endpoints,      \* two
    ControlSize,    \* bytes of a control message with its chunk header
    MediaSizes,     \* bytes of the other messages
    Windows,        \* what a window acknowledgement size may announce
    HandshakeSize,  \* bytes of the peer's handshake, 3073 in the code
    SequenceModulus,    \* 2^32 in the code: sequence_number has four bytes
    MaxSent         \* bound: messages each user sends

\* A window that a single acknowledgement fills would be acknowledged for ever.
ASSUME ControlAssumption ==
    /\ \E a, b \in Endpoints : a # b /\ Endpoints = {a, b}
    /\ ControlSize \in Nat \ {0} /\ MediaSizes \subseteq Nat \ {0}
    /\ \A w \in Windows : w \in Nat /\ (w = 0 \/ w >= ControlSize)
    /\ HandshakeSize \in Nat /\ SequenceModulus \in Nat \ {0} /\ MaxSent \in Nat

VARIABLES
    auto_response_when_recv,
    transport,      \* the messages on their way to an endpoint
    in_buffer,      \* those it has read and not decoded
    acked_size,     \* in_ack_size.acked_size, modulo SequenceModulus
    unacked,        \* skt->get_recv_bytes() - in_ack_size.acked_size
    ack_window_size,
    manual_response_queue,
    arrived,        \* history: the bytes the endpoint received, modulo SequenceModulus
    sent,           \* how many messages its user sent
    pings, pongs,   \* history: how many it sent, and the answers it got
    impatient       \* history: the endpoints that turned the automatic response on
                    \* with answers in the queue

userVars == <<auto_response_when_recv, impatient>>
vars == <<userVars, transport, in_buffer, acked_size, unacked, ack_window_size,
          manual_response_queue, arrived, sent, pings, pongs>>

Peer(e) == CHOOSE other \in Endpoints : other # e

Init ==
    /\ auto_response_when_recv = [e \in Endpoints |-> TRUE]
    /\ transport = [e \in Endpoints |-> << >>]
    /\ in_buffer = [e \in Endpoints |-> << >>]
    /\ acked_size = [e \in Endpoints |-> 0]
    \* read_fully() counts what read() has already counted
    /\ unacked = [e \in Endpoints |-> 2 * HandshakeSize]
    /\ ack_window_size = [e \in Endpoints |-> 0]
    /\ manual_response_queue = [e \in Endpoints |-> << >>]
    /\ arrived = [e \in Endpoints |-> HandshakeSize % SequenceModulus]
    /\ sent = [e \in Endpoints |-> 0]
    /\ pings = [e \in Endpoints |-> 0]
    /\ pongs = [e \in Endpoints |-> << >>]
    /\ impatient = {}

Message(type, size, value) == [type |-> type, size |-> size, value |-> value]
Bytes(messages) == FoldSeq(LAMBDA m, n : n + m.size, 0, messages)

\* Mutant: the flush skips an entry behind each one it erases.
EveryOther(queue) == [k \in 1..((Len(queue) + 1) \div 2) |-> queue[2 * k - 1]]

\* Mutant: the flush takes the packets from the back.
BackToFront(queue) == Reverse(queue)

\* manual_response_flush(): every packet is erased and then sent.
Flushed(queue) == queue

\* send_and_free_packet() or send_and_free_message(): the message, then the queue.
Send(e, m) ==
    /\ sent[e] < MaxSent
    /\ sent' = [sent EXCEPT ![e] = @ + 1]
    /\ pings' = [pings EXCEPT ![e] = IF m.type = "PingRequest" THEN @ + 1 ELSE @]
    /\ transport' = [transport EXCEPT
                       ![Peer(e)] = @ \o <<m>> \o Flushed(manual_response_queue[e])]
    /\ manual_response_queue' = [manual_response_queue EXCEPT ![e] = << >>]
    /\ UNCHANGED <<userVars, in_buffer, acked_size, unacked, ack_window_size, arrived, pongs>>

\* grow() finds the buffer empty and reads what is there.
Read(e, n) ==
    /\ in_buffer[e] = << >> /\ n \in 1..Len(transport[e])
    /\ LET read == SubSeq(transport[e], 1, n)
       IN  /\ in_buffer' = [in_buffer EXCEPT ![e] = read]
           /\ unacked' = [unacked EXCEPT ![e] = @ + Bytes(read)]
           /\ arrived' = [arrived EXCEPT ![e] = (@ + Bytes(read)) % SequenceModulus]
    /\ transport' = [transport EXCEPT ![e] = SubSeq(@, n + 1, Len(@))]
    /\ UNCHANGED <<userVars, acked_size, ack_window_size, manual_response_queue, sent,
                   pings, pongs>>

\* Mutant: the acknowledgement is sent when the window is full.
FullWindow(e) == ack_window_size[e] > 0 /\ unacked[e] >= ack_window_size[e]

NeedsAcknowledgement(e) == ack_window_size[e] > 0 /\ unacked[e] > ack_window_size[e]

\* The packet of response_acknowledgement_message(); bytes is history.
Acknowledgement(e) ==
    [type |-> "Acknowledgement", size |-> ControlSize,
     value |-> (acked_size[e] + unacked[e]) % SequenceModulus, bytes |-> arrived[e]]

Responses(e, m) ==
    (IF NeedsAcknowledgement(e) THEN <<Acknowledgement(e)>> ELSE << >>)
        \o (IF m.type = "PingRequest"
            THEN <<Message("PingResponse", ControlSize, m.value)>> ELSE << >>)

\* Mutant: the responses wait in the queue whatever the user chose.
AlwaysQueued(e) == TRUE

Queued(e) == ~auto_response_when_recv[e]

\* set_auto_response(), which leaves the queue as it is; with the value it has, nothing changes.
SetAutoResponse(e, v) ==
    /\ v # auto_response_when_recv[e]
    /\ auto_response_when_recv' = [auto_response_when_recv EXCEPT ![e] = v]
    /\ impatient' = IF v /\ manual_response_queue[e] # << >> THEN impatient \cup {e}
                    ELSE impatient
    /\ UNCHANGED <<transport, in_buffer, acked_size, unacked, ack_window_size,
                   manual_response_queue, arrived, sent, pings, pongs>>

\* recv_message() with on_recv_message(): the acknowledgement is decided before the
\* message is looked at.
Receive(e) ==
    /\ in_buffer[e] # << >>
    /\ LET m == Head(in_buffer[e])
       IN  /\ IF Queued(e)
              THEN /\ manual_response_queue' =
                        [manual_response_queue EXCEPT ![e] = @ \o Responses(e, m)]
                   /\ UNCHANGED transport
              ELSE /\ transport' = [transport EXCEPT ![Peer(e)] = @ \o Responses(e, m)]
                   /\ UNCHANGED manual_response_queue
           /\ ack_window_size' =
                [ack_window_size EXCEPT
                   ![e] = IF m.type = "WindowAcknowledgementSize" /\ m.value > 0
                          THEN m.value ELSE @]
           /\ pongs' = [pongs EXCEPT ![e] = IF m.type = "PingResponse"
                                            THEN Append(@, m.value) ELSE @]
    /\ IF NeedsAcknowledgement(e)
       THEN /\ acked_size' = [acked_size EXCEPT ![e] = (@ + unacked[e]) % SequenceModulus]
            /\ unacked' = [unacked EXCEPT ![e] = 0]
       ELSE UNCHANGED <<acked_size, unacked>>
    /\ in_buffer' = [in_buffer EXCEPT ![e] = Tail(@)]
    /\ UNCHANGED <<userVars, arrived, sent, pings>>

UserMessages(e) ==
    {Message("Media", size, 0) : size \in MediaSizes}
        \cup {Message("WindowAcknowledgementSize", ControlSize, w) : w \in Windows}
        \cup {Message("PingRequest", ControlSize, pings[e] + 1)}

Next ==
    \E e \in Endpoints :
        \/ \E m \in UserMessages(e) : Send(e, m)
        \/ \E n \in 1..Len(transport[e]) : Read(e, n)
        \/ Receive(e)
        \/ \E v \in BOOLEAN : SetAutoResponse(e, v)

\* Both users keep calling recv_message(); they need not send anything.
Spec ==
    /\ Init /\ [][Next]_vars
    /\ \A e \in Endpoints : WF_vars(\E n \in 1..Len(transport[e]) : Read(e, n))
                            /\ WF_vars(Receive(e))

------------------------------------------------------------------------------
\* Every variable keeps its type.
TypeOK ==
    \A e \in Endpoints :
        /\ acked_size[e] \in 0..(SequenceModulus - 1)
        /\ unacked[e] \in Nat
        /\ ack_window_size[e] \in Windows \cup {0}
        /\ auto_response_when_recv[e] \in BOOLEAN
        /\ sent[e] \in 0..MaxSent

\* The messages an endpoint has still to decode, the next one first.
Coming(e) == in_buffer[e] \o transport[e]

\* The messages of this type carry the numbers behind `after` up to `upTo`, each of
\* them once and in order.
InTurn(messages, type, after, upTo) ==
    /\ after <= upTo
    /\ \A n \in (after + 1)..upTo : \E k \in 1..Len(messages) :
          messages[k].type = type /\ messages[k].value = n
    /\ \A k \in 1..Len(messages) :
          messages[k].type = type => messages[k].value \in (after + 1)..upTo
    /\ \A j, k \in 1..Len(messages) :
          j < k /\ messages[j].type = type /\ messages[k].type = type
              => messages[j].value < messages[k].value

\* The numbers the messages of this type carry, and whether none carries one twice.
Numbers(messages, type) ==
    {messages[k].value : k \in {k \in 1..Len(messages) : messages[k].type = type}}
NoneTwice(messages, type) ==
    \A j, k \in 1..Len(messages) :
        j # k /\ messages[j].type = type /\ messages[k].type = type
            => messages[j].value # messages[k].value

\* Sets that share nothing, and make up the whole.
Parts(whole, got, answers, queued, asked) ==
    /\ whole = got \cup answers \cup queued \cup asked
    /\ got \cap answers = {} /\ got \cap queued = {} /\ got \cap asked = {}
    /\ answers \cap queued = {} /\ answers \cap asked = {} /\ queued \cap asked = {}

\* Every ping is answered once and with its own data, however its user turns the automatic
\* response off and on and whatever waits in the queue then: each ping sent is in one place,
\* to be read by the peer, answered and in the peer's queue, its answer on its way, or there.
PingsAnsweredOnce ==
    \A e \in Endpoints :
        /\ Parts(1..pings[e],
                 {pongs[e][k] : k \in 1..Len(pongs[e])},
                 Numbers(Coming(e), "PingResponse"),
                 Numbers(manual_response_queue[Peer(e)], "PingResponse"),
                 Numbers(Coming(Peer(e)), "PingRequest"))
        /\ \A j, k \in 1..Len(pongs[e]) : j # k => pongs[e][j] # pongs[e][k]
        /\ NoneTwice(Coming(e), "PingResponse")
        /\ NoneTwice(manual_response_queue[Peer(e)], "PingResponse")
        /\ NoneTwice(Coming(Peer(e)), "PingRequest")

\* The answers come in the order of the pings, whether they go out at once or wait for a
\* flush, unless the peer ever turned the automatic response on with answers in the queue:
\* what it answers at once then overtakes them, since set_auto_response() does not flush.
PingsAnsweredInOrder ==
    \A e \in Endpoints : Peer(e) \notin impatient =>
        /\ pongs[e] = [k \in 1..Len(pongs[e]) |-> k]
        /\ \E onTheWay, answered \in 0..pings[e] :
              /\ InTurn(Coming(e), "PingResponse", Len(pongs[e]), onTheWay)
              /\ InTurn(manual_response_queue[Peer(e)], "PingResponse", onTheWay, answered)
              /\ InTurn(Coming(Peer(e)), "PingRequest", answered, pings[e])

\* An endpoint that always responds by itself, or whose user empties the queue again and
\* again, answers every ping.
PingsAnswered ==
    \A e \in Endpoints, n \in 1..MaxSent :
        ([]auto_response_when_recv[Peer(e)] \/ []<>(manual_response_queue[Peer(e)] = << >>))
            => (pings[e] >= n ~> Len(pongs[e]) >= n)

\* Acknowledgements of acknowledgements die out: once the users are done, so is the
\* traffic.
QuietInTheEnd ==
    <>[](\A e \in Endpoints : transport[e] = << >> /\ in_buffer[e] = << >>)

\* srs_rtmp_io.hpp says get_recv_bytes() is "the total recv bytes over underlay fd", and
\* this is what an acknowledgement tells the peer.
AcknowledgesTheBytes ==
    \A e \in Endpoints : \A k \in 1..Len(transport[e]) :
        transport[e][k].type = "Acknowledgement" => transport[e][k].value = transport[e][k].bytes
==============================================================================
