------------------------------ MODULE ByteQueue ------------------------------
(***************************************************************************)
(* What SrsFastBuffer promises to SrsProtocol: the bytes of the transport, *)
(* handed out once each and in order.  A byte is named by its position in  *)
(* the transport's stream (1, 2, 3, ...), so a lost, doubled, moved or     *)
(* invented byte shows as a wrong number.                                  *)
(***************************************************************************)
EXTENDS Integers, Sequences

CONSTANT Amounts    \* how many bytes one step may receive, take or put back

VARIABLES
    queue,      \* the bytes received and not taken yet, oldest first
    taken       \* how many bytes of the stream the user holds

abstractVars == <<queue, taken>>

AbstractInit == queue = << >> /\ taken = 0

\* The transport delivered the next n bytes of the stream.
Receive(n) ==
    /\ queue' = [i \in 1..(Len(queue) + n) |-> IF i <= Len(queue) THEN queue[i]
                                               ELSE taken + i]
    /\ UNCHANGED taken

\* The user takes the n oldest bytes.
Take(n) ==
    /\ n <= Len(queue)
    /\ queue' = [i \in 1..(Len(queue) - n) |-> queue[i + n]]
    /\ taken' = taken + n

\* The user gives back the n bytes it took last.
PutBack(n) ==
    /\ n <= taken
    /\ queue' = [i \in 1..(Len(queue) + n) |-> IF i <= n THEN taken - n + i
                                               ELSE queue[i - n]]
    /\ taken' = taken - n

AbstractNext == \E n \in Amounts : Receive(n) \/ Take(n) \/ PutBack(n)

AbstractSpec == AbstractInit /\ [][AbstractNext]_abstractVars
==============================================================================
