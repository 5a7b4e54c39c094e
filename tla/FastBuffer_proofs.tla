-------------------------- MODULE FastBuffer_proofs --------------------------
(***************************************************************************)
(* FastBuffer is safe for every buffer size, every request and every       *)
(* stream, and implements ByteQueue.                                       *)
(***************************************************************************)
EXTENDS FastBuffer, Sequences, TLAPS

\* While grow() waits, what is buffered and what may still be read make up the
\* size it was asked for; only bytes that were taken can be put back, and no more
\* came in than the peer sent.
GrowCanFinish ==
    /\ Growing => /\ Size < required
                  /\ required <= Size + nb_free_space
                  /\ end + nb_free_space <= nb_buffer
    /\ slice <= taken
    /\ taken + Size <= StreamLength

\* The inductive invariant.
IInv == TypeOK /\ PointersOrdered /\ GrowCanFinish /\ HoldsTheStream

LEMMA InitHolds == Init => IInv
BY SizesAssumption
DEF Init, IInv, TypeOK, ReturnCodes, Cells, Garbage, PointersOrdered, GrowCanFinish,
    Growing, Aborted, Size, HoldsTheStream

USE DEF TypeOK, ReturnCodes, PointersOrdered, GrowCanFinish, Growing, Aborted, Idle, Size

\* Making room for a grow() keeps the unread bytes.
LEMMA CompactHolds ==
    ASSUME IInv, Compact
    PROVE  /\ buffer' \in [Cells -> Nat]
           /\ p' = 0 /\ end' = Size
           /\ \A c \in 0..(end' - 1) : buffer'[c] = taken + c + 1
<1>1. \A c \in p..(end - 1) : buffer[c] = taken + (c - p) + 1
  BY DEF IInv, HoldsTheStream
<1>2. \A c \in 0..(Size - 1) : c \in Cells /\ p + c \in p..(end - 1)
  BY SizesAssumption DEF IInv, Cells
<1>3. \A c \in Cells : c < Size => p + c \in Cells
  BY SizesAssumption DEF IInv, Cells
<1>4. buffer' \in [Cells -> Nat]
  BY <1>3 DEF IInv, Compact, Cells
<1>5. \A c \in 0..(Size - 1) : buffer'[c] = buffer[p + c]
  BY <1>2 DEF Compact, IInv
<1>6. QED  BY <1>1, <1>2, <1>4, <1>5 DEF Compact, IInv

LEMMA GrowHolds ==
    ASSUME IInv, NEW size \in Requests, Grow(size)
    PROVE  IInv'
<1>1. size \in Nat /\ size > 0
  BY SizesAssumption DEF Requests
<1>2. CASE FreeSpace < size
  <2>1. Compact  BY <1>2 DEF Grow
  <2>2. /\ buffer' \in [Cells -> Nat] /\ p' = 0 /\ end' = Size
        /\ \A c \in 0..(end' - 1) : buffer'[c] = taken + c + 1
    BY <2>1, CompactHolds
  <2>3. nb_buffer' = nb_buffer /\ slice' = 0 /\ taken' = taken
    BY DEF Grow
  <2>4. HoldsTheStream'
    BY <2>2, <2>3 DEF HoldsTheStream, IInv
  <2>5. TypeOK' /\ PointersOrdered' /\ GrowCanFinish'
    BY <2>2, <2>3, <1>1 DEF Grow, IInv, FreeSpace
  <2>6. QED  BY <2>4, <2>5 DEF IInv
<1>3. CASE ~(FreeSpace < size)
  <2>1. /\ UNCHANGED <<buffer, p, end, nb_buffer, taken, ret>> /\ slice' = 0
        /\ required' = size /\ nb_free_space' = nb_buffer - end
    BY <1>3, <1>1 DEF Grow, FreeSpace, IInv
  <2>2. TypeOK' /\ PointersOrdered' /\ GrowCanFinish'
    BY <2>1, <1>1, <1>3 DEF IInv, FreeSpace, Grow
  <2>3. HoldsTheStream'
    BY <2>1 DEF IInv, HoldsTheStream
  <2>4. QED  BY <2>2, <2>3 DEF IInv
<1>4. QED  BY <1>2, <1>3

LEMMA ReadSomeHolds ==
    ASSUME IInv, NEW n \in 1..StreamLength, ReadSome(n)
    PROVE  IInv'
<1>1. n \in Nat /\ n > 0 /\ n <= nb_free_space
  BY SizesAssumption DEF ReadSome
<1>2. end + n <= SRS_MAX_SOCKET_BUFFER
  BY <1>1, SizesAssumption DEF IInv, ReadSome
<1>3. end..(end + n - 1) \subseteq Cells
  BY <1>1, <1>2, SizesAssumption DEF IInv, Cells
<1>4. buffer' \in [Cells -> Nat]
  <2>1. \A c \in end..(end + n - 1) : taken + (c - p) + 1 \in Nat
    BY <1>1 DEF IInv
  <2>2. QED  BY <2>1 DEF IInv, ReadSome
<1>5. HoldsTheStream'
  <2>a. p' = p /\ slice' = slice /\ taken' = taken /\ end' = end + n
    BY DEF ReadSome
  <2>1. SUFFICES ASSUME NEW c \in (p - slice)..(end + n - 1)
                 PROVE  buffer'[c] = taken + (c - p) + 1
    BY <2>a, <1>1 DEF HoldsTheStream, IInv
  <2>2. CASE c \in end..(end + n - 1)
    BY <2>2, <1>3 DEF ReadSome
  <2>3. CASE c \notin end..(end + n - 1)
    <3>1. c \in (p - slice)..(end - 1) /\ c \in Cells
      BY <2>3, <1>1, SizesAssumption DEF IInv, Cells
    <3>2. QED  BY <2>3, <3>1 DEF ReadSome, IInv, HoldsTheStream
  <2>4. QED  BY <2>2, <2>3
<1>6. TypeOK' /\ PointersOrdered' /\ GrowCanFinish'
  BY <1>1, <1>2, <1>4 DEF IInv, ReadSome, FreeSpaceAfter
<1>7. QED  BY <1>5, <1>6 DEF IInv

LEMMA SliceHolds ==
    ASSUME IInv, NEW size \in Requests, ReadSlice(size)
    PROVE  IInv'
<1>1. size \in Nat  BY SizesAssumption DEF Requests
<1>2. TypeOK' /\ PointersOrdered' /\ GrowCanFinish'
  BY <1>1 DEF IInv, ReadSlice
<1>3. HoldsTheStream'
  <2>1. SUFFICES ASSUME NEW c \in p..(end - 1)
                 PROVE  buffer[c] = (taken + size) + (c - (p + size)) + 1
    BY <1>1 DEF HoldsTheStream, ReadSlice, IInv
  <2>2. buffer[c] = taken + (c - p) + 1
    BY DEF HoldsTheStream, IInv
  <2>3. QED  BY <2>2, <1>1 DEF IInv
<1>4. QED  BY <1>2, <1>3 DEF IInv

LEMMA UnreadHolds == ASSUME IInv, Unread PROVE IInv'
<1>1. TypeOK' /\ PointersOrdered' /\ GrowCanFinish'
  BY DEF IInv, Unread
<1>2. HoldsTheStream'
  <2>1. SUFFICES ASSUME NEW c \in (p - slice)..(end - 1)
                 PROVE  buffer[c] = (taken - slice) + (c - (p - slice)) + 1
    BY DEF HoldsTheStream, Unread, IInv
  <2>2. buffer[c] = taken + (c - p) + 1
    BY DEF HoldsTheStream, IInv
  <2>3. QED  BY <2>2 DEF IInv
<1>3. QED  BY <1>1, <1>2 DEF IInv

\* Every step keeps the invariant.
LEMMA StepHolds == IInv /\ [Next]_vars => IInv'
<1> SUFFICES ASSUME IInv, [Next]_vars PROVE IInv'
  OBVIOUS
<1>1. ASSUME NEW size \in Requests, GrowSatisfied(size) PROVE IInv'
  <2>1. HoldsTheStream'
    BY <1>1 DEF IInv, GrowSatisfied, HoldsTheStream
  <2>2. QED  BY <1>1, <2>1 DEF IInv, GrowSatisfied
<1>2. ASSUME NEW size \in Requests, Grow(size) PROVE IInv'
  BY <1>2, GrowHolds
<1>3. ASSUME NEW size \in Requests, ReadSlice(size) PROVE IInv'
  BY <1>3, SliceHolds
<1>4. ASSUME NEW size \in Requests, SetBuffer(size) PROVE IInv'
  <2>1. HoldsTheStream'
    BY <1>4 DEF IInv, SetBuffer, HoldsTheStream
  <2>2. nb_buffer' \in Nat /\ nb_buffer' > nb_buffer /\ nb_buffer' <= SRS_MAX_SOCKET_BUFFER
    BY <1>4, SizesAssumption DEF IInv, SetBuffer, Requests
  <2>3. /\ UNCHANGED <<buffer, p, end, required, nb_free_space, ret, taken>>
        /\ slice' = 0 /\ ~Growing
    BY <1>4 DEF SetBuffer
  <2>4. QED  BY <2>1, <2>2, <2>3 DEF IInv
<1>5. ASSUME NEW n \in 1..StreamLength, ReadSome(n) PROVE IInv'
  BY <1>5, ReadSomeHolds
<1>6. ASSUME ReadFails PROVE IInv'
  BY <1>6 DEF IInv, ReadFails, HoldsTheStream
<1>7. ASSUME Unread PROVE IInv'
  BY <1>7, UnreadHolds
<1>8. ASSUME UNCHANGED vars PROVE IInv'
  BY <1>8 DEF vars, IInv, HoldsTheStream
<1>9. ASSUME NEW size \in Requests, GrowAborts(size) PROVE IInv'
  <2>1. HoldsTheStream'
    BY <1>9 DEF IInv, GrowAborts, HoldsTheStream
  <2>2. QED  BY <1>9, <2>1 DEF IInv, GrowAborts
<1>10. QED  BY <1>1, <1>2, <1>3, <1>4, <1>5, <1>6, <1>7, <1>8, <1>9 DEF Next

THEOREM Inductive == Spec => []IInv
BY InitHolds, StepHolds, PTL DEF Spec

\* Every variable of the buffer keeps its type.
THEOREM TypeCorrect == Spec => []TypeOK
<1>1. IInv => TypeOK  BY DEF IInv
<1>2. QED  BY <1>1, Inductive, PTL

\* buffer <= p <= end <= buffer + nb_buffer, as the header of the class has it.
THEOREM PointersStayOrdered == Spec => []PointersOrdered
<1>1. IInv => PointersOrdered  BY DEF IInv
<1>2. QED  BY <1>1, Inductive, PTL

\* grow() hands reader->read() a piece of the allocation, and never an empty one.
THEOREM ReadsAreSafe == Spec => []ReadsStayInside
<1>1. IInv => ReadsStayInside  BY DEF IInv, ReadsStayInside
<1>2. QED  BY <1>1, Inductive, PTL

\* The bytes handed out next are the stream's bytes not handed out yet, in order,
\* whatever was moved, reset, reallocated or put back.
THEOREM TheStreamIsKept == Spec => []HoldsTheStream
<1>1. IInv => HoldsTheStream  BY DEF IInv
<1>2. QED  BY <1>1, Inductive, PTL

------------------------------------------------------------------------------
(* The refinement.  HoldsTheStream gives the abstract queue a closed form.   *)

AbstractQueue == [i \in 1..Size |-> buffer[p + i - 1]]

LEMMA QueueIsTheRest ==
    ASSUME IInv
    PROVE  /\ AbstractQueue = [i \in 1..Size |-> taken + i]
           /\ Len(AbstractQueue) = Size
<1>1. \A i \in 1..Size : buffer[p + i - 1] = taken + i
  BY DEF IInv, HoldsTheStream
<1>2. AbstractQueue = [i \in 1..Size |-> taken + i]
  BY <1>1 DEF AbstractQueue
<1>3. Size \in Nat
  BY DEF IInv
<1>4. AbstractQueue \in Seq(Int)
  BY <1>2, <1>3 DEF IInv
<1>5. Len(AbstractQueue) = Size
  BY <1>2, <1>3, <1>4 DEF IInv
<1>6. QED  BY <1>2, <1>5

LEMMA InitRefines == Init => Queue!AbstractInit
BY DEF Init, Queue!AbstractInit

ClosedForm == AbstractQueue = [i \in 1..Size |-> taken + i]

\* The closed form after a step.
LEMMA QueueIsTheRestAfter == IInv' => ClosedForm'
<1>1. IInv => ClosedForm
  BY QueueIsTheRest DEF ClosedForm
<1>2. QED  BY <1>1, PTL

\* A step that moves neither end of the queue changes nothing in ByteQueue.
LEMMA SameEnds ==
    ASSUME IInv, IInv', Size' = Size, taken' = taken
    PROVE  UNCHANGED Queue!abstractVars
<1>1. AbstractQueue' = AbstractQueue
  BY QueueIsTheRest, QueueIsTheRestAfter DEF ClosedForm
<1>2. QED  BY <1>1 DEF AbstractQueue, Queue!abstractVars

LEMMA ReadSomeRefines ==
    ASSUME IInv, IInv', NEW n \in 1..StreamLength, ReadSome(n)
    PROVE  Queue!Receive(n)
<1>1. taken' = taken /\ Size' = Size + n
  BY SizesAssumption DEF ReadSome, IInv
<1>2. AbstractQueue' = [i \in 1..(Size + n) |-> taken + i]
  BY <1>1, QueueIsTheRestAfter DEF ClosedForm
<1>3. AbstractQueue = [i \in 1..Size |-> taken + i] /\ Len(AbstractQueue) = Size
  BY QueueIsTheRest
<1>4. AbstractQueue' = [i \in 1..(Len(AbstractQueue) + n) |->
                           IF i <= Len(AbstractQueue) THEN AbstractQueue[i] ELSE taken + i]
  BY <1>2, <1>3, SizesAssumption DEF IInv
<1>5. QED  BY <1>1, <1>4 DEF AbstractQueue, Queue!Receive

LEMMA ReadSliceRefines ==
    ASSUME IInv, IInv', NEW size \in Requests, ReadSlice(size)
    PROVE  size \in 1..StreamLength /\ Queue!Take(size)
<1>1. size \in 1..StreamLength /\ size <= Size
  BY SizesAssumption DEF ReadSlice, IInv, Requests
<1>2. taken' = taken + size /\ Size' = Size - size
  BY <1>1, SizesAssumption DEF ReadSlice, IInv
<1>3. AbstractQueue' = [i \in 1..(Size - size) |-> taken + size + i]
  BY <1>2, QueueIsTheRestAfter DEF ClosedForm
<1>4. AbstractQueue = [i \in 1..Size |-> taken + i] /\ Len(AbstractQueue) = Size
  BY QueueIsTheRest
<1>5. AbstractQueue' = [i \in 1..(Len(AbstractQueue) - size) |-> AbstractQueue[i + size]]
  BY <1>1, <1>3, <1>4, SizesAssumption DEF IInv
<1>6. QED  BY <1>1, <1>2, <1>4, <1>5 DEF AbstractQueue, Queue!Take

LEMMA UnreadRefines ==
    ASSUME IInv, IInv', Unread
    PROVE  slice \in 1..StreamLength /\ Queue!PutBack(slice)
<1>1. slice \in 1..StreamLength /\ slice <= taken
  BY SizesAssumption DEF Unread, IInv
<1>2. taken' = taken - slice /\ Size' = Size + slice
  BY <1>1, SizesAssumption DEF Unread, IInv
<1>3. AbstractQueue' = [i \in 1..(Size + slice) |-> (taken - slice) + i]
  BY <1>2, QueueIsTheRestAfter DEF ClosedForm
<1>4. AbstractQueue = [i \in 1..Size |-> taken + i] /\ Len(AbstractQueue) = Size
  BY QueueIsTheRest
<1>5. AbstractQueue' = [i \in 1..(Len(AbstractQueue) + slice) |->
                           IF i <= slice THEN taken - slice + i ELSE AbstractQueue[i - slice]]
  BY <1>1, <1>3, <1>4, SizesAssumption DEF IInv
<1>6. QED  BY <1>1, <1>2, <1>4, <1>5 DEF AbstractQueue, Queue!PutBack

\* Every step of the buffer is one of the queue or leaves it alone.
LEMMA StepRefines ==
    IInv /\ IInv' /\ [Next]_vars => [Queue!AbstractNext]_(Queue!abstractVars)
<1> SUFFICES ASSUME IInv, IInv', [Next]_vars
             PROVE  [Queue!AbstractNext]_(Queue!abstractVars)
  OBVIOUS
<1>1. ASSUME NEW size \in Requests, GrowSatisfied(size)
      PROVE  UNCHANGED Queue!abstractVars
  BY <1>1, SameEnds DEF GrowSatisfied
<1>2. ASSUME NEW size \in Requests, Grow(size) PROVE UNCHANGED Queue!abstractVars
  <2>1. Size' = Size /\ taken' = taken
    <3>1. CASE FreeSpace < size
      BY <1>2, <3>1 DEF Grow, Compact, IInv
    <3>2. CASE ~(FreeSpace < size)
      BY <1>2, <3>2 DEF Grow, IInv
    <3>3. QED  BY <3>1, <3>2
  <2>2. QED  BY <2>1, SameEnds
<1>3. ASSUME NEW size \in Requests, ReadSlice(size) PROVE Queue!AbstractNext
  BY <1>3, ReadSliceRefines DEF Queue!AbstractNext
<1>4. ASSUME NEW size \in Requests, SetBuffer(size) PROVE UNCHANGED Queue!abstractVars
  BY <1>4, SameEnds DEF SetBuffer
<1>5. ASSUME NEW n \in 1..StreamLength, ReadSome(n) PROVE Queue!AbstractNext
  BY <1>5, ReadSomeRefines DEF Queue!AbstractNext
<1>6. ASSUME ReadFails PROVE UNCHANGED Queue!abstractVars
  BY <1>6, SameEnds DEF ReadFails, vars
<1>7. ASSUME Unread PROVE Queue!AbstractNext
  <2>1. PICK n \in 1..StreamLength : n = slice
    BY <1>7, UnreadRefines
  <2>2. Queue!PutBack(n)
    BY <1>7, <2>1, UnreadRefines DEF Queue!PutBack
  <2>3. QED  BY <2>2 DEF Queue!AbstractNext
<1>8. ASSUME UNCHANGED vars PROVE UNCHANGED Queue!abstractVars
  BY <1>8, SameEnds DEF vars
<1>9. ASSUME NEW size \in Requests, GrowAborts(size) PROVE UNCHANGED Queue!abstractVars
  BY <1>9, SameEnds DEF GrowAborts
<1>10. QED  BY <1>1, <1>2, <1>3, <1>4, <1>5, <1>6, <1>7, <1>8, <1>9 DEF Next

\* The receive buffer is a FIFO of the transport's bytes: it implements ByteQueue.
THEOREM BufferIsByteQueue == Spec => RefinesByteQueue
BY InitRefines, StepRefines, Inductive, PTL DEF Spec, RefinesByteQueue, Queue!AbstractSpec
==============================================================================
