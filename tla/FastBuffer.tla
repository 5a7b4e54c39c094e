------------------------------ MODULE FastBuffer -----------------------------
(***************************************************************************)
(* SrsFastBuffer (srs_protocol_buffer.cpp): the user-space buffer between  *)
(* the transport and the chunk decoder.  Pointers are offsets from the     *)
(* start of the allocation; a byte is its position in the transport's      *)
(* stream.  grow() blocks in reader->read(), so the call is split there:   *)
(* Grow is the part up to the first read, ReadSome and ReadFails are the   *)
(* returns of one read.  GrowAborts is its assertion that fails, which     *)
(* ends the program.                                                       *)
(***************************************************************************)
EXTENDS Integers

CONSTANTS
    SRS_DEFAULT_RECV_BUFFER_SIZE,   \* 131072 in the code
    SRS_MAX_SOCKET_BUFFER,          \* 262144 in the code
    MaxRequest,                     \* bound: the largest size a caller asks for
    StreamLength                    \* bound: the peer sends so many bytes

ASSUME SizesAssumption ==
    /\ SRS_DEFAULT_RECV_BUFFER_SIZE \in Nat \ {0}
    /\ SRS_MAX_SOCKET_BUFFER \in Nat
    /\ SRS_DEFAULT_RECV_BUFFER_SIZE <= SRS_MAX_SOCKET_BUFFER
    /\ MaxRequest \in Nat
    /\ StreamLength \in Nat

VARIABLES
    nb_buffer,  \* the size of the allocation
    buffer,     \* its content
    p,          \* the next byte to hand out
    end,        \* one past the last byte received
    required,   \* the size the grow() in progress waits for, 0 when there is none
    nb_free_space,  \* the local of that grow()
    ret,        \* what the last grow() returned, or that it aborted
    taken,      \* bytes handed to the user
    slice       \* size of the slice handed out since the last grow()

vars == <<nb_buffer, buffer, p, end, required, nb_free_space, ret, taken, slice>>

Cells == 0..(SRS_MAX_SOCKET_BUFFER - 1)
Garbage == 0    \* the content of a cell nothing was received into

Size == end - p
Growing == required > 0
Aborted == ret = "abort"

\* No grow() is in progress, and the program still runs.
Idle == ~Growing /\ ~Aborted

Init ==
    /\ nb_buffer = SRS_DEFAULT_RECV_BUFFER_SIZE
    /\ buffer = [c \in Cells |-> Garbage]
    /\ p = 0 /\ end = 0
    /\ required = 0 /\ nb_free_space = 0
    /\ ret = "ERROR_SUCCESS"
    /\ taken = 0 /\ slice = 0

------------------------------------------------------------------------------
\* grow() finds the bytes already there.
GrowSatisfied(size) ==
    /\ Idle
    /\ Size >= size
    /\ ret' = "ERROR_SUCCESS"
    /\ slice' = 0
    /\ UNCHANGED <<nb_buffer, buffer, p, end, required, nb_free_space, taken>>

FreeSpace == nb_buffer - end

\* Mutant: the pointers are reset and the bytes are not moved.
CompactForgetsTheMove == p' = 0 /\ end' = Size /\ UNCHANGED buffer

\* The reset or the move that makes room: the unread bytes go to the start.
Compact ==
    /\ buffer' = [c \in Cells |-> IF c < Size THEN buffer[p + c] ELSE buffer[c]]
    /\ p' = 0
    /\ end' = Size

\* What grow() asserts before it moves bytes: that there is room to be gained.
MovesSomewhere == Size = 0 \/ Size < nb_buffer

\* grow() up to the first read: make room when the free space is short, give
\* up when there is still not enough of it.
Grow(size) ==
    /\ Idle
    /\ Size < size
    /\ FreeSpace < size => MovesSomewhere
    /\ UNCHANGED nb_buffer
    /\ IF FreeSpace < size THEN Compact ELSE UNCHANGED <<buffer, p, end>>
    /\ nb_free_space' = FreeSpace'
    /\ IF nb_free_space' < size
       THEN ret' = "ERROR_READER_BUFFER_OVERFLOW" /\ UNCHANGED required
       ELSE required' = size /\ UNCHANGED ret
    /\ slice' = 0
    /\ UNCHANGED taken

\* srs_assert(nb_exists_bytes < nb_buffer) fails: more is asked for than the allocation,
\* which is full from its first byte.
GrowAborts(size) ==
    /\ Idle
    /\ Size < size /\ FreeSpace < size
    /\ ~MovesSomewhere
    /\ ret' = "abort"
    /\ UNCHANGED <<nb_buffer, buffer, p, end, required, nb_free_space, taken, slice>>

\* Mutant: the free space is not reduced by what was read.
StaleFreeSpace(n) == nb_free_space

FreeSpaceAfter(n) == nb_free_space - n

\* reader->read() returned n bytes, at most the free space it was given.
ReadSome(n) ==
    /\ Growing
    /\ n <= nb_free_space
    /\ taken + Size + n <= StreamLength
    /\ buffer' = [c \in Cells |-> IF c \in end..(end + n - 1)
                                  THEN taken + (c - p) + 1 ELSE buffer[c]]
    /\ end' = end + n
    /\ nb_free_space' = FreeSpaceAfter(n)
    /\ IF end' - p < required
       THEN UNCHANGED <<required, ret>>
       ELSE required' = 0 /\ ret' = "ERROR_SUCCESS"
    /\ UNCHANGED <<nb_buffer, p, taken, slice>>

\* reader->read() failed or timed out: grow() returns its error and keeps what
\* earlier reads brought.
ReadFails ==
    /\ Growing
    /\ required' = 0
    /\ ret' = "ERROR_SOCKET_READ"
    /\ UNCHANGED <<nb_buffer, buffer, p, end, nb_free_space, taken, slice>>

\* read_slice(size) and read_1byte(), whose assertions ask for a grow() before.
ReadSlice(size) ==
    /\ Idle
    /\ size <= Size
    /\ p' = p + size
    /\ taken' = taken + size
    /\ slice' = size
    /\ UNCHANGED <<nb_buffer, buffer, end, required, nb_free_space, ret>>

\* skip(-size) of the slice just read: read_message_header() puts back the four
\* bytes that were no extended timestamp.
Unread ==
    /\ Idle
    /\ slice > 0
    /\ p' = p - slice
    /\ taken' = taken - slice
    /\ slice' = 0
    /\ UNCHANGED <<nb_buffer, buffer, end, required, nb_free_space, ret>>

\* set_buffer(size): the allocation only ever gets larger, and keeps its content.
SetBuffer(size) ==
    /\ Idle
    /\ LET nb_resize_buf == IF size > SRS_MAX_SOCKET_BUFFER
                            THEN SRS_MAX_SOCKET_BUFFER ELSE size
       IN  /\ nb_resize_buf > nb_buffer
           /\ nb_buffer' = nb_resize_buf
    /\ slice' = 0
    /\ UNCHANGED <<buffer, p, end, required, nb_free_space, ret, taken>>

------------------------------------------------------------------------------
Requests == 1..MaxRequest

Next ==
    \/ \E size \in Requests : \/ GrowSatisfied(size)
                              \/ Grow(size)
                              \/ GrowAborts(size)
                              \/ ReadSlice(size)
                              \/ SetBuffer(size)
    \/ \E n \in 1..StreamLength : ReadSome(n)
    \/ ReadFails
    \/ Unread
    \/ Aborted /\ UNCHANGED vars    \* nothing follows

Spec == Init /\ [][Next]_vars

------------------------------------------------------------------------------
ReturnCodes ==
    {"ERROR_SUCCESS", "ERROR_READER_BUFFER_OVERFLOW", "ERROR_SOCKET_READ", "abort"}

\* Every variable keeps its type.
TypeOK ==
    /\ nb_buffer \in Nat
    /\ buffer \in [Cells -> Nat]
    /\ p \in Nat /\ end \in Nat
    /\ required \in Nat /\ nb_free_space \in Nat
    /\ ret \in ReturnCodes
    /\ taken \in Nat /\ slice \in Nat

\* The class's own invariant, buffer <= p <= end <= buffer + nb_buffer, and the
\* slice that may still be put back lies in front of p.
PointersOrdered ==
    /\ p <= end
    /\ end <= nb_buffer
    /\ nb_buffer <= SRS_MAX_SOCKET_BUFFER
    /\ slice <= p

\* grow() never calls read() with a size that leaves the allocation or is zero,
\* although it computes nb_free_space once and then only subtracts from it.
ReadsStayInside ==
    Growing => /\ end + nb_free_space <= nb_buffer
               /\ nb_free_space > 0

\* Moves, resets, reallocations and put-backs neither lose, double nor reorder a
\* byte: from p on the buffer holds the stream from the first byte not taken, and
\* the slice in front of p is still the one handed out.
HoldsTheStream ==
    \A c \in (p - slice)..(end - 1) : buffer[c] = taken + (c - p) + 1

\* The buffer is a FIFO of the stream's bytes (see ByteQueue).
Queue == INSTANCE ByteQueue WITH queue <- [i \in 1..Size |-> buffer[p + i - 1]],
                                 Amounts <- 1..StreamLength
RefinesByteQueue == Queue!AbstractSpec
==============================================================================
