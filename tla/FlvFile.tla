-------------------------------- MODULE FlvFile --------------------------------
(***************************************************************************)
(* An FLV file: SrsFlvEncoder appends tags to it, three ::write() calls a  *)
(* tag, while SrsFlvDecoder, in another process, reads it call by call.    *)
(* A write may fail, or take less than it was given, and the writer may    *)
(* stop anywhere.  The user of the decoder goes back to the start of the   *)
(* tag and tries again when it meets the end of the file.                  *)
(*                                                                         *)
(* The file is a sequence of cells: the digits of the numbers of a header, *)
(* and the data.  A digit is one byte, in base Base instead of 256.        *)
(***************************************************************************)
EXTENDS Integers, Sequences

CONSTANTS
    Base,       \* how many values a byte of a header has
    Tags,       \* what is written: [type, time, data]
    Groups,     \* what one write_tags() is given: sequences of tags
    Garbage,    \* what a byte that was not read may hold
    MaxTags     \* bound: tags written

Audio == 8
Video == 9
Script == 18

\* What a digit counts, the lowest being digit 0, and how many times there are.
Weight(digit) == <<1, Base, Base * Base, Base * Base * Base>>[digit + 1]
Times == (Weight(3) * Base) \div 2

ASSUME FlvAssumption ==
    /\ Base \in Nat /\ Base > 1 /\ MaxTags \in Nat
    /\ \A t \in Tags : /\ t.type \in {Audio, Video, Script} /\ t.time \in Nat
                       /\ t.data \in Seq(Nat) /\ Len(t.data) < Weight(3)
    /\ Groups \subseteq Seq(Tags) /\ Garbage \subseteq 0..Base - 1 /\ Garbage # {}

VARIABLES
    file,       \* the cells of the file
    iovs,       \* what the call that writes has still to write
    torn,       \* history: a write failed, was short, or was left out
    tags,       \* history: the tags given to be written
    whole,      \* history: how many of them were written before anything was torn
    pc,         \* the call the decoder's user makes next
    pos,        \* the offset the decoder's file is at
    start,      \* the offset the user goes back to
    head,       \* what read_tag_header() gave
    delivered   \* history: the tags read

writer == <<file, iovs, torn, tags, whole>>
reader == <<pc, pos, start, head, delivered>>
vars == <<writer, reader>>

NoHead == [type |-> 0, size |-> 0, time |-> 0]

Init ==
    /\ file = << >> /\ iovs = << >> /\ torn = FALSE /\ tags = << >> /\ whole = 0
    /\ pc = "header" /\ pos = 0 /\ start = 0 /\ head = NoHead /\ delivered = << >>

------------------------------------------------------------------------------
\* The writer.

TagHeaderSize == 11
PreviousTagSize == 4
HeaderSize == 9

\* n as digits, the first of them the highest.
Digits(n, count) == [i \in 1..count |-> (n \div Weight(count - i)) % Base]

\* Three digits, and what is above them.
Number(high, digits) ==
    high * Weight(3) + digits[1] * Weight(2) + digits[2] * Weight(1) + digits[3]

\* Mutant: the time is kept as it is given.
WholeTime(tag) == IF tag.type = Script THEN 0 ELSE tag.time

\* The time that is written: 31 bits, and none for a script.
TagTime(tag) == IF tag.type = Script THEN 0 ELSE tag.time % Times

\* write_audio_to_cache(), write_video_to_cache(), write_metadata_to_cache(): the
\* highest byte of the time is behind the others.
TagHeader(tag) ==
    LET size == Digits(Len(tag.data), 3)
        time == Digits(TagTime(tag), 3)
    IN  <<tag.type, size[1], size[2], size[3], time[1], time[2], time[3],
          TagTime(tag) \div Weight(3), 0, 0, 0>>

\* One ::write(); the last one of a tag is marked.
Iov(cells) == [cells |-> cells, last |-> FALSE]
LastIov(cells) == [cells |-> cells, last |-> TRUE]

TagIovs(tag) ==
    <<Iov(TagHeader(tag)), Iov(tag.data),
      LastIov(Digits(TagHeaderSize + Len(tag.data), PreviousTagSize))>>

Signature == <<70, 76, 86>>  \* FLV

HeaderIovs ==
    <<Iov(Signature \o [i \in 1..HeaderSize - 3 |-> 0]),
      Iov([i \in 1..PreviousTagSize |-> 0])>>

\* The iovs of several tags, one tag behind the other.
Planned(group) ==
    [i \in 1..3 * Len(group) |-> TagIovs(group[((i - 1) \div 3) + 1])[((i - 1) % 3) + 1]]

WriteHeader ==
    /\ file = << >> /\ iovs = << >> /\ ~torn
    /\ iovs' = HeaderIovs
    /\ UNCHANGED <<file, torn, tags, whole, reader>>

\* One writev() for all the tags of a group.
WriteTags(group) ==
    /\ iovs = << >> /\ (file # << >> \/ torn)
    /\ Len(tags) + Len(group) <= MaxTags
    /\ tags' = tags \o group
    /\ iovs' = Planned(group)
    /\ UNCHANGED <<file, torn, whole, reader>>

WriteTag(tag) == WriteTags(<<tag>>)

Write ==
    /\ iovs # << >>
    /\ file' = file \o Head(iovs).cells
    /\ iovs' = Tail(iovs)
    /\ whole' = IF Head(iovs).last /\ ~torn THEN whole + 1 ELSE whole
    /\ UNCHANGED <<torn, tags, reader>>

\* ::write() takes less than it is given, and writev() goes on with the next.  One
\* failure is enough: nothing is promised behind it.
ShortWrite ==
    /\ iovs # << >> /\ ~torn
    /\ \E n \in 0..Len(Head(iovs).cells) - 1 :
          file' = file \o SubSeq(Head(iovs).cells, 1, n)
    /\ iovs' = Tail(iovs)
    /\ torn' = TRUE
    /\ UNCHANGED <<tags, whole, reader>>

\* ::write() fails, writev() returns, and what it had still to write is left out.
WriteFails ==
    /\ iovs # << >> /\ ~torn
    /\ iovs' = << >>
    /\ torn' = TRUE
    /\ UNCHANGED <<file, tags, whole, reader>>

------------------------------------------------------------------------------
\* The decoder.  ::read() gives what there is, and nobody looks at how much that
\* was: the rest of the buffer keeps what it held before.

IsEof(count) == count = 0 \/ pos >= Len(file)

Got(count, junk) ==
    [i \in 1..count |-> IF pos + i <= Len(file) THEN file[pos + i] ELSE junk]

Advanced(count) == IF pos + count <= Len(file) THEN pos + count ELSE Len(file)

Eof(count) ==
    /\ IsEof(count)
    /\ pc' = "eof"
    /\ UNCHANGED <<pos, start, head, delivered, writer>>

ReadHeader ==
    /\ pc = "header"
    /\ \/ Eof(HeaderSize)
       \/ /\ ~IsEof(HeaderSize)
          /\ \E junk \in Garbage :
                pc' = IF SubSeq(Got(HeaderSize, junk), 1, 3) = Signature
                      THEN "header's previous tag size" ELSE "stopped"
          /\ pos' = Advanced(HeaderSize)
          /\ UNCHANGED <<start, head, delivered, writer>>

ReadHeadersPreviousTagSize ==
    /\ pc = "header's previous tag size"
    /\ \/ Eof(PreviousTagSize)
       \/ /\ ~IsEof(PreviousTagSize)
          /\ pc' = "tag header"
          /\ pos' = Advanced(PreviousTagSize)
          /\ start' = Advanced(PreviousTagSize)
          /\ UNCHANGED <<head, delivered, writer>>

\* What a tag header says: five bits of type, size, time.
Parsed(cells) ==
    [type |-> cells[1] % 32,
     size |-> Number(0, SubSeq(cells, 2, 4)),
     time |-> Number(cells[8], SubSeq(cells, 5, 7))]

ReadTagHeader ==
    /\ pc = "tag header"
    /\ \/ Eof(TagHeaderSize)
       \/ /\ ~IsEof(TagHeaderSize)
          /\ pc' = "tag data"
          /\ \E junk \in Garbage : head' = Parsed(Got(TagHeaderSize, junk))
          /\ pos' = Advanced(TagHeaderSize)
          /\ UNCHANGED <<start, delivered, writer>>

\* The data is there, and is the user's when the call succeeds, that is, when the
\* previous tag size was read, too.
ReadTagData ==
    /\ pc = "tag data"
    /\ \/ Eof(head.size)
       \/ /\ ~IsEof(head.size)
          /\ pc' = "previous tag size"
          /\ \E junk \in Garbage :
                head' = [type |-> head.type, size |-> head.size, time |-> head.time,
                         data |-> Got(head.size, junk)]
          /\ pos' = Advanced(head.size)
          /\ UNCHANGED <<start, delivered, writer>>

ReadPreviousTagSize ==
    /\ pc = "previous tag size"
    /\ \/ Eof(PreviousTagSize)
       \/ /\ ~IsEof(PreviousTagSize)
          /\ pc' = "tag header"
          /\ pos' = Advanced(PreviousTagSize)
          /\ start' = Advanced(PreviousTagSize)
          /\ delivered' =
               Append(delivered, [type |-> head.type, time |-> head.time, data |-> head.data])
          /\ head' = NoHead
          /\ UNCHANGED writer

\* Mutant: lseek() is left out.
StayThere ==
    /\ pc = "eof"
    /\ pc' = IF start = 0 THEN "header" ELSE "tag header"
    /\ head' = NoHead
    /\ UNCHANGED <<pos, start, delivered, writer>>

\* srs_flv_lseek() to where srs_flv_tellg() was at the start of the tag.
Retry ==
    /\ pc = "eof"
    /\ pc' = IF start = 0 THEN "header" ELSE "tag header"
    /\ pos' = start
    /\ head' = NoHead
    /\ UNCHANGED <<start, delivered, writer>>

------------------------------------------------------------------------------
Read == \/ ReadHeader \/ ReadHeadersPreviousTagSize
        \/ ReadTagHeader \/ ReadTagData \/ ReadPreviousTagSize \/ Retry

Next ==
    \/ WriteHeader
    \/ \E tag \in Tags : WriteTag(tag)
    \/ \E group \in Groups : WriteTags(group)
    \/ Write \/ ShortWrite \/ WriteFails
    \/ Read

\* The user of the decoder goes on; the writer may stop anywhere.
Spec == Init /\ [][Next]_vars /\ WF_vars(Read)

------------------------------------------------------------------------------
\* What a reader can be given of a tag.
Masked(tag) == [type |-> tag.type, data |-> tag.data,
                time |-> IF tag.type = Script THEN 0 ELSE tag.time % Times]

\* The tags that were written before anything was torn are read as they were
\* written, each once and in order, however the reads fall between the writes; what
\* a crash left of one tag is not delivered as a tag (srs_flv_read_tag_header(),
\* srs_flv_read_tag_data(), srs_flv_write_tag()).
ReadAsWritten ==
    /\ \A i \in 1..whole : i <= Len(delivered) => delivered[i] = Masked(tags[i])
    /\ ~torn => Len(delivered) <= whole

\* An empty tag is where the decoder stays: read() of nothing gives nothing, which
\* is taken for the end of the file.
Readable(k) == whole >= k /\ \A i \in 1..k : tags[i].data # << >>

\* Every tag that is whole is read in the end, although the reader met the end of
\* the file inside of it before.
AllIsRead == \A k \in 1..MaxTags : Readable(k) ~> Len(delivered) >= k
==============================================================================
