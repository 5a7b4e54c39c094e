--------------------------------- MODULE Amf0 ---------------------------------
(***************************************************************************)
(* AMF0: the values the commands and the metadata are made of, their size, *)
(* and how they are written to and read from the bytes of a message.       *)
(*                                                                         *)
(* A value is a tuple that begins with its marker.  The two bytes of a     *)
(* length are digits of base LengthBase instead of 256, so that a length   *)
(* that does not fit in int16_t is in reach; characters are numbers, and a *)
(* double is its eight bytes.                                              *)
(*                                                                         *)
(* The operators that go through nested values are RECURSIVE: this module  *)
(* is for model checking.                                                  *)
(***************************************************************************)
EXTENDS Integers, Sequences, SequencesExt

CONSTANT LengthBase     \* bound: what a byte of an integer counts to

ASSUME Amf0Assumption == LengthBase \in Nat \ {0, 1}

(***************************************************************************)
(* Values.                                                                 *)
(***************************************************************************)
Number == 0
Boolean == 1
String == 2
Object == 3
Null == 5
Undefined == 6
EcmaArray == 8
ObjectEnd == 9
StrictArray == 10
Date == 11

NULL == <<>>                                    \* no value at all

number(double) == <<Number, double>>
boolean(b) == <<Boolean, b>>
str(value) == <<String, value>>
null == <<Null>>
undefined == <<Undefined>>
object(properties) == <<Object, properties>>
ecma_array(properties, count) == <<EcmaArray, properties, count>>
strict_array(properties, count) == <<StrictArray, properties, count>>
date(value, zone) == <<Date, value, zone>>

is_object(any) == any # NULL /\ any[1] = Object

\* SrsUnSortedHashtable::set(): the name moves to the end, and no value removes it.
SetProperty(properties, name, value) ==
    LET others == SelectSeq(properties, LAMBDA p: p[1] # name)
    IN  IF value = NULL THEN others ELSE Append(others, <<name, value>>)

\* A strict array counts what is appended, an ecma array's set() does not count.
StrictArrayAppend(any, value) == strict_array(Append(any[2], value), Len(any[2]) + 1)
EcmaArraySet(any, name, value) == ecma_array(SetProperty(any[2], name, value), any[3])

\* srs_amf0_ecma_array_to_object().
EcmaArrayToObject(any) == object(any[2])

(***************************************************************************)
(* Integers: SrsStream writes the low bytes, reads them as signed.         *)
(***************************************************************************)
Bytes(n, size) == [i \in 1..size |-> (n \div LengthBase^(size - i)) % LengthBase]
Signed[bytes \in Seq(Nat)] ==
    LET unsigned[i \in 0..Len(bytes)] ==
            IF i = 0 THEN 0 ELSE LengthBase * unsigned[i - 1] + bytes[i]
        range == LengthBase^Len(bytes)
        n == unsigned[Len(bytes)] % range
    IN  IF 2 * n >= range THEN n - range ELSE n

(***************************************************************************)
(* SrsAmf0Size and the total_size() of the values.                         *)
(***************************************************************************)
SizeUtf8(value) == 2 + Len(value)
SizeStr(value) == 1 + SizeUtf8(value)
SizeNumber == 1 + 8
SizeNull == 1
SizeUndefined == 1
SizeBoolean == 1 + 1
SizeDate == 1 + 8 + 2
SizeObjectEof == 2 + 1

RECURSIVE SizeAny(_)
SizeProperties(properties) ==
    LET size[i \in 0..Len(properties)] ==
            IF i = 0 THEN SizeObjectEof
            ELSE size[i - 1] + SizeUtf8(properties[i][1]) + SizeAny(properties[i][2])
    IN  size[Len(properties)]
SizeElements(elements) ==
    LET size[i \in 0..Len(elements)] == IF i = 0 THEN 0 ELSE size[i - 1] + SizeAny(elements[i])
    IN  size[Len(elements)]

SizeAny(any) ==
    IF any = NULL THEN 0 ELSE
    CASE any[1] = String -> SizeStr(any[2])
      [] any[1] = Number -> SizeNumber
      [] any[1] = Boolean -> SizeBoolean
      [] any[1] = Null -> SizeNull
      [] any[1] = Undefined -> SizeUndefined
      [] any[1] = Date -> SizeDate
      [] any[1] = ObjectEnd -> SizeObjectEof
      [] any[1] = Object -> 1 + SizeProperties(any[2])
      [] any[1] = EcmaArray -> 1 + 4 + SizeProperties(any[2])
      [] any[1] = StrictArray -> 1 + 4 + SizeElements(any[2])

(***************************************************************************)
(* Writing.                                                                *)
(***************************************************************************)
ObjectEof == <<0, 0, ObjectEnd>>

\* The length is truncated to its two bytes, the string is not.
WriteUtf8(value) == Bytes(Len(value), 2) \o value

WriteNumber(any) == <<Number>> \o any[2]
WriteBoolean(any) == <<Boolean, IF any[2] THEN 1 ELSE 0>>
WriteString(any) == <<String>> \o WriteUtf8(any[2])
WriteDate(any) == <<Date>> \o any[2] \o any[3]

RECURSIVE Write(_)
WriteProperties(properties) ==
    LET bytes[i \in 0..Len(properties)] ==
            IF i = 0 THEN <<>>
            ELSE bytes[i - 1] \o WriteUtf8(properties[i][1]) \o Write(properties[i][2])
    IN  bytes[Len(properties)] \o ObjectEof
WriteElements(elements) ==
    LET bytes[i \in 0..Len(elements)] == IF i = 0 THEN <<>> ELSE bytes[i - 1] \o Write(elements[i])
    IN  bytes[Len(elements)]
WriteEcmaArray(any) == <<EcmaArray>> \o Bytes(any[3], 4) \o WriteProperties(any[2])
WriteStrictArray(any) == <<StrictArray>> \o Bytes(any[3], 4) \o WriteElements(any[2])

Write(any) ==
    IF any = NULL THEN <<>> ELSE
    CASE any[1] = Number -> WriteNumber(any)
      [] any[1] = Boolean -> WriteBoolean(any)
      [] any[1] = String -> WriteString(any)
      [] any[1] = Object -> <<Object>> \o WriteProperties(any[2])
      [] any[1] \in {Null, Undefined} -> <<any[1]>>
      [] any[1] = EcmaArray -> WriteEcmaArray(any)
      [] any[1] = StrictArray -> WriteStrictArray(any)
      [] any[1] = Date -> WriteDate(any)
      [] any[1] = ObjectEnd -> ObjectEof

(***************************************************************************)
(* Reading: what is left after a value, or a failure.                      *)
(***************************************************************************)
Got(value, rest) == [ok |-> TRUE, value |-> value, rest |-> rest]
Failed == [ok |-> FALSE, value |-> NULL, rest |-> <<>>]

After(bytes, n) == SubSeq(bytes, n + 1, Len(bytes))

\* Mutant: a string that is cut short is taken as far as it has arrived.
ReadUtf8Lenient(bytes) ==
    IF Len(bytes) < 2 THEN Failed
    ELSE LET len == Signed[SubSeq(bytes, 1, 2)] IN
         IF len <= 0 THEN Got(<<>>, After(bytes, 2))
         ELSE Got(SubSeq(bytes, 3, IF Len(bytes) < 2 + len THEN Len(bytes) ELSE 2 + len),
                  After(bytes, 2 + len))

ReadUtf8(bytes) ==
    IF Len(bytes) < 2 THEN Failed
    ELSE LET len == Signed[SubSeq(bytes, 1, 2)] IN
         IF len <= 0 THEN Got(<<>>, After(bytes, 2))
         ELSE IF Len(bytes) < 2 + len THEN Failed
         ELSE Got(SubSeq(bytes, 3, 2 + len), After(bytes, 2 + len))

IsObjectEof(bytes) == Len(bytes) >= 3 /\ SubSeq(bytes, 1, 3) = ObjectEof

AnyMarker == -1

\* The values of an object or an array are read by read, a function of a marker and the bytes.
\* The properties of an object are over at the end marker, or with the bytes.
ReadProperties(read, start) ==
    LET pairs[bytes \in Seq(Nat)] ==
            IF bytes = <<>> THEN Got(<<>>, bytes)
            ELSE IF IsObjectEof(bytes) THEN Got(<<>>, After(bytes, 3))
            ELSE LET name == ReadUtf8(bytes)
                     any == IF name.ok THEN read[AnyMarker, name.rest] ELSE Failed
                     others == IF any.ok THEN pairs[any.rest] ELSE Failed
                 IN  IF others.ok THEN Got(<<<<name.value, any.value>>>> \o others.value, others.rest)
                     ELSE Failed
    IN  pairs[start]

ReadElements(read, start, len) ==
    LET elements[bytes \in Seq(Nat), count \in Int] ==
            IF bytes = <<>> \/ count <= 0 THEN Got(<<>>, bytes)
            ELSE LET any == read[AnyMarker, bytes]
                     others == IF any.ok THEN elements[any.rest, count - 1] ELSE Failed
                 IN  IF others.ok THEN Got(<<any.value>> \o others.value, others.rest) ELSE Failed
    IN  elements[start, len]

\* Properties of the same name: SrsUnSortedHashtable::set() of each in its turn.
SetAll(pairs) ==
    LET properties[i \in 0..Len(pairs)] ==
            IF i = 0 THEN <<>> ELSE SetProperty(properties[i - 1], pairs[i][1], pairs[i][2])
    IN  properties[Len(pairs)]

\* The values by their marker, which has been read.
Made(read, Make(_)) == [ok |-> read.ok, value |-> IF read.ok THEN Make(read.value) ELSE NULL,
                        rest |-> read.rest]

ReadNumber(bytes) ==
    IF Len(bytes) < 8 THEN Failed ELSE Got(number(SubSeq(bytes, 1, 8)), After(bytes, 8))
ReadBoolean(bytes) ==
    IF bytes = <<>> THEN Failed ELSE Got(boolean(Head(bytes) # 0), Tail(bytes))
ReadString(bytes) == Made(ReadUtf8(bytes), str)
ReadNull(bytes) == Got(null, bytes)
ReadUndefined(bytes) == Got(undefined, bytes)
ReadDate(bytes) ==
    IF Len(bytes) < 10 THEN Failed
    ELSE Got(date(SubSeq(bytes, 1, 8), SubSeq(bytes, 9, 10)), After(bytes, 10))
ReadObject(read, bytes) == Made(ReadProperties(read, bytes), LAMBDA p: object(SetAll(p)))
ReadEcmaArray(read, bytes) ==
    IF Len(bytes) < 4 THEN Failed
    ELSE LET count == Signed[SubSeq(bytes, 1, 4)]
         IN  Made(ReadProperties(read, After(bytes, 4)), LAMBDA p: ecma_array(SetAll(p), count))
ReadStrictArray(read, bytes) ==
    IF Len(bytes) < 4 THEN Failed
    ELSE LET count == Signed[SubSeq(bytes, 1, 4)]
         IN  Made(ReadElements(read, After(bytes, 4), count), LAMBDA e: strict_array(e, count))

ReadBody(read, marker, bytes) ==
    CASE marker = Number -> ReadNumber(bytes)
      [] marker = Boolean -> ReadBoolean(bytes)
      [] marker = String -> ReadString(bytes)
      [] marker = Object -> ReadObject(read, bytes)
      [] marker = Null -> ReadNull(bytes)
      [] marker = Undefined -> ReadUndefined(bytes)
      [] marker = EcmaArray -> ReadEcmaArray(read, bytes)
      [] marker = StrictArray -> ReadStrictArray(read, bytes)
      [] marker = Date -> ReadDate(bytes)
      [] OTHER -> Failed

\* A value of a given marker; or of any, which is SrsAmf0Any::discovery() and the read() of
\* what it finds.
ReadMarked[marker \in Int, bytes \in Seq(Nat)] ==
    IF marker = AnyMarker /\ IsObjectEof(bytes) THEN Got(<<ObjectEnd>>, After(bytes, 3))
    ELSE IF bytes # <<>> /\ marker \in {AnyMarker, Head(bytes)}
    THEN ReadBody(ReadMarked, Head(bytes), Tail(bytes))
    ELSE Failed
===============================================================================
