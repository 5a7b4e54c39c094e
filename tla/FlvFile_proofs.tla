---------------------------- MODULE FlvFile_proofs ----------------------------
(***************************************************************************)
(* What was written whole is read as it was written, for any tags, however *)
(* the reads of one process fall between the writes of the other.          *)
(*                                                                         *)
(* The whole tags lie one behind the other in the file, each at its        *)
(* offset; behind the last of them is what the first writes of the next    *)
(* tag have put there, until something is torn.  A reader that has had n   *)
(* tags is at the offset of the tag behind them, or inside of it, or met   *)
(* the end of the file and goes back to that offset.  So a file goes from  *)
(* NotBegun to Growing, and when a write fails or is short to Behind, as   *)
(* long as the reader has whole tags before it, and then to Past, where    *)
(* nothing more is promised.                                               *)
(***************************************************************************)
EXTENDS FlvFile, SequenceTheorems, TLAPS

HeadersEnd == HeaderSize + PreviousTagSize
TagSize(tag) == TagHeaderSize + Len(tag.data) + PreviousTagSize

\* The head as it is after the header of a tag, and after its data.
HeadOf(tag) == [type |-> tag.type, size |-> Len(tag.data), time |-> TagTime(tag)]
HeadAndData(tag) ==
    [type |-> tag.type, size |-> Len(tag.data), time |-> TagTime(tag), data |-> tag.data]

HeadType == [type : Nat, size : Nat, time : Nat]
FullHeadType == [type : Nat, size : Nat, time : Nat, data : Seq(Nat)]
TagRead == [type : Nat, time : Nat, data : Seq(Nat)]
IovType == [cells : Seq(Nat), last : BOOLEAN]
PCs == {"header", "header's previous tag size", "tag header", "tag data",
        "previous tag size", "eof", "stopped"}

TypeOK ==
    /\ file \in Seq(Nat) /\ iovs \in Seq(IovType) /\ torn \in BOOLEAN
    /\ tags \in Seq(Tags) /\ whole \in Nat
    /\ pc \in PCs /\ pos \in Nat /\ start \in Nat
    /\ head \in HeadType \cup FullHeadType
    /\ pc = "previous tag size" => head \in FullHeadType
    /\ delivered \in Seq(TagRead)

\* A file holds the cells behind the offset at.
Holds(f, at, cells) ==
    /\ at + Len(cells) <= Len(f)
    /\ \A i \in 1..Len(cells) : f[at + i] = cells[i]

HoldsTag(f, at, tag) ==
    /\ Holds(f, at, TagHeader(tag)) /\ Holds(f, at + TagHeaderSize, tag.data)
    /\ at + TagSize(tag) <= Len(f)

\* What the first m of a tag's three iovs have put behind the offset at, and no more.
HoldsPart(f, at, tag, m) ==
    /\ m = 0 => Len(f) = at
    /\ m > 0 => Holds(f, at, TagHeader(tag))
    /\ m = 1 => Len(f) = at + TagHeaderSize
    /\ m = 2 => /\ Holds(f, at + TagHeaderSize, tag.data)
                /\ Len(f) = at + TagHeaderSize + Len(tag.data)

\* The first n of the tags are whole: each begins at its offset, where the tag before
\* it ends; the last offset is where the next tag begins.
Layout(f, ts, n, off) ==
    /\ off \in Seq(Nat) /\ Len(off) = n + 1 /\ off[1] = HeadersEnd
    /\ \A k \in 1..n : off[k + 1] = off[k] + TagSize(ts[k])
    /\ Holds(f, 0, Signature) /\ HeadersEnd <= Len(f)
    /\ \A k \in 1..n : HoldsTag(f, off[k], ts[k])

\* m of the iovs of the tag behind the whole ones are written.
Writing(off, m) ==
    /\ m \in 0..2 /\ (m > 0 => whole < Len(tags))
    /\ HoldsPart(file, off[whole + 1], tags[whole + 1], m)
    /\ Len(iovs) = 3 * Len(tags) - (3 * whole + m)
    /\ \A j \in 1..Len(iovs) : iovs[j] = Planned(tags)[3 * whole + m + j]

\* Where a reader is who has read nothing but, perhaps, the headers of the file.
AtHeaders ==
    /\ delivered = << >> /\ start = 0
    /\ \/ pc = "header" /\ pos = 0
       \/ pc = "header's previous tag size" /\ pos = HeaderSize /\ pos <= Len(file)
       \/ pc = "eof"

\* Where a reader is in the tag behind those that were delivered.
AtTag(at, tag) ==
    /\ start = at
    /\ \/ pc = "tag header" /\ pos = at
       \/ /\ pc = "tag data" /\ head = HeadOf(tag)
          /\ pos = at + TagHeaderSize /\ pos <= Len(file)
       \/ /\ pc = "previous tag size" /\ head = HeadAndData(tag)
          /\ pos = at + TagHeaderSize + Len(tag.data)
          /\ at + TagHeaderSize <= pos /\ pos <= Len(file)
       \/ pc = "eof"

Reading(off) ==
    \/ AtHeaders
    \/ AtTag(off[Len(delivered) + 1], tags[Len(delivered) + 1])

\* The headers of the file are not whole.
NotBegun ==
    /\ ~torn /\ tags = << >> /\ whole = 0 /\ AtHeaders
    /\ \/ file = << >> /\ iovs \in {<< >>, HeaderIovs}
       \/ file = HeaderIovs[1].cells /\ iovs = <<HeaderIovs[2]>>

Growing ==
    /\ ~torn /\ Len(delivered) <= whole
    /\ \E off \in Seq(Nat) :
          /\ Layout(file, tags, whole, off) /\ Reading(off)
          /\ \E m \in 0..2 : Writing(off, m)

\* Something was torn, and the reader has whole tags before it.
Behind ==
    /\ torn /\ Len(delivered) < whole
    /\ \E off \in Seq(Nat) : Layout(file, tags, whole, off) /\ Reading(off)

\* Something was torn, and the reader has had every whole tag: nothing is promised.
Past == torn /\ whole <= Len(delivered)

\* The inductive invariant.
IInv ==
    /\ TypeOK /\ whole <= Len(tags) /\ ReadAsWritten
    /\ NotBegun \/ Growing \/ Behind \/ Past

\* What there is of the tag behind the whole ones.
IsPart(at, tag) ==
    \E m \in 0..2 : (m > 0 => tag \in Tags) /\ HoldsPart(file, at, tag, m)

\* What the file holds of the tag the reader is at.
Stands(at, tag) == (tag \in Tags /\ HoldsTag(file, at, tag)) \/ IsPart(at, tag)

------------------------------------------------------------------------------
\* Digits.

\* Division with a remainder, and that its quotient is the only one.
LEMMA DivMod ==
    ASSUME NEW n \in Nat, NEW d \in Nat, d > 0
    PROVE  /\ n \div d \in Nat /\ n % d \in 0..(d - 1)
           /\ n = d * (n \div d) + (n % d)
OBVIOUS

LEMMA QuotientIs ==
    ASSUME NEW n \in Nat, NEW d \in Nat, d > 0, NEW q \in Nat, NEW r \in 0..(d - 1),
           n = d * q + r
    PROVE  n \div d = q
<1> DEFINE p == n \div d
           s == n % d
<1>1. p \in Nat /\ s \in 0..(d - 1) /\ n = d * p + s
  BY DivMod
<1> HIDE DEF p, s
<1>2. d * (p - q) = r - s
  BY <1>1
<1>3. CASE p > q
  <2>1. d * (p - q) >= d
    BY <1>1, <1>3
  <2>2. QED  BY <1>1, <1>2, <2>1
<1>4. CASE p < q
  <2>1. d * (q - p) >= d
    BY <1>1, <1>4
  <2>2. d * (q - p) = s - r
    BY <1>1
  <2>3. QED  BY <1>1, <2>1, <2>2
<1>5. p = q
  BY <1>1, <1>3, <1>4
<1>6. QED  BY <1>5 DEF p

\* To divide twice is to divide by the product.
LEMMA DivDiv ==
    ASSUME NEW n \in Nat, NEW a \in Nat, a > 0, NEW b \in Nat, b > 0
    PROVE  n \div (a * b) = (n \div a) \div b
<1> DEFINE q == n \div a
           r == n % a
           p == q \div b
           s == q % b
<1>1. q \in Nat /\ r \in 0..(a - 1) /\ n = a * q + r
  BY DivMod
<1>2. p \in Nat /\ s \in 0..(b - 1) /\ q = b * p + s
  BY <1>1, DivMod
<1> HIDE DEF q, r, p, s
<1>3. n = (a * b) * p + (a * s + r)
  BY <1>1, <1>2
<1>4. a * s <= a * (b - 1)
  BY <1>1, <1>2
<1>5. a * s + r \in 0..(a * b - 1)
  BY <1>1, <1>2, <1>4
<1>6. a * b \in Nat /\ a * b > 0
  OBVIOUS
<1>7. n \div (a * b) = p
  BY <1>1, <1>2, <1>3, <1>5, <1>6, QuotientIs
<1>8. QED  BY <1>7 DEF p, q

\* What the digits count.
LEMMA Weights ==
    /\ Weight(0) = 1 /\ Weight(1) = Base /\ Weight(2) = Base * Base
    /\ Weight(3) = Weight(2) * Base
    /\ \A k \in 0..3 : Weight(k) \in Nat /\ Weight(k) > 0
<1> DEFINE two == Base * Base
           three == Base * Base * Base
<1>1. Base \in Nat /\ Base > 1
  BY FlvAssumption
<1>2. two \in Nat /\ two > 0 /\ three = two * Base
  BY <1>1
<1>3. three \in Nat /\ three > 0
  BY <1>1, <1>2
<1>4. Weight(0) = 1 /\ Weight(1) = Base /\ Weight(2) = two /\ Weight(3) = three
  BY DEF Weight
<1> HIDE DEF two, three
<1>5. \A k \in 0..3 : k = 0 \/ k = 1 \/ k = 2 \/ k = 3
  OBVIOUS
<1>6. \A k \in 0..3 : Weight(k) \in Nat /\ Weight(k) > 0
  BY <1>1, <1>2, <1>3, <1>4, <1>5
<1>7. Weight(2) = Base * Base
  BY <1>4 DEF two
<1>8. QED  BY <1>2, <1>4, <1>6, <1>7

\* A number has as many digits as were asked for.
LEMMA DigitsAreDigits ==
    ASSUME NEW n \in Nat, NEW count \in {3, 4}
    PROVE  /\ Digits(n, count) \in Seq(Nat) /\ Len(Digits(n, count)) = count
           /\ \A i \in 1..count : Digits(n, count)[i] \in Nat
<1>1. \A i \in 1..count : count - i \in 0..3
  OBVIOUS
<1>2. \A i \in 1..count : n \div Weight(count - i) \in Nat
  <2> SUFFICES ASSUME NEW i \in 1..count PROVE n \div Weight(count - i) \in Nat
    OBVIOUS
  <2>1. Weight(count - i) \in Nat /\ Weight(count - i) > 0
    BY <1>1, Weights
  <2>2. QED  BY <2>1, DivMod
<1>3. \A i \in 1..count : (n \div Weight(count - i)) % Base \in Nat
  BY <1>2, DivMod, FlvAssumption
<1>4. Digits(n, count) \in [1..count -> Nat]
  BY <1>3 DEF Digits
<1>5. QED  BY <1>4

\* Three digits and what is above them make up the number again.
LEMMA NumberOfDigits ==
    ASSUME NEW n \in Nat, NEW digits, digits = Digits(n, 3)
    PROVE  Number(n \div Weight(3), digits) = n
<1> DEFINE low == n \div Base
           mid == low \div Base
           high == mid \div Base
<1>1. Base \in Nat /\ Base > 0 /\ Weight(2) \in Nat /\ Weight(2) > 0
  BY FlvAssumption, Weights
<1>2. low \in Nat /\ n % Base \in 0..(Base - 1) /\ n = Base * low + (n % Base)
  BY <1>1, DivMod
<1>3. mid \in Nat /\ low % Base \in 0..(Base - 1) /\ low = Base * mid + (low % Base)
  BY <1>1, <1>2, DivMod
<1>4. high \in Nat /\ mid % Base \in 0..(Base - 1) /\ mid = Base * high + (mid % Base)
  BY <1>1, <1>3, DivMod
<1>5. n \div Weight(2) = mid
  BY <1>1, DivDiv, Weights
<1>6. n \div Weight(3) = high
  BY <1>1, <1>5, DivDiv, Weights
<1>7. n \div Weight(1) = low /\ n \div Weight(0) = n
  BY Weights
<1>8. /\ digits[1] = mid % Base /\ digits[2] = low % Base /\ digits[3] = n % Base
  BY <1>5, <1>7 DEF Digits
<1> HIDE DEF low, mid, high
<1>9. Number(high, digits)
      = high * (Base * Base * Base) + (mid % Base) * (Base * Base)
        + (low % Base) * Base + (n % Base)
  BY <1>8, Weights DEF Number
<1>10. n = Base * (Base * (Base * high + (mid % Base)) + (low % Base)) + (n % Base)
  BY <1>2, <1>3, <1>4
<1> DEFINE a == mid % Base
           b == low % Base
           c == n % Base
<1>11. a \in Nat /\ b \in Nat /\ c \in Nat
  BY <1>1, <1>2, <1>3, <1>4
<1> HIDE DEF a, b, c
<1>12. high * (Base * Base * Base) + a * (Base * Base) + b * Base + c
       = Base * (Base * (Base * high + a) + b) + c
  BY <1>1, <1>4, <1>11
<1>13. QED  BY <1>6, <1>9, <1>10, <1>12 DEF a, b, c

\* A number of three digits has nothing above them.
LEMMA SmallNumberOfDigits ==
    ASSUME NEW n \in Nat, n < Weight(3), NEW digits, digits = Digits(n, 3)
    PROVE  Number(0, digits) = n
<1>1. Weight(3) \in Nat /\ Weight(3) > 0
  BY Weights
<1>2. n \div Weight(3) = 0
  BY <1>1, QuotientIs
<1>3. QED  BY <1>2, NumberOfDigits

------------------------------------------------------------------------------
\* Tags.

LEMMA TimesPositive == Times \in Nat /\ Times > 0
<1>1. Weight(3) \in Nat /\ Weight(3) > 0 /\ Base \in Nat /\ Base > 1
  BY Weights, FlvAssumption
<1> DEFINE limit == Weight(3) * Base
<1>2. limit \in Nat /\ limit >= 2
  BY <1>1
<1> HIDE DEF limit
<1>3. limit \div 2 \in Nat /\ limit \div 2 > 0
  BY <1>2
<1>4. QED  BY <1>3 DEF Times, limit

\* What the assumption says of a tag, and what is written of it.
LEMMA TagFields ==
    ASSUME NEW tag \in Tags
    PROVE  /\ tag.type \in Nat /\ tag.type % 32 = tag.type /\ tag.time \in Nat
           /\ TagTime(tag) \in Nat /\ Masked(tag).time = TagTime(tag)
           /\ tag.data \in Seq(Nat) /\ Len(tag.data) \in Nat /\ Len(tag.data) < Weight(3)
           /\ TagSize(tag) = 15 + Len(tag.data) /\ TagSize(tag) \in Nat
<1>1. /\ tag.type \in {8, 9, 18} /\ tag.time \in Nat
      /\ tag.data \in Seq(Nat) /\ Len(tag.data) < Weight(3)
  BY FlvAssumption DEF Audio, Video, Script
<1>2. tag.time % Times \in Nat
  BY <1>1, TimesPositive, DivMod
<1>3. TagTime(tag) \in Nat /\ Masked(tag).time = TagTime(tag)
  BY <1>2 DEF TagTime, Masked
<1>4. tag.type \in Nat /\ tag.type % 32 = tag.type
  BY <1>1
<1>5. Len(tag.data) \in Nat
  BY <1>1
<1>6. QED
  BY <1>1, <1>3, <1>4, <1>5 DEF TagSize, TagHeaderSize, PreviousTagSize

\* The header of a tag says what the tag is.
LEMMA HeaderOfTag ==
    ASSUME NEW tag \in Tags
    PROVE  /\ TagHeader(tag) \in Seq(Nat) /\ Len(TagHeader(tag)) = TagHeaderSize
           /\ Parsed(TagHeader(tag)) = HeadOf(tag)
<1> DEFINE size == Digits(Len(tag.data), 3)
           time == Digits(TagTime(tag), 3)
           high == TagTime(tag) \div Weight(3)
           h == <<tag.type, size[1], size[2], size[3], time[1], time[2], time[3],
                  high, 0, 0, 0>>
<1>1. /\ size \in Seq(Nat) /\ Len(size) = 3 /\ \A i \in 1..3 : size[i] \in Nat
      /\ time \in Seq(Nat) /\ Len(time) = 3 /\ \A i \in 1..3 : time[i] \in Nat
  BY TagFields, DigitsAreDigits
<1>2. high \in Nat
  <2>1. TagTime(tag) \in Nat /\ Weight(3) \in Nat /\ Weight(3) > 0
    BY TagFields, Weights
  <2>2. QED  BY <2>1, DivMod
<1>3. Number(0, size) = Len(tag.data)
  BY TagFields, SmallNumberOfDigits
<1>4. Number(high, time) = TagTime(tag)
  BY TagFields, NumberOfDigits
<1>5. TagHeader(tag) = h
  BY DEF TagHeader
<1>6. tag.type \in Nat /\ tag.type % 32 = tag.type
  BY TagFields
<1> HIDE DEF size, time, high
<1>7. h \in Seq(Nat) /\ Len(h) = 11
  BY <1>1, <1>2, <1>6
<1>8. SubSeq(h, 2, 4) = size /\ SubSeq(h, 5, 7) = time
  <2>1. /\ SubSeq(h, 2, 4) \in Seq(Nat) /\ Len(SubSeq(h, 2, 4)) = 3
        /\ SubSeq(h, 5, 7) \in Seq(Nat) /\ Len(SubSeq(h, 5, 7)) = 3
    BY <1>7
  <2>2. \A i \in 1..3 : SubSeq(h, 2, 4)[i] = h[i + 1] /\ SubSeq(h, 5, 7)[i] = h[i + 4]
    BY <1>7
  <2>3. \A i \in 1..3 : h[i + 1] = size[i] /\ h[i + 4] = time[i]
    OBVIOUS
  <2> HIDE DEF h
  <2>4. \A i \in 1..3 : SubSeq(h, 2, 4)[i] = size[i] /\ SubSeq(h, 5, 7)[i] = time[i]
    BY <2>2, <2>3
  <2>5. QED  BY <1>1, <2>1, <2>4
<1>9. h[1] = tag.type /\ h[8] = high
  OBVIOUS
<1> HIDE DEF h
<1>10. Parsed(h) = HeadOf(tag)
  BY <1>3, <1>4, <1>6, <1>8, <1>9 DEF Parsed, HeadOf
<1>11. QED  BY <1>5, <1>7, <1>10 DEF TagHeaderSize

\* What the three iovs of a tag are.
LEMMA IovsOfTag ==
    ASSUME NEW tag \in Tags
    PROVE  /\ \A i \in 1..3 : TagIovs(tag)[i] \in IovType
           /\ TagIovs(tag)[1] = Iov(TagHeader(tag))
           /\ TagIovs(tag)[2] = Iov(tag.data)
           /\ TagIovs(tag)[3].last
           /\ Len(TagIovs(tag)[3].cells) = PreviousTagSize
<1> DEFINE size == Digits(TagHeaderSize + Len(tag.data), PreviousTagSize)
<1>1. TagHeaderSize + Len(tag.data) \in Nat
  BY TagFields DEF TagHeaderSize
<1>2. size \in Seq(Nat) /\ Len(size) = PreviousTagSize
  BY <1>1, DigitsAreDigits DEF PreviousTagSize
<1> HIDE DEF size
<1>3. TagIovs(tag) = <<Iov(TagHeader(tag)), Iov(tag.data), LastIov(size)>>
  BY DEF TagIovs, size
<1>4. /\ TagIovs(tag)[1] = Iov(TagHeader(tag)) /\ TagIovs(tag)[2] = Iov(tag.data)
      /\ TagIovs(tag)[3] = LastIov(size)
  BY <1>3
<1>5. Iov(TagHeader(tag)) \in IovType /\ Iov(tag.data) \in IovType /\ LastIov(size) \in IovType
  BY <1>2, HeaderOfTag, TagFields DEF Iov, LastIov, IovType
<1>6. \A i \in 1..3 : TagIovs(tag)[i] \in IovType
  <2>1. \A i \in 1..3 : i = 1 \/ i = 2 \/ i = 3
    OBVIOUS
  <2>2. QED  BY <1>4, <1>5, <2>1
<1>7. QED  BY <1>2, <1>4, <1>6 DEF LastIov

\* The iovs of several tags: three for each, in order.
LEMMA IovsOfTags ==
    ASSUME NEW group \in Seq(Tags)
    PROVE  /\ Planned(group) \in Seq(IovType)
           /\ Len(Planned(group)) = 3 * Len(group)
           /\ \A k \in 1..Len(group), i \in 1..3 :
                 Planned(group)[3 * (k - 1) + i] = TagIovs(group[k])[i]
<1> DEFINE n == Len(group)
<1>1. n \in Nat /\ 3 * n \in Nat
  OBVIOUS
<1>2. \A j \in 1..3 * n : ((j - 1) \div 3) + 1 \in 1..n /\ ((j - 1) % 3) + 1 \in 1..3
  BY <1>1
<1>3. \A k \in 1..n : group[k] \in Tags
  OBVIOUS
<1> HIDE DEF n
<1>4. \A j \in 1..3 * n :
         TagIovs(group[((j - 1) \div 3) + 1])[((j - 1) % 3) + 1] \in IovType
  BY <1>2, <1>3, IovsOfTag
<1>5. Planned(group) \in [1..3 * n -> IovType]
  BY <1>4 DEF Planned, n
<1>6. Planned(group) \in Seq(IovType) /\ Len(Planned(group)) = 3 * n
  BY <1>1, <1>5
<1>7. \A k \in 1..n, i \in 1..3 :
         /\ 3 * (k - 1) + i \in 1..3 * n
         /\ ((3 * (k - 1) + i - 1) \div 3) + 1 = k
         /\ ((3 * (k - 1) + i - 1) % 3) + 1 = i
  BY <1>1
<1>8. \A k \in 1..n, i \in 1..3 : Planned(group)[3 * (k - 1) + i] = TagIovs(group[k])[i]
  <2> SUFFICES ASSUME NEW k \in 1..n, NEW i \in 1..3
               PROVE  Planned(group)[3 * (k - 1) + i] = TagIovs(group[k])[i]
    OBVIOUS
  <2> DEFINE x == 3 * (k - 1) + i
  <2>1. x \in 1..3 * n /\ ((x - 1) \div 3) + 1 = k /\ ((x - 1) % 3) + 1 = i
    BY <1>7
  <2> HIDE DEF x
  <2>2. Planned(group)[x] = TagIovs(group[((x - 1) \div 3) + 1])[((x - 1) % 3) + 1]
    BY <2>1 DEF Planned, n
  <2>3. QED  BY <2>1, <2>2 DEF x
<1>9. QED  BY <1>6, <1>8 DEF n

\* More tags have more iovs, behind those of the tags before them.
LEMMA IovsOfMoreTags ==
    ASSUME NEW s \in Seq(Tags), NEW group \in Seq(Tags)
    PROVE  \A j \in 1..3 * Len(group) :
              Planned(s \o group)[3 * Len(s) + j] = Planned(group)[j]
<1> DEFINE m == Len(s)
           n == Len(group)
           all == s \o group
<1>1. m \in Nat /\ n \in Nat /\ all \in Seq(Tags) /\ Len(all) = m + n
  OBVIOUS
<1>2. \A k \in 1..n : all[m + k] = group[k]
  OBVIOUS
<1> HIDE DEF m, n, all
<1>3. \A j \in 1..3 * n :
         /\ 3 * m + j \in 1..3 * (m + n)
         /\ ((3 * m + j - 1) \div 3) + 1 = m + (((j - 1) \div 3) + 1)
         /\ ((3 * m + j - 1) % 3) + 1 = ((j - 1) % 3) + 1
         /\ ((j - 1) \div 3) + 1 \in 1..n
  BY <1>1
<1>4. \A j \in 1..3 * n : Planned(group)[j] = TagIovs(group[((j - 1) \div 3) + 1])[((j - 1) % 3) + 1]
  BY DEF Planned, n
<1>5. \A j \in 1..3 * (m + n) : Planned(all)[j] = TagIovs(all[((j - 1) \div 3) + 1])[((j - 1) % 3) + 1]
  BY <1>1 DEF Planned
<1>6. \A j \in 1..3 * n : Planned(all)[3 * m + j] = Planned(group)[j]
  <2> SUFFICES ASSUME NEW j \in 1..3 * n PROVE Planned(all)[3 * m + j] = Planned(group)[j]
    OBVIOUS
  <2>1. Planned(all)[3 * m + j]
        = TagIovs(all[((3 * m + j - 1) \div 3) + 1])[((3 * m + j - 1) % 3) + 1]
    <3> DEFINE x == 3 * m + j
    <3>1. x \in 1..3 * (m + n)
      BY <1>3
    <3> HIDE DEF x
    <3>2. Planned(all)[x] = TagIovs(all[((x - 1) \div 3) + 1])[((x - 1) % 3) + 1]
      BY <1>5, <3>1
    <3>3. x - 1 = 3 * m + j - 1 /\ x = 3 * m + j
      BY <1>1 DEF x
    <3>4. QED  BY <3>2, <3>3, Zenon
  <2>2. all[((3 * m + j - 1) \div 3) + 1] = group[((j - 1) \div 3) + 1]
    <3> DEFINE k == ((j - 1) \div 3) + 1
               i == ((3 * m + j - 1) \div 3) + 1
    <3>1. k \in 1..n /\ i = m + k
      BY <1>3
    <3> HIDE DEF k, i
    <3>2. all[i] = group[k]
      BY <1>2, <3>1
    <3>3. QED  BY <3>2 DEF k, i
  <2>3. QED  BY <1>3, <1>4, <2>1, <2>2
<1>7. QED  BY <1>6 DEF m, n, all

\* The two iovs of the headers of a file, neither of which ends a tag.
LEMMA IovsOfHeader ==
    /\ HeaderIovs \in Seq(IovType) /\ Len(HeaderIovs) = 2
    /\ HeaderIovs[1] \in IovType /\ ~HeaderIovs[1].last
    /\ HeaderIovs[2] \in IovType /\ ~HeaderIovs[2].last
    /\ Len(HeaderIovs[1].cells) = HeaderSize /\ Len(HeaderIovs[2].cells) = PreviousTagSize
    /\ \A i \in 1..3 : HeaderIovs[1].cells[i] = Signature[i]
<1> DEFINE rest == [i \in 1..HeaderSize - 3 |-> 0]
           none == [i \in 1..PreviousTagSize |-> 0]
           cells == Signature \o rest
<1>1. rest \in Seq(Nat) /\ Len(rest) = 6 /\ none \in Seq(Nat) /\ Len(none) = PreviousTagSize
  BY DEF HeaderSize, PreviousTagSize
<1>2. Signature \in Seq(Nat) /\ Len(Signature) = 3
  BY DEF Signature
<1>3. HeaderIovs = <<Iov(cells), Iov(none)>>
  BY DEF HeaderIovs
<1> HIDE DEF rest, none
<1>4. cells \in Seq(Nat) /\ Len(cells) = 9 /\ \A i \in 1..3 : cells[i] = Signature[i]
  <2>1. /\ cells \in Seq(Nat) /\ Len(cells) = Len(Signature) + Len(rest)
        /\ \A i \in 1..Len(Signature) + Len(rest) :
              cells[i] = IF i <= Len(Signature) THEN Signature[i]
                         ELSE rest[i - Len(Signature)]
    BY <1>1, <1>2, ConcatProperties
  <2> HIDE DEF cells
  <2>2. QED  BY <1>1, <1>2, <2>1
<1> HIDE DEF cells
<1>5. Iov(cells) \in IovType /\ Iov(none) \in IovType
  BY <1>1, <1>4 DEF Iov, IovType
<1>6. HeaderIovs[1] = Iov(cells) /\ HeaderIovs[2] = Iov(none) /\ Len(HeaderIovs) = 2
  BY <1>3
<1>7. HeaderIovs \in Seq(IovType)
  BY <1>3, <1>5
<1>8. QED  BY <1>1, <1>4, <1>5, <1>6, <1>7 DEF Iov, HeaderSize

------------------------------------------------------------------------------
\* Types.

\* What a read gives is as long as was asked for, whatever the file has.
LEMMA GotIsASequence ==
    ASSUME file \in Seq(Nat), pos \in Nat, NEW count \in Nat, NEW junk \in Garbage
    PROVE  /\ Got(count, junk) \in Seq(Nat) /\ Len(Got(count, junk)) = count
           /\ \A i \in 1..count : Got(count, junk)[i] \in Nat
<1>1. junk \in Nat
  BY FlvAssumption
<1>2. \A i \in 1..count : pos + i <= Len(file) => file[pos + i] \in Nat
  OBVIOUS
<1>3. Got(count, junk) \in [1..count -> Nat]
  BY <1>1, <1>2 DEF Got
<1>4. QED  BY <1>3

LEMMA AdvancedIsNat ==
    ASSUME file \in Seq(Nat), pos \in Nat, NEW count \in Nat
    PROVE  Advanced(count) \in Nat
BY DEF Advanced

LEMMA NumberIsNat ==
    ASSUME NEW high \in Nat, NEW digits \in Seq(Nat), Len(digits) = 3
    PROVE  Number(high, digits) \in Nat
<1>1. digits[1] \in Nat /\ digits[2] \in Nat /\ digits[3] \in Nat
  <2>1. 1 \in 1..Len(digits) /\ 2 \in 1..Len(digits) /\ 3 \in 1..Len(digits)
    OBVIOUS
  <2>2. QED  BY <2>1, ElementOfSeq
<1>2. Weight(1) \in Nat /\ Weight(2) \in Nat /\ Weight(3) \in Nat
  BY Weights
<1> DEFINE a == digits[1]  b == digits[2]  c == digits[3]
           u == Weight(1)  v == Weight(2)  w == Weight(3)
<1>3. a \in Nat /\ b \in Nat /\ c \in Nat /\ u \in Nat /\ v \in Nat /\ w \in Nat
  BY <1>1, <1>2
<1> HIDE DEF a, b, c, u, v, w
<1>4. high * w + a * v + b * u + c \in Nat
  BY <1>3
<1>5. QED  BY <1>4 DEF Number, a, b, c, u, v, w

\* Whatever was read, it says some type, size and time.
LEMMA ParsedIsAHead ==
    ASSUME NEW cells \in Seq(Nat), Len(cells) = TagHeaderSize
    PROVE  Parsed(cells) \in HeadType
<1>1. \A i \in 1..11 : cells[i] \in Nat
  BY ElementOfSeq DEF TagHeaderSize
<1>2. /\ SubSeq(cells, 2, 4) \in Seq(Nat) /\ Len(SubSeq(cells, 2, 4)) = 3
      /\ SubSeq(cells, 5, 7) \in Seq(Nat) /\ Len(SubSeq(cells, 5, 7)) = 3
  <2>1. (\A i \in 2..4 : cells[i] \in Nat) /\ (\A i \in 5..7 : cells[i] \in Nat)
    BY <1>1
  <2>2. SubSeq(cells, 2, 4) \in Seq(Nat) /\ Len(SubSeq(cells, 2, 4)) = 3
    BY <2>1, SubSeqProperties
  <2>3. SubSeq(cells, 5, 7) \in Seq(Nat) /\ Len(SubSeq(cells, 5, 7)) = 3
    BY <2>1, SubSeqProperties
  <2>4. QED  BY <2>2, <2>3
<1>3. cells[1] \in Nat /\ cells[8] \in Nat
  BY <1>1
<1>4. cells[1] % 32 \in Nat
  BY <1>3
<1>5. Number(0, SubSeq(cells, 2, 4)) \in Nat /\ Number(cells[8], SubSeq(cells, 5, 7)) \in Nat
  BY <1>2, <1>3, NumberIsNat
<1>6. QED  BY <1>4, <1>5 DEF Parsed, HeadType

\* What ::write() takes of what is to be written.
LEMMA IovTypes ==
    ASSUME TypeOK, iovs # << >>
    PROVE  /\ Head(iovs) \in IovType /\ Head(iovs).cells \in Seq(Nat)
           /\ Head(iovs) = iovs[1] /\ Tail(iovs) \in Seq(IovType)
           /\ Len(iovs) \in Nat /\ Len(iovs) > 0 /\ Len(Tail(iovs)) = Len(iovs) - 1
           /\ \A i \in 1..Len(Tail(iovs)) : Tail(iovs)[i] = iovs[i + 1]
           /\ \A n \in 0..Len(Head(iovs).cells) - 1 : SubSeq(Head(iovs).cells, 1, n) \in Seq(Nat)
<1>1. iovs \in Seq(IovType)
  BY DEF TypeOK
<1>2. /\ Head(iovs) \in IovType /\ Tail(iovs) \in Seq(IovType)
      /\ Len(Tail(iovs)) = Len(iovs) - 1
      /\ \A i \in 1..Len(Tail(iovs)) : Tail(iovs)[i] = iovs[i + 1]
  BY <1>1, HeadTailProperties
<1>3. Len(iovs) \in Nat /\ Len(iovs) > 0
  BY <1>1, EmptySeq
<1>4. Head(iovs) = iovs[1]
  BY <1>1
<1>5. Head(iovs).cells \in Seq(Nat)
  BY <1>2 DEF IovType
<1> DEFINE cells == Head(iovs).cells
<1>6. \A n \in 0..Len(cells) - 1 : SubSeq(cells, 1, n) \in Seq(Nat)
  <2>1. cells \in Seq(Nat)
    BY <1>5
  <2> HIDE DEF cells
  <2> SUFFICES ASSUME NEW n \in 0..Len(cells) - 1 PROVE SubSeq(cells, 1, n) \in Seq(Nat)
    OBVIOUS
  <2>2. Len(cells) \in Nat
    BY <2>1
  <2>3. \A i \in 1..n : cells[i] \in Nat
    BY <2>1, <2>2, ElementOfSeq
  <2>4. n \in Int
    BY <2>2
  <2>5. QED  BY <2>3, <2>4, SubSeqProperties
<1>7. QED  BY <1>2, <1>3, <1>4, <1>5, <1>6

\* What a file is after a write.
LEMMA FileGrows ==
    ASSUME NEW f \in Seq(Nat), NEW cells \in Seq(Nat), NEW g, g = f \o cells
    PROVE  /\ g \in Seq(Nat) /\ Len(f) \in Nat /\ Len(cells) \in Nat
           /\ Len(g) = Len(f) + Len(cells)
           /\ \A i \in 1..Len(f) : g[i] = f[i]
           /\ \A i \in 1..Len(cells) : g[Len(f) + i] = cells[i]
<1>1. /\ g \in Seq(Nat) /\ Len(g) = Len(f) + Len(cells)
      /\ \A i \in 1..Len(f) + Len(cells) :
            g[i] = IF i <= Len(f) THEN f[i] ELSE cells[i - Len(f)]
  BY ConcatProperties
<1>2. Len(f) \in Nat /\ Len(cells) \in Nat
  OBVIOUS
<1>3. \A i \in 1..Len(f) : g[i] = f[i]
  BY <1>1, <1>2
<1>4. \A i \in 1..Len(cells) : g[Len(f) + i] = cells[i]
  <2> SUFFICES ASSUME NEW i \in 1..Len(cells) PROVE g[Len(f) + i] = cells[i]
    OBVIOUS
  <2> DEFINE j == Len(f) + i
  <2>1. j \in 1..Len(f) + Len(cells) /\ ~(j <= Len(f)) /\ j - Len(f) = i
    BY <1>2
  <2> HIDE DEF j
  <2>2. g[j] = cells[j - Len(f)]
    BY <1>1, <2>1
  <2>3. QED  BY <2>1, <2>2 DEF j
<1>5. QED  BY <1>1, <1>2, <1>3, <1>4

\* The types are kept: by an offer of tags, by any writer, by any reader.
LEMMA WriteTagsTypes ==
    ASSUME TypeOK, NEW group \in Seq(Tags), WriteTags(group)
    PROVE  TypeOK' /\ UNCHANGED reader
<1>1. Planned(group) \in Seq(IovType)
  BY IovsOfTags
<1>2. tags \in Seq(Tags)
  BY DEF TypeOK
<1>3. tags \o group \in Seq(Tags)
  BY <1>2, ConcatProperties
<1>4. QED  BY <1>1, <1>3 DEF TypeOK, WriteTags, reader

LEMMA WriterTypes ==
    ASSUME TypeOK,
           \/ WriteHeader \/ \E tag \in Tags : WriteTag(tag)
           \/ \E group \in Groups : WriteTags(group)
           \/ Write \/ ShortWrite \/ WriteFails
    PROVE  TypeOK' /\ UNCHANGED reader
<1>1. CASE WriteHeader
  BY <1>1, IovsOfHeader DEF WriteHeader, TypeOK, reader
<1>2. ASSUME NEW tag \in Tags, WriteTag(tag) PROVE TypeOK' /\ UNCHANGED reader
  <2>1. <<tag>> \in Seq(Tags)
    BY ONLY tag \in Tags
  <2>2. WriteTags(<<tag>>)
    BY <1>2 DEF WriteTag
  <2>3. QED  BY <2>1, <2>2, WriteTagsTypes
<1>3. ASSUME NEW group \in Groups, WriteTags(group) PROVE TypeOK' /\ UNCHANGED reader
  BY <1>3, WriteTagsTypes, FlvAssumption
<1>4. CASE Write
  <2>1. file' \in Seq(Nat) /\ iovs' \in Seq(IovType)
    BY <1>4, IovTypes, FileGrows DEF Write, TypeOK
  <2>2. whole' = whole + 1 \/ whole' = whole
    BY <1>4, Zenon DEF Write
  <2>3. whole' \in Nat
    <3>1. whole \in Nat
      BY DEF TypeOK
    <3>2. QED  BY <2>2, <3>1
  <2>4. QED  BY <1>4, <2>1, <2>3 DEF Write, TypeOK, reader
<1>5. CASE ShortWrite
  <2>1. file' \in Seq(Nat) /\ iovs' \in Seq(IovType)
    BY <1>5, IovTypes, FileGrows DEF ShortWrite, TypeOK
  <2>2. QED  BY <1>5, <2>1 DEF ShortWrite, TypeOK, reader
<1>6. CASE WriteFails
  <2>1. << >> \in Seq(IovType)
    BY EmptySeq
  <2>2. iovs' \in Seq(IovType)
    BY <1>6, <2>1 DEF WriteFails
  <2>3. QED  BY <1>6, <2>2 DEF WriteFails, TypeOK, reader
<1>7. QED  BY <1>1, <1>2, <1>3, <1>4, <1>5, <1>6

LEMMA ReaderTypes ==
    ASSUME TypeOK, Read
    PROVE  TypeOK' /\ UNCHANGED writer
<1>1. HeaderSize \in Nat /\ PreviousTagSize \in Nat /\ TagHeaderSize \in Nat
  BY DEF HeaderSize, PreviousTagSize, TagHeaderSize
<1>2. ASSUME NEW count, Eof(count) PROVE TypeOK' /\ UNCHANGED writer
  BY <1>2 DEF Eof, TypeOK, PCs, writer
<1>3. \A count \in Nat : Advanced(count) \in Nat
  BY AdvancedIsNat DEF TypeOK
<1>4. CASE ReadHeader
  BY <1>1, <1>2, <1>3, <1>4 DEF ReadHeader, TypeOK, PCs, writer
<1>5. CASE ReadHeadersPreviousTagSize
  BY <1>1, <1>2, <1>3, <1>5 DEF ReadHeadersPreviousTagSize, TypeOK, PCs, writer
<1>6. CASE ReadTagHeader
  <2>1. CASE Eof(TagHeaderSize)
    BY <1>2, <2>1
  <2>2. CASE ~IsEof(TagHeaderSize)
    <3>1. ~Eof(TagHeaderSize)
      BY <2>2 DEF Eof
    <3>2. PICK junk \in Garbage : head' = Parsed(Got(TagHeaderSize, junk))
      BY <1>6, <3>1 DEF ReadTagHeader
    <3>3. head' \in HeadType
      BY <1>1, <3>2, GotIsASequence, ParsedIsAHead DEF TypeOK
    <3>4. QED  BY <1>1, <1>3, <1>6, <3>1, <3>3 DEF ReadTagHeader, TypeOK, PCs, writer
  <2>3. QED  BY <1>6, <2>1, <2>2 DEF ReadTagHeader
<1>7. CASE ReadTagData
  <2>1. CASE Eof(head.size)
    BY <1>2, <2>1
  <2>2. CASE ~IsEof(head.size)
    <3>1. ~Eof(head.size)
      BY <2>2 DEF Eof
    <3>2. head.size \in Nat /\ head.type \in Nat /\ head.time \in Nat
      BY DEF TypeOK, HeadType, FullHeadType
    <3>3. PICK junk \in Garbage :
             head' = [type |-> head.type, size |-> head.size, time |-> head.time,
                      data |-> Got(head.size, junk)]
      BY <1>7, <3>1 DEF ReadTagData
    <3>4. Got(head.size, junk) \in Seq(Nat)
      BY <3>2, GotIsASequence DEF TypeOK
    <3>5. head' \in FullHeadType
      BY <3>2, <3>3, <3>4 DEF FullHeadType
    <3>6. QED  BY <1>3, <1>7, <3>1, <3>2, <3>5 DEF ReadTagData, TypeOK, PCs, writer
  <2>3. QED  BY <1>7, <2>1, <2>2 DEF ReadTagData
<1>8. CASE ReadPreviousTagSize
  <2>1. CASE Eof(PreviousTagSize)
    BY <1>2, <2>1
  <2>2. CASE ~IsEof(PreviousTagSize)
    <3>1. ~Eof(PreviousTagSize)
      BY <2>2 DEF Eof
    <3>2. head \in FullHeadType
      BY <1>8 DEF ReadPreviousTagSize, TypeOK
    <3>3. [type |-> head.type, time |-> head.time, data |-> head.data] \in TagRead
      BY <3>2 DEF FullHeadType, TagRead
    <3>4. delivered' \in Seq(TagRead)
      <4>1. delivered \in Seq(TagRead)
        BY DEF TypeOK
      <4>2. QED  BY <1>8, <3>1, <3>3, <4>1, AppendProperties DEF ReadPreviousTagSize
    <3>5. head' \in HeadType
      <4>1. head' = NoHead
        BY <1>8, <3>1 DEF ReadPreviousTagSize
      <4>2. QED  BY <4>1 DEF NoHead, HeadType
    <3>6. QED  BY <1>1, <1>3, <1>8, <3>1, <3>4, <3>5 DEF ReadPreviousTagSize, TypeOK, PCs, writer
  <2>3. QED  BY <1>8, <2>1, <2>2 DEF ReadPreviousTagSize
<1>9. CASE Retry
  <2>1. head' \in HeadType
    BY <1>9 DEF Retry, NoHead, HeadType
  <2>2. QED  BY <1>9, <2>1 DEF Retry, TypeOK, PCs, writer
<1>10. QED  BY <1>4, <1>5, <1>6, <1>7, <1>8, <1>9 DEF Read

LEMMA InitTypes == Init => TypeOK
<1>1. NoHead \in HeadType
  BY DEF NoHead, HeadType
<1>2. << >> \in Seq(Nat) /\ << >> \in Seq(IovType) /\ << >> \in Seq(Tags) /\ << >> \in Seq(TagRead)
  BY EmptySeq
<1>3. Init => torn \in BOOLEAN
  BY Zenon DEF Init
<1>4. QED  BY <1>1, <1>2, <1>3 DEF Init, TypeOK, PCs
------------------------------------------------------------------------------
\* What a file holds.

\* What a file holds it still holds when it is longer.
LEMMA HoldsStill ==
    ASSUME NEW f \in Seq(Nat), NEW cells \in Seq(Nat), NEW g, g = f \o cells,
           NEW at \in Nat, NEW c \in Seq(Nat), Holds(f, at, c)
    PROVE  Holds(g, at, c)
<1>1. /\ Len(f) \in Nat /\ Len(cells) \in Nat /\ Len(g) = Len(f) + Len(cells)
      /\ \A i \in 1..Len(f) : g[i] = f[i]
  BY FileGrows
<1>2. Len(c) \in Nat /\ at + Len(c) <= Len(f) /\ \A i \in 1..Len(c) : f[at + i] = c[i]
  <2>1. at + Len(c) <= Len(f) /\ \A i \in 1..Len(c) : f[at + i] = c[i]
    BY Zenon DEF Holds
  <2>2. Len(c) \in Nat
    BY LenProperties
  <2>3. QED  BY <2>1, <2>2
<1>3. \A i \in 1..Len(c) : at + i \in 1..Len(f)
  BY <1>1, <1>2
<1>4. \A i \in 1..Len(c) : g[at + i] = c[i]
  BY <1>1, <1>2, <1>3
<1>5. QED  BY <1>1, <1>2, <1>4 DEF Holds

\* What is written is behind what there was.
LEMMA HoldsWhatIsWritten ==
    ASSUME NEW f \in Seq(Nat), NEW cells \in Seq(Nat), NEW g, g = f \o cells
    PROVE  Holds(g, Len(f), cells) /\ Len(g) = Len(f) + Len(cells)
BY FileGrows DEF Holds

LEMMA HoldsTagStill ==
    ASSUME NEW f \in Seq(Nat), NEW cells \in Seq(Nat), NEW g, g = f \o cells,
           NEW at \in Nat, NEW tag \in Tags, HoldsTag(f, at, tag)
    PROVE  HoldsTag(g, at, tag)
<1>1. TagHeader(tag) \in Seq(Nat) /\ tag.data \in Seq(Nat) /\ TagSize(tag) \in Nat
  BY HeaderOfTag, TagFields
<1>2. at + TagHeaderSize \in Nat
  BY DEF TagHeaderSize
<1>3. Holds(g, at, TagHeader(tag))
  BY <1>1, HoldsStill DEF HoldsTag
<1>4. Holds(g, at + TagHeaderSize, tag.data)
  BY <1>1, <1>2, HoldsStill DEF HoldsTag
<1>5. Len(f) \in Nat /\ Len(cells) \in Nat /\ Len(g) = Len(f) + Len(cells)
  BY FileGrows
<1>6. at + TagSize(tag) <= Len(g)
  BY <1>1, <1>5 DEF HoldsTag
<1>7. QED  BY <1>3, <1>4, <1>6 DEF HoldsTag

\* The offsets of the whole tags, and the one behind them.
LEMMA OffsetsAreNat ==
    ASSUME NEW f, NEW ts \in Seq(Tags), NEW n \in 0..Len(ts), NEW off, Layout(f, ts, n, off)
    PROVE  /\ n \in Nat /\ \A k \in 1..(n + 1) : off[k] \in Nat /\ off[k] > 0
           /\ \A k \in 1..n : ts[k] \in Tags
<1>1. n \in Nat /\ off \in Seq(Nat) /\ Len(off) = n + 1 /\ off[1] = 13
  BY DEF Layout, HeadersEnd, HeaderSize, PreviousTagSize
<1>2. \A k \in 1..n : ts[k] \in Tags
  OBVIOUS
<1>3. \A k \in 1..(n + 1) : off[k] \in Nat
  BY <1>1
<1>4. \A k \in 1..n : off[k + 1] > 0
  <2> SUFFICES ASSUME NEW k \in 1..n PROVE off[k + 1] > 0
    OBVIOUS
  <2>1. off[k + 1] = off[k] + TagSize(ts[k])
    BY DEF Layout
  <2>2. TagSize(ts[k]) = 15 + Len(ts[k].data) /\ Len(ts[k].data) \in Nat
    BY <1>2, TagFields
  <2>3. off[k] \in Nat
    BY <1>3
  <2>4. QED  BY <2>1, <2>2, <2>3
<1>5. \A k \in 1..(n + 1) : off[k] > 0
  <2> SUFFICES ASSUME NEW k \in 1..(n + 1) PROVE off[k] > 0
    OBVIOUS
  <2>1. CASE k = 1
    BY <1>1, <2>1
  <2>2. CASE k # 1
    <3> DEFINE j == k - 1
    <3>1. j \in 1..n /\ j + 1 = k
      BY <1>1, <2>2
    <3> HIDE DEF j
    <3>2. QED  BY <1>4, <3>1
  <2>3. QED  BY <2>1, <2>2
<1>6. QED  BY <1>1, <1>2, <1>3, <1>5

\* The whole tags lie where they were when the file is longer, when more tags are
\* offered, and when one more tag is whole.
LEMMA LayoutOfLongerFile ==
    ASSUME NEW f \in Seq(Nat), NEW cells \in Seq(Nat), NEW g, g = f \o cells,
           NEW ts \in Seq(Tags), NEW n \in 0..Len(ts), NEW off, Layout(f, ts, n, off)
    PROVE  Layout(g, ts, n, off)
<1>1. \A k \in 1..n : HoldsTag(f, off[k], ts[k])
  BY DEF Layout
<1>2. \A k \in 1..n : off[k] \in Nat /\ ts[k] \in Tags
  <2>1. /\ n \in Nat /\ \A k \in 1..(n + 1) : off[k] \in Nat
        /\ \A k \in 1..n : ts[k] \in Tags
    BY OffsetsAreNat
  <2>2. QED  BY <2>1
<1>3. \A k \in 1..n : HoldsTag(g, off[k], ts[k])
  BY <1>1, <1>2, HoldsTagStill
<1>4. Signature \in Seq(Nat)
  BY DEF Signature
<1>5. Holds(g, 0, Signature)
  BY <1>4, HoldsStill DEF Layout
<1>6. Len(f) \in Nat /\ Len(cells) \in Nat /\ Len(g) = Len(f) + Len(cells)
  BY FileGrows
<1>7. HeadersEnd \in Nat
  BY DEF HeadersEnd, HeaderSize, PreviousTagSize
<1>8. HeadersEnd <= Len(g)
  BY <1>6, <1>7 DEF Layout
<1>9. QED  BY <1>3, <1>5, <1>8 DEF Layout

LEMMA LayoutOfMoreTags ==
    ASSUME NEW f, NEW ts, NEW us, NEW n, NEW off, Layout(f, ts, n, off),
           \A k \in 1..n : us[k] = ts[k]
    PROVE  Layout(f, us, n, off)
BY DEF Layout

LEMMA LayoutWithTheNextTag ==
    ASSUME NEW f, NEW ts \in Seq(Tags), NEW n \in 0..Len(ts), n < Len(ts), NEW off,
           Layout(f, ts, n, off), HoldsTag(f, off[n + 1], ts[n + 1]),
           NEW longer, longer = Append(off, off[n + 1] + TagSize(ts[n + 1]))
    PROVE  /\ Layout(f, ts, n + 1, longer)
           /\ \A k \in 1..(n + 1) : longer[k] = off[k]
           /\ longer[n + 2] = off[n + 1] + TagSize(ts[n + 1])
<1> DEFINE end == off[n + 1] + TagSize(ts[n + 1])
<1>1. n \in Nat /\ n + 1 \in 1..Len(ts) /\ n + 1 \in 1..(n + 1)
  OBVIOUS
<1>2. off[n + 1] \in Nat
  BY <1>1, OffsetsAreNat
<1>3. ts[n + 1] \in Tags
  BY <1>1, ElementOfSeq
<1>4. end \in Nat
  BY <1>2, <1>3, TagFields
<1>5. off \in Seq(Nat) /\ Len(off) = n + 1 /\ longer = Append(off, end)
  BY DEF Layout
<1> HIDE DEF end
<1>6. /\ longer \in Seq(Nat) /\ Len(longer) = n + 2
      /\ \A k \in 1..(n + 1) : longer[k] = off[k]
      /\ longer[n + 2] = end
  <2>1. /\ longer \in Seq(Nat) /\ Len(longer) = Len(off) + 1
        /\ \A k \in 1..Len(off) : longer[k] = off[k]
        /\ longer[Len(off) + 1] = end
    BY <1>4, <1>5, AppendProperties
  <2>2. Len(off) + 1 = n + 2
    BY <1>1, <1>5
  <2>3. QED  BY <1>5, <2>1, <2>2
<1>7. \A k \in 1..n : k \in 1..(n + 1) /\ k + 1 \in 1..(n + 1)
  BY <1>1
<1>8. \A k \in 1..(n + 1) : k \in 1..n \/ k = n + 1
  BY <1>1
<1>9. n + 1 + 1 = n + 2 /\ 1 \in 1..(n + 1)
  BY <1>1
<1>10. \A k \in 1..(n + 1) : longer[k + 1] = longer[k] + TagSize(ts[k])
  <2> SUFFICES ASSUME NEW k \in 1..(n + 1) PROVE longer[k + 1] = longer[k] + TagSize(ts[k])
    OBVIOUS
  <2>1. CASE k \in 1..n
    BY <1>6, <1>7, <2>1 DEF Layout
  <2>2. CASE k = n + 1
    BY <1>1, <1>6, <1>9, <2>2 DEF end
  <2>3. QED  BY <1>8, <2>1, <2>2
<1>11. \A k \in 1..(n + 1) : HoldsTag(f, longer[k], ts[k])
  <2> SUFFICES ASSUME NEW k \in 1..(n + 1) PROVE HoldsTag(f, longer[k], ts[k])
    OBVIOUS
  <2>1. longer[k] = off[k]
    BY <1>6
  <2>2. CASE k \in 1..n
    BY <2>1, <2>2 DEF Layout
  <2>3. CASE k = n + 1
    BY <2>1, <2>3
  <2>4. QED  BY <1>8, <2>2, <2>3
<1>12. Layout(f, ts, n + 1, longer)
  BY <1>6, <1>9, <1>10, <1>11 DEF Layout
<1>13. QED  BY <1>6, <1>12 DEF end

------------------------------------------------------------------------------
\* The reader.

\* A read of what the file holds gives it, and whatever junk there is does not show.
LEMMA GotWhatIsHeld ==
    ASSUME TypeOK, NEW cells \in Seq(Nat), Holds(file, pos, cells), NEW junk \in Garbage
    PROVE  Got(Len(cells), junk) = cells /\ Advanced(Len(cells)) = pos + Len(cells)
<1>1. file \in Seq(Nat) /\ pos \in Nat /\ Len(cells) \in Nat
  BY LenProperties DEF TypeOK
<1>2. pos + Len(cells) <= Len(file) /\ \A i \in 1..Len(cells) : file[pos + i] = cells[i]
  BY Zenon DEF Holds
<1>3. Got(Len(cells), junk) \in Seq(Nat) /\ Len(Got(Len(cells), junk)) = Len(cells)
  BY <1>1, GotIsASequence
<1>4. Len(file) \in Nat
  BY <1>1
<1>5. \A i \in 1..Len(cells) : pos + i <= Len(file)
  BY <1>1, <1>2, <1>4
<1>6. \A i \in 1..Len(cells) : Got(Len(cells), junk)[i] = cells[i]
  BY <1>2, <1>5 DEF Got
<1>7. Got(Len(cells), junk) = cells
  BY <1>3, <1>6, SeqEqual
<1>8. QED  BY <1>2, <1>7 DEF Advanced

\* The end of the file: the reader is where it was.
LEMMA EofStays ==
    ASSUME NEW count, Eof(count), NEW off, Reading(off)
    PROVE  Reading(off)' /\ UNCHANGED <<delivered, writer>>
<1>1. pc' = "eof" /\ UNCHANGED <<pos, start, head, delivered, writer>>
  BY DEF Eof
<1>2. CASE AtHeaders
  BY <1>1, <1>2 DEF AtHeaders, Reading
<1>3. CASE AtTag(off[Len(delivered) + 1], tags[Len(delivered) + 1])
  BY <1>1, <1>3 DEF AtTag, Reading, writer
<1>4. QED  BY <1>2, <1>3 DEF Reading

\* The first of the headers of a file, when it is there.
LEMMA FirstHeaderIsRead ==
    ASSUME TypeOK, AtHeaders, Holds(file, 0, Signature), HeaderSize <= Len(file), ReadHeader
    PROVE  AtHeaders' /\ UNCHANGED <<delivered, writer>>
<1>1. HeaderSize = 9 /\ file \in Seq(Nat) /\ Len(file) \in Nat
  <2>1. file \in Seq(Nat)
    BY DEF TypeOK
  <2>2. QED  BY <2>1, LenProperties DEF HeaderSize
<1>2. pos = 0 /\ start = 0 /\ delivered = << >>
  <2>1. pc = "header"
    BY DEF ReadHeader
  <2>2. QED  BY <2>1 DEF AtHeaders
<1>3. CASE Eof(HeaderSize)
  BY <1>2, <1>3 DEF Eof, AtHeaders
<1>4. CASE ~Eof(HeaderSize)
  <2>1. PICK junk \in Garbage :
           pc' = IF SubSeq(Got(HeaderSize, junk), 1, 3) = Signature
                 THEN "header's previous tag size" ELSE "stopped"
    BY <1>4 DEF ReadHeader
  <2>2. /\ pos' = Advanced(HeaderSize)
        /\ UNCHANGED <<start, head, delivered, writer>>
    BY <1>4 DEF ReadHeader
  <2> DEFINE got == Got(HeaderSize, junk)
             sub == SubSeq(got, 1, 3)
  <2>3. \A i \in 1..9 : got[i] = IF pos + i <= Len(file) THEN file[pos + i] ELSE junk
    BY <1>1 DEF Got
  <2>4. got \in Seq(Nat) /\ Len(got) = 9
    BY <1>1, <1>2, GotIsASequence
  <2> HIDE DEF got
  <2>5. \A i \in 1..3 : got[i] \in Nat
    <3>1. \A i \in 1..3 : i \in 1..Len(got)
      BY <2>4
    <3>2. QED  BY <2>4, <3>1, ElementOfSeq
  <2>6. sub \in Seq(Nat) /\ Len(sub) = 3 /\ \A i \in 1..3 : sub[i] = got[i]
    <3>1. /\ sub \in Seq(Nat) /\ Len(sub) = IF 1 <= 3 THEN 3 - 1 + 1 ELSE 0
          /\ \A i \in 1..(3 - 1 + 1) : sub[i] = got[1 + i - 1]
      BY <2>5, SubSeqProperties
    <3> HIDE DEF sub
    <3>2. QED  BY <3>1
  <2> HIDE DEF sub
  <2>7. Signature \in Seq(Nat) /\ Len(Signature) = 3
    BY DEF Signature
  <2>8. \A i \in 1..3 : file[0 + i] = Signature[i]
    BY <2>7, Zenon DEF Holds
  <2>9. \A i \in 1..3 : i \in 1..9 /\ 0 + i <= Len(file)
    BY <1>1
  <2>10. \A i \in 1..3 : got[i] = Signature[i]
    BY <1>2, <2>3, <2>8, <2>9
  <2>11. sub = Signature
    BY <2>6, <2>7, <2>10, SeqEqual
  <2>12. pc' = "header's previous tag size"
    BY <2>1, <2>11 DEF sub, got
  <2>13. pos' = 9 /\ pos' <= Len(file)
    BY <1>1, <1>2, <2>2 DEF Advanced
  <2>14. AtHeaders'
    BY <1>1, <1>2, <2>2, <2>12, <2>13 DEF AtHeaders, writer
  <2>15. QED  BY <2>2, <2>14
<1>5. QED  BY <1>3, <1>4

\* The headers of a file that is whole as far as they go.
LEMMA HeadersAreRead ==
    ASSUME TypeOK, AtHeaders, NEW off, off[1] = HeadersEnd,
           Holds(file, 0, Signature), HeadersEnd <= Len(file),
           ReadHeader \/ ReadHeadersPreviousTagSize
    PROVE  Reading(off)' /\ UNCHANGED <<delivered, writer>>
<1>1. HeaderSize = 9 /\ PreviousTagSize = 4 /\ HeadersEnd = 13
  BY DEF HeadersEnd, HeaderSize, PreviousTagSize
<1>2. file \in Seq(Nat) /\ Len(file) \in Nat
  <2>1. file \in Seq(Nat)
    BY DEF TypeOK
  <2>2. QED  BY <2>1, LenProperties
<1>3. Reading(off)
  BY DEF Reading
<1>4. CASE ReadHeader
  <2>1. HeaderSize <= Len(file)
    BY <1>1, <1>2
  <2>2. AtHeaders' /\ UNCHANGED <<delivered, writer>>
    BY <1>4, <2>1, FirstHeaderIsRead
  <2>3. QED  BY <2>2 DEF Reading
<1>5. CASE ReadHeadersPreviousTagSize
  <2>1. pc = "header's previous tag size"
    BY <1>5 DEF ReadHeadersPreviousTagSize
  <2>2. pos = 9 /\ start = 0 /\ delivered = << >>
    BY <1>1, <2>1 DEF AtHeaders
  <2>3. CASE Eof(PreviousTagSize)
    BY <1>3, <2>3, EofStays
  <2>4. CASE ~Eof(PreviousTagSize)
    <3>1. /\ pc' = "tag header" /\ pos' = Advanced(PreviousTagSize)
          /\ start' = Advanced(PreviousTagSize)
          /\ UNCHANGED <<head, delivered, writer>>
      BY <1>5, <2>4 DEF ReadHeadersPreviousTagSize
    <3>2. Advanced(PreviousTagSize) = HeadersEnd
      BY <1>1, <1>2, <2>2 DEF Advanced
    <3>3. off[Len(delivered') + 1] = HeadersEnd
      <4>1. delivered' = << >>
        BY <2>2, <3>1
      <4>2. Len(<< >>) + 1 = 1
        OBVIOUS
      <4>3. QED  BY <4>1, <4>2
    <3>4. QED  BY <3>1, <3>2, <3>3 DEF Reading, AtTag
  <2>5. QED  BY <2>3, <2>4
<1>6. QED  BY <1>4, <1>5

\* A read that gives something began inside of the file.
LEMMA NotAtTheEnd ==
    ASSUME TypeOK, NEW count, ~IsEof(count)
    PROVE  pos < Len(file) /\ Len(file) \in Nat /\ pos \in Nat
<1>1. file \in Seq(Nat) /\ pos \in Nat
  BY DEF TypeOK
<1>2. Len(file) \in Nat
  BY <1>1, LenProperties
<1>3. ~(pos >= Len(file))
  BY DEF IsEof
<1>4. QED  BY <1>1, <1>2, <1>3

\* What a reader has read of a tag is what was written of it: its header, its data,
\* and all of it.
LEMMA TagHeaderIsRead ==
    ASSUME TypeOK, NEW at \in Nat, NEW tag, AtTag(at, tag), Stands(at, tag), ReadTagHeader,
           ~Eof(TagHeaderSize)
    PROVE  /\ pc' = "tag data" /\ head' = HeadOf(tag) /\ pos' = at + TagHeaderSize
           /\ pos' <= Len(file) /\ UNCHANGED <<start, delivered, writer>>
<1>1. PICK junk \in Garbage : head' = Parsed(Got(TagHeaderSize, junk))
  BY DEF ReadTagHeader
<1>2. /\ pc = "tag header" /\ pc' = "tag data" /\ pos' = Advanced(TagHeaderSize)
      /\ ~IsEof(TagHeaderSize) /\ UNCHANGED <<start, delivered, writer>>
  BY DEF ReadTagHeader
<1>3. pos = at
  BY <1>2 DEF AtTag
<1>4. pos < Len(file) /\ Len(file) \in Nat
  BY <1>2, NotAtTheEnd
<1>5. pos < Len(file)
  BY <1>4
<1>6. tag \in Tags /\ Holds(file, at, TagHeader(tag))
  <2>1. CASE tag \in Tags /\ HoldsTag(file, at, tag)
    BY <2>1 DEF HoldsTag
  <2>2. ASSUME NEW m \in 0..2, m > 0 => tag \in Tags, HoldsPart(file, at, tag, m)
        PROVE  tag \in Tags /\ Holds(file, at, TagHeader(tag))
    <3>1. m # 0
      BY <1>3, <1>5, <2>2 DEF HoldsPart
    <3>2. m > 0
      BY <3>1
    <3>3. QED  BY <2>2, <3>2 DEF HoldsPart
  <2>3. QED  BY <2>1, <2>2 DEF Stands, IsPart
<1>7. /\ TagHeader(tag) \in Seq(Nat) /\ Len(TagHeader(tag)) = TagHeaderSize
      /\ Parsed(TagHeader(tag)) = HeadOf(tag)
  BY <1>6, HeaderOfTag
<1>8. /\ Got(TagHeaderSize, junk) = TagHeader(tag)
      /\ Advanced(TagHeaderSize) = pos + TagHeaderSize
  <2> DEFINE cells == TagHeader(tag)
  <2>1. cells \in Seq(Nat) /\ Len(cells) = TagHeaderSize /\ Holds(file, pos, cells)
    BY <1>3, <1>6, <1>7
  <2> HIDE DEF cells
  <2>2. Got(Len(cells), junk) = cells /\ Advanced(Len(cells)) = pos + Len(cells)
    BY <2>1, GotWhatIsHeld
  <2>3. QED  BY <2>1, <2>2 DEF cells
<1>9. at + TagHeaderSize <= Len(file)
  BY <1>6, <1>7 DEF Holds
<1>10. QED  BY <1>1, <1>2, <1>3, <1>7, <1>8, <1>9

LEMMA TagDataIsRead ==
    ASSUME TypeOK, NEW at \in Nat, NEW tag, AtTag(at, tag), Stands(at, tag), ReadTagData,
           ~Eof(head.size)
    PROVE  /\ pc' = "previous tag size" /\ head' = HeadAndData(tag)
           /\ pos' = at + TagHeaderSize + Len(tag.data)
           /\ at + TagHeaderSize <= pos' /\ pos' <= Len(file)
           /\ UNCHANGED <<start, delivered, writer>>
<1>1. PICK junk \in Garbage :
         head' = [type |-> head.type, size |-> head.size, time |-> head.time,
                  data |-> Got(head.size, junk)]
  BY DEF ReadTagData
<1>2. /\ pc = "tag data" /\ pc' = "previous tag size" /\ pos' = Advanced(head.size)
      /\ ~IsEof(head.size) /\ UNCHANGED <<start, delivered, writer>>
  BY DEF ReadTagData
<1>3. pos = at + TagHeaderSize /\ pos <= Len(file) /\ head = HeadOf(tag)
  BY <1>2 DEF AtTag
<1>4. Len(file) \in Nat /\ TagHeaderSize = 11 /\ pos \in Nat
  BY <1>2, NotAtTheEnd DEF TagHeaderSize
<1>5. pos < Len(file)
  BY <1>2, NotAtTheEnd
<1>6. tag \in Tags /\ Holds(file, at + TagHeaderSize, tag.data)
  <2>1. CASE tag \in Tags /\ HoldsTag(file, at, tag)
    BY <2>1 DEF HoldsTag
  <2>2. ASSUME NEW m \in 0..2, m > 0 => tag \in Tags, HoldsPart(file, at, tag, m)
        PROVE  tag \in Tags /\ Holds(file, at + TagHeaderSize, tag.data)
    <3>1. m = 0 => Len(file) = at
      BY <2>2 DEF HoldsPart
    <3>2. m = 1 => Len(file) = at + TagHeaderSize
      BY <2>2 DEF HoldsPart
    <3>3. m = 2
      BY <1>3, <1>4, <1>5, <3>1, <3>2
    <3>4. QED  BY <2>2, <3>3 DEF HoldsPart
  <2>3. QED  BY <2>1, <2>2 DEF Stands, IsPart
<1>7. /\ tag.data \in Seq(Nat) /\ Len(tag.data) \in Nat
  BY <1>6, TagFields
<1>8. head.type = tag.type /\ head.size = Len(tag.data) /\ head.time = TagTime(tag)
  BY <1>3 DEF HeadOf
<1>9. Got(head.size, junk) = tag.data /\ Advanced(head.size) = pos + Len(tag.data)
  <2> DEFINE cells == tag.data
  <2>1. cells \in Seq(Nat) /\ Len(cells) = head.size /\ Holds(file, pos, cells)
    BY <1>3, <1>6, <1>7, <1>8
  <2> HIDE DEF cells
  <2>2. Got(Len(cells), junk) = cells /\ Advanced(Len(cells)) = pos + Len(cells)
    BY <2>1, GotWhatIsHeld
  <2>3. QED  BY <2>1, <2>2 DEF cells
<1>10. at + TagHeaderSize + Len(tag.data) <= Len(file)
  BY <1>6 DEF Holds
<1>11. head' = HeadAndData(tag)
  BY <1>1, <1>8, <1>9 DEF HeadAndData
<1>12. pos' = at + TagHeaderSize + Len(tag.data)
  BY <1>2, <1>3, <1>9
<1>13. at + TagHeaderSize <= at + TagHeaderSize + Len(tag.data)
  <2> DEFINE n == Len(tag.data)
  <2>1. n \in Nat /\ TagHeaderSize = 11
    BY <1>4, <1>7
  <2> HIDE DEF n
  <2>2. at + TagHeaderSize <= at + TagHeaderSize + n
    BY <2>1
  <2>3. QED  BY <2>2 DEF n
<1>14. QED  BY <1>2, <1>10, <1>11, <1>12, <1>13

\* What there is of a tag that is not whole ends before its previous tag size.
LEMMA PartIsNotDelivered ==
    ASSUME TypeOK, NEW at \in Nat, NEW tag, AtTag(at, tag), ReadPreviousTagSize,
           NEW m \in 0..2, HoldsPart(file, at, tag, m)
    PROVE  Eof(PreviousTagSize)
<1> SUFFICES ASSUME ~Eof(PreviousTagSize) PROVE FALSE
  OBVIOUS
<1>1. pc = "previous tag size" /\ ~IsEof(PreviousTagSize)
  BY DEF ReadPreviousTagSize
<1>2. pos < Len(file) /\ Len(file) \in Nat /\ pos \in Nat
  BY <1>1, NotAtTheEnd
<1>3. pos = at + TagHeaderSize + Len(tag.data) /\ at + TagHeaderSize <= pos
  BY <1>1 DEF AtTag
<1>4. /\ m = 0 => Len(file) = at
      /\ m = 1 => Len(file) = at + TagHeaderSize
      /\ m = 2 => Len(file) = at + TagHeaderSize + Len(tag.data)
  BY DEF HoldsPart
<1>5. m = 0 \/ m = 1 \/ m = 2
  OBVIOUS
<1>6. CASE m = 0
  <2>1. Len(file) = at /\ TagHeaderSize = 11
    BY <1>4, <1>6 DEF TagHeaderSize
  <2>2. at + TagHeaderSize <= pos
    BY <1>3
  <2>3. QED  BY <1>2, <2>1, <2>2
<1>7. CASE m = 1
  <2>1. Len(file) = at + TagHeaderSize /\ at + TagHeaderSize <= pos
    BY <1>3, <1>4, <1>7
  <2>2. QED  BY <1>2, <2>1
<1>8. CASE m = 2
  <2>1. Len(file) = pos
    BY <1>3, <1>4, <1>8
  <2>2. QED  BY <1>2, <2>1
<1>9. QED  BY <1>5, <1>6, <1>7, <1>8

\* A tag is delivered as it was written, and the reader is at the next one.
LEMMA TagIsDelivered ==
    ASSUME TypeOK, NEW at \in Nat, NEW tag \in Tags, AtTag(at, tag), HoldsTag(file, at, tag),
           ReadPreviousTagSize, ~Eof(PreviousTagSize)
    PROVE  /\ pc' = "tag header" /\ pos' = at + TagSize(tag) /\ start' = pos'
           /\ delivered' = Append(delivered, Masked(tag)) /\ UNCHANGED writer
<1>1. /\ pc = "previous tag size" /\ pc' = "tag header"
      /\ pos' = Advanced(PreviousTagSize) /\ start' = Advanced(PreviousTagSize)
      /\ delivered' =
           Append(delivered, [type |-> head.type, time |-> head.time, data |-> head.data])
      /\ ~IsEof(PreviousTagSize) /\ UNCHANGED writer
  BY DEF ReadPreviousTagSize
<1>2. head = HeadAndData(tag) /\ pos = at + TagHeaderSize + Len(tag.data)
  BY <1>1 DEF AtTag
<1>3. /\ TagSize(tag) = 15 + Len(tag.data) /\ Len(tag.data) \in Nat
      /\ Masked(tag).time = TagTime(tag)
  BY TagFields
<1>4. at + TagSize(tag) <= Len(file)
  BY DEF HoldsTag
<1>5. pos + PreviousTagSize = at + TagSize(tag)
  <2>1. TagHeaderSize = 11 /\ PreviousTagSize = 4
    BY DEF TagHeaderSize, PreviousTagSize
  <2> DEFINE n == Len(tag.data)
  <2>2. n \in Nat /\ pos = at + TagHeaderSize + n /\ TagSize(tag) = 15 + n
    BY <1>2, <1>3
  <2> HIDE DEF n
  <2>3. QED  BY <2>1, <2>2
<1>6. Advanced(PreviousTagSize) = at + TagSize(tag)
  BY <1>4, <1>5 DEF Advanced
<1>7. /\ head.type = tag.type /\ head.time = TagTime(tag) /\ head.data = tag.data
  BY <1>2 DEF HeadAndData
<1>8. [type |-> head.type, time |-> head.time, data |-> head.data] = Masked(tag)
  <2>1. Masked(tag) = [type |-> tag.type, data |-> tag.data, time |-> Masked(tag).time]
    BY DEF Masked
  <2>2. QED  BY <1>3, <1>7, <2>1
<1>9. QED  BY <1>1, <1>6, <1>8

\* Whatever a reader does, it is in the tag behind those it had, and had them as they
\* were written; it gets no further than the whole tags.
LEMMA ReaderHolds ==
    ASSUME TypeOK, whole <= Len(tags), Len(delivered) <= whole, ReadAsWritten,
           NEW off, Layout(file, tags, whole, off), Reading(off), Read,
           Len(delivered) = whole => IsPart(off[whole + 1], tags[whole + 1])
    PROVE  /\ Reading(off)' /\ UNCHANGED writer
           /\ \A i \in 1..whole : i <= Len(delivered') => delivered'[i] = Masked(tags[i])
           /\ Len(delivered') <= whole
<1> DEFINE d == Len(delivered)
           at == off[d + 1]
           tag == tags[d + 1]
<1>1. d \in Nat /\ whole \in 0..Len(tags) /\ d <= whole
  <2>1. delivered \in Seq(TagRead) /\ whole \in Nat /\ tags \in Seq(Tags)
    BY DEF TypeOK
  <2>2. QED  BY <2>1, LenProperties
<1>2. at \in Nat /\ at > 0
  <2>1. tags \in Seq(Tags)
    BY DEF TypeOK
  <2>2. d + 1 \in 1..(whole + 1)
    BY <1>1
  <2>3. \A k \in 1..(whole + 1) : off[k] \in Nat /\ off[k] > 0
    BY <1>1, <2>1, OffsetsAreNat
  <2>4. QED  BY <2>2, <2>3
<1>3. \A i \in 1..whole : i <= d => delivered[i] = Masked(tags[i])
  BY DEF ReadAsWritten
<1>4. /\ d < whole => tag \in Tags /\ HoldsTag(file, at, tag)
      /\ d = whole => IsPart(at, tag)
      /\ Stands(at, tag)
  <2>1. d = whole => IsPart(at, tag)
    OBVIOUS
  <2>2. ASSUME d < whole PROVE tag \in Tags /\ HoldsTag(file, at, tag)
    <3>1. d + 1 \in 1..whole /\ d + 1 \in 1..Len(tags)
      BY <1>1, <2>2
    <3>2. tags \in Seq(Tags)
      BY DEF TypeOK
    <3>3. tag \in Tags
      BY <3>1, <3>2, ElementOfSeq
    <3>4. HoldsTag(file, at, tag)
      BY <3>1 DEF Layout
    <3>5. QED  BY <3>3, <3>4
  <2>3. d < whole \/ d = whole
    BY <1>1
  <2>4. QED  BY <2>1, <2>2, <2>3 DEF Stands, IsPart
<1> DEFINE Same == Reading(off)' /\ UNCHANGED <<delivered, writer>>
<1>5. ASSUME Same PROVE UNCHANGED delivered /\ UNCHANGED writer /\ Reading(off)'
                        /\ Len(delivered') <= whole
                        /\ \A i \in 1..whole : i <= Len(delivered') => delivered'[i] = Masked(tags[i])
  BY <1>1, <1>3, <1>5
<1>6. ASSUME NEW count, Eof(count) PROVE Same
  BY <1>6, EofStays
<1>7. CASE ReadHeader \/ ReadHeadersPreviousTagSize
  <2>1. AtHeaders
    BY <1>7 DEF Reading, AtTag, ReadHeader, ReadHeadersPreviousTagSize
  <2>2. off[1] = HeadersEnd /\ Holds(file, 0, Signature) /\ HeadersEnd <= Len(file)
    BY DEF Layout
  <2>3. Same
    BY <1>7, <2>1, <2>2, HeadersAreRead
  <2>4. QED  BY <1>5, <2>3
<1>8. ASSUME pc \in {"tag header", "tag data", "previous tag size"} PROVE AtTag(at, tag)
  BY <1>8 DEF Reading, AtHeaders
<1>9. CASE ReadTagHeader
  <2>1. AtTag(at, tag)
    BY <1>8, <1>9 DEF ReadTagHeader
  <2>2. CASE Eof(TagHeaderSize)
    BY <1>5, <1>6, <2>2
  <2>3. CASE ~Eof(TagHeaderSize)
    <3>1. /\ pc' = "tag data" /\ head' = HeadOf(tag) /\ pos' = at + TagHeaderSize
          /\ pos' <= Len(file) /\ UNCHANGED <<start, delivered, writer>>
      BY <1>2, <1>4, <1>9, <2>1, <2>3, TagHeaderIsRead
    <3>2. start = at
      BY <2>1 DEF AtTag
    <3>3. Reading(off)'
      BY <3>1, <3>2 DEF Reading, AtTag, writer
    <3>4. QED  BY <1>5, <3>1, <3>3
  <2>4. QED  BY <2>2, <2>3
<1>10. CASE ReadTagData
  <2>1. AtTag(at, tag)
    BY <1>8, <1>10 DEF ReadTagData
  <2>2. CASE Eof(head.size)
    BY <1>5, <1>6, <2>2
  <2>3. CASE ~Eof(head.size)
    <3>1. /\ pc' = "previous tag size" /\ head' = HeadAndData(tag)
          /\ pos' = at + TagHeaderSize + Len(tag.data)
          /\ at + TagHeaderSize <= pos' /\ pos' <= Len(file)
          /\ UNCHANGED <<start, delivered, writer>>
      BY <1>2, <1>4, <1>10, <2>1, <2>3, TagDataIsRead
    <3>2. start = at
      BY <2>1 DEF AtTag
    <3>3. Reading(off)'
      BY <3>1, <3>2 DEF Reading, AtTag, writer
    <3>4. QED  BY <1>5, <3>1, <3>3
  <2>4. QED  BY <2>2, <2>3
<1>11. CASE ReadPreviousTagSize
  <2>1. AtTag(at, tag)
    BY <1>8, <1>11 DEF ReadPreviousTagSize
  <2>2. CASE Eof(PreviousTagSize)
    BY <1>5, <1>6, <2>2
  <2>3. CASE ~Eof(PreviousTagSize)
    <3>1. d # whole
      BY <1>2, <1>4, <1>11, <2>1, <2>3, PartIsNotDelivered DEF IsPart
    <3>2. d < whole /\ tag \in Tags /\ HoldsTag(file, at, tag)
      BY <1>1, <1>4, <3>1
    <3>3. /\ pc' = "tag header" /\ pos' = at + TagSize(tag) /\ start' = pos'
          /\ delivered' = Append(delivered, Masked(tag)) /\ UNCHANGED writer
      BY <1>2, <1>11, <2>1, <2>3, <3>2, TagIsDelivered
    <3>4. /\ Len(delivered') = d + 1
          /\ \A i \in 1..d : delivered'[i] = delivered[i]
          /\ delivered'[d + 1] = Masked(tag)
      <4>1. delivered \in Seq(TagRead)
        BY DEF TypeOK
      <4>2. Masked(tag) \in TagRead
        BY <3>2, TagFields DEF Masked, TagRead
      <4>3. QED  BY <3>3, <4>1, <4>2, AppendProperties
    <3>5. \A i \in 1..whole : i <= Len(delivered') => delivered'[i] = Masked(tags[i])
      <4> SUFFICES ASSUME NEW i \in 1..whole, i <= d + 1
                   PROVE  delivered'[i] = Masked(tags[i])
        BY <3>4
      <4>1. i \in 1..d \/ i = d + 1
        BY <1>1
      <4>2. CASE i \in 1..d
        BY <1>3, <3>4, <4>2
      <4>3. CASE i = d + 1
        BY <3>4, <4>3
      <4>4. QED  BY <4>1, <4>2, <4>3
    <3>6. off[Len(delivered') + 1] = at + TagSize(tag)
      <4>1. d + 1 \in 1..whole
        BY <1>1, <3>2
      <4>2. off[d + 1 + 1] = off[d + 1] + TagSize(tags[d + 1])
        BY <4>1 DEF Layout
      <4>3. QED  BY <3>4, <4>2
    <3>7. Reading(off)'
      BY <3>3, <3>6 DEF Reading, AtTag
    <3>8. Len(delivered') <= whole
      BY <1>1, <3>2, <3>4
    <3>9. QED  BY <3>3, <3>5, <3>7, <3>8
  <2>4. QED  BY <2>2, <2>3
<1>12. CASE Retry
  <2>1. /\ pc = "eof" /\ pos' = start /\ UNCHANGED <<start, delivered, writer>>
        /\ pc' = IF start = 0 THEN "header" ELSE "tag header"
    BY <1>12 DEF Retry
  <2>2. CASE AtHeaders
    BY <1>5, <2>1, <2>2 DEF AtHeaders, Reading
  <2>3. CASE AtTag(at, tag)
    <3>1. start = at /\ start # 0
      <4>1. start = at
        BY <2>3 DEF AtTag
      <4>2. QED  BY <1>2, <4>1
    <3>2. Reading(off)'
      BY <2>1, <3>1 DEF AtTag, Reading, writer
    <3>3. QED  BY <1>5, <2>1, <3>2
  <2>4. QED  BY <2>2, <2>3 DEF Reading
<1>13. QED  BY <1>7, <1>9, <1>10, <1>11, <1>12 DEF Read

------------------------------------------------------------------------------
\* The inductive invariant, by the phases of the file.

\* The lengths are numbers.
LEMMA Lengths ==
    ASSUME TypeOK
    PROVE  /\ Len(file) \in Nat /\ Len(iovs) \in Nat /\ Len(tags) \in Nat
           /\ Len(delivered) \in Nat /\ whole \in Nat
<1>1. /\ file \in Seq(Nat) /\ iovs \in Seq(IovType) /\ tags \in Seq(Tags)
      /\ delivered \in Seq(TagRead) /\ whole \in Nat
  BY DEF TypeOK
<1>2. QED  BY <1>1, LenProperties

\* While the headers are written a reader meets the end of the file, or reads the
\* first of them.
LEMMA NotBegunRead ==
    ASSUME TypeOK, NotBegun, Read
    PROVE  NotBegun'
<1>1. /\ ~torn /\ tags = << >> /\ whole = 0 /\ delivered = << >> /\ start = 0
      /\ \/ file = << >> /\ iovs \in {<< >>, HeaderIovs}
         \/ file = HeaderIovs[1].cells /\ iovs = <<HeaderIovs[2]>>
  BY DEF NotBegun, AtHeaders
<1>2. Len(file) = 0 \/ Len(file) = 9
  BY <1>1, IovsOfHeader DEF HeaderSize
<1>3. \/ pc = "header" /\ pos = 0
      \/ pc = "header's previous tag size" /\ pos = 9 /\ pos <= Len(file)
      \/ pc = "eof"
  BY DEF NotBegun, AtHeaders, HeaderSize
<1>4. ASSUME UNCHANGED writer, AtHeaders' PROVE NotBegun'
  BY <1>1, <1>4, Zenon DEF NotBegun, writer
<1>5. ASSUME NEW count, Eof(count) PROVE NotBegun'
  <2>1. UNCHANGED writer /\ AtHeaders'
    BY <1>1, <1>5 DEF Eof, AtHeaders
  <2>2. QED  BY <1>4, <2>1
<1>6. CASE ReadHeader
  <2>1. CASE Eof(HeaderSize)
    BY <1>5, <2>1
  <2>2. CASE ~Eof(HeaderSize)
    <3>1. pc = "header" /\ ~IsEof(HeaderSize)
      BY <1>6, <2>2 DEF ReadHeader
    <3>2. pos = 0 /\ pos < Len(file)
      BY <1>3, <3>1, NotAtTheEnd
    <3>3. Len(file) = 9
      BY <1>2, <3>2
    <3>4. file = HeaderIovs[1].cells
      <4>1. Len(<< >>) # 9
        OBVIOUS
      <4>2. QED  BY <1>1, <3>3, <4>1
    <3>5. Holds(file, 0, Signature) /\ Len(Signature) = 3
      <4>1. Len(Signature) = 3
        BY DEF Signature
      <4>2. \A i \in 1..3 : file[i] = Signature[i]
        BY <3>4, IovsOfHeader
      <4>3. \A i \in 1..3 : 0 + i = i
        OBVIOUS
      <4>4. \A i \in 1..Len(Signature) : file[0 + i] = Signature[i]
        BY <4>1, <4>2, <4>3
      <4>5. 0 + Len(Signature) <= Len(file)
        BY <3>3, <4>1
      <4>6. QED  BY <4>1, <4>4, <4>5 DEF Holds
    <3>6. UNCHANGED writer /\ AtHeaders'
      <4>1. AtHeaders /\ HeaderSize <= Len(file)
        BY <3>3 DEF NotBegun, HeaderSize
      <4>2. QED  BY <1>6, <3>5, <4>1, FirstHeaderIsRead
    <3>7. QED  BY <1>4, <3>6
  <2>3. QED  BY <2>1, <2>2
<1>7. CASE ReadHeadersPreviousTagSize
  <2>1. pc = "header's previous tag size"
    BY <1>7 DEF ReadHeadersPreviousTagSize
  <2>2. IsEof(PreviousTagSize)
    <3>1. pos = 9 /\ pos <= Len(file)
      BY <1>3, <2>1
    <3> DEFINE size == Len(file)
    <3>2. (size = 0 \/ size = 9) /\ 9 <= size
      BY <1>2, <3>1
    <3> HIDE DEF size
    <3>3. 9 >= size
      BY <3>2
    <3>4. pos >= Len(file)
      BY <3>1, <3>3 DEF size
    <3>5. QED  BY <3>4 DEF IsEof
  <2>3. QED  BY <1>5, <1>7, <2>2 DEF ReadHeadersPreviousTagSize
<1>8. CASE Retry
  <2>1. UNCHANGED writer /\ AtHeaders'
    BY <1>1, <1>8 DEF Retry, AtHeaders
  <2>2. QED  BY <1>4, <2>1
<1>9. ASSUME ReadTagHeader \/ ReadTagData \/ ReadPreviousTagSize PROVE FALSE
  BY <1>3, <1>9 DEF ReadTagHeader, ReadTagData, ReadPreviousTagSize
<1>10. QED  BY <1>6, <1>7, <1>8, <1>9 DEF Read

\* A longer file, or more tags behind those that count, leave the reader where it is.
LEMMA ReadingStays ==
    ASSUME TypeOK, UNCHANGED reader, Len(file) <= Len(file'), Len(file') \in Nat,
           NEW off, NEW longer, Reading(off),
           longer[Len(delivered) + 1] = off[Len(delivered) + 1],
           off[Len(delivered) + 1] \in Nat,
           \/ tags'[Len(delivered) + 1] = tags[Len(delivered) + 1]
           \/ Len(file) = off[Len(delivered) + 1]
    PROVE  Reading(longer)'
<1> DEFINE at == off[Len(delivered) + 1]
           tag == tags[Len(delivered) + 1]
<1>1. UNCHANGED <<pc, pos, start, head, delivered>>
  BY DEF reader
<1>2. Len(file) \in Nat /\ pos \in Nat
  BY Lengths DEF TypeOK
<1>3. CASE AtHeaders
  <2>1. pos <= Len(file) => pos <= Len(file')
    BY <1>2
  <2>2. AtHeaders'
    BY <1>1, <1>3, <2>1 DEF AtHeaders
  <2>3. QED  BY <2>2 DEF Reading
<1>4. CASE AtTag(at, tag)
  <2>1. pos <= Len(file) => pos <= Len(file')
    BY <1>2
  <2>2. CASE tags'[Len(delivered) + 1] = tags[Len(delivered) + 1]
    <3>1. AtTag(at, tag)
      BY <1>4
    <3>2. longer[Len(delivered') + 1] = at /\ tags'[Len(delivered') + 1] = tag
      BY <1>1, <2>2
    <3> HIDE DEF at, tag
    <3>3. /\ start' = at
          /\ \/ pc' = "tag header" /\ pos' = at
             \/ /\ pc' = "tag data" /\ head' = HeadOf(tag)
                /\ pos' = at + TagHeaderSize /\ pos' <= Len(file')
             \/ /\ pc' = "previous tag size" /\ head' = HeadAndData(tag)
                /\ pos' = at + TagHeaderSize + Len(tag.data)
                /\ at + TagHeaderSize <= pos' /\ pos' <= Len(file')
             \/ pc' = "eof"
      BY <1>1, <2>1, <3>1 DEF AtTag
    <3>4. QED  BY <3>2, <3>3 DEF Reading, AtTag
  <2>3. CASE Len(file) = at
    <3>1. ~(pos <= Len(file) /\ at + TagHeaderSize <= pos)
      <4> HIDE DEF at
      <4>1. TagHeaderSize = 11
        BY DEF TagHeaderSize
      <4>2. QED  BY <1>2, <2>3, <4>1
    <3>2. at + TagHeaderSize = pos => at + TagHeaderSize <= pos
      BY <1>2
    <3>3. /\ start = at
          /\ \/ pc = "tag header" /\ pos = at
             \/ pc = "eof"
      BY <1>4, <3>1, <3>2 DEF AtTag
    <3>4. longer[Len(delivered') + 1] = at
      BY <1>1
    <3> HIDE DEF at
    <3>5. QED  BY <1>1, <3>3, <3>4 DEF Reading, AtTag
  <2>4. QED  BY <2>2, <2>3
<1>5. QED  BY <1>3, <1>4 DEF Reading

\* Nothing the writer does takes from what was delivered of the tags that count.
LEMMA StillAsWritten ==
    ASSUME ReadAsWritten, whole' \in {whole, whole + 1}, whole \in Nat, Len(delivered) \in Nat,
           Len(delivered) <= whole \/ whole' = whole,
           torn' \/ Len(delivered) <= whole',
           UNCHANGED delivered, \A i \in 1..whole : tags'[i] = tags[i]
    PROVE  ReadAsWritten'
<1>1. \A i \in 1..whole' : i <= Len(delivered) => i \in 1..whole
  OBVIOUS
<1>2. \A i \in 1..whole' : i <= Len(delivered') => delivered'[i] = Masked(tags'[i])
  BY <1>1 DEF ReadAsWritten
<1>3. QED  BY <1>2 DEF ReadAsWritten

\* The headers of a file are written, and then the file grows.
LEMMA NotBegunWrite ==
    ASSUME TypeOK, TypeOK', NotBegun, Write, UNCHANGED reader
    PROVE  (NotBegun \/ Growing)' /\ whole' = 0
<1>1. /\ ~torn /\ tags = << >> /\ whole = 0 /\ AtHeaders
      /\ iovs # << >>
      /\ \/ file = << >> /\ iovs = HeaderIovs
         \/ file = HeaderIovs[1].cells /\ iovs = <<HeaderIovs[2]>>
  BY DEF NotBegun, Write
<1>2. /\ file' = file \o Head(iovs).cells /\ iovs' = Tail(iovs)
      /\ UNCHANGED <<torn, tags>>
  BY DEF Write
<1>3. Head(iovs) = iovs[1] /\ Len(Tail(iovs)) = Len(iovs) - 1
  BY <1>1, IovTypes
<1>4. ~Head(iovs).last
  <2>1. <<HeaderIovs[2]>>[1] = HeaderIovs[2]
    OBVIOUS
  <2>2. QED  BY <1>1, <1>3, <2>1, IovsOfHeader
<1>5. whole' = 0
  BY <1>1, <1>4, Zenon DEF Write
<1>6. AtHeaders /\ UNCHANGED <<pc, pos, start, head, delivered>>
  BY <1>1 DEF reader
<1>7. CASE file = << >> /\ iovs = HeaderIovs
  <2> DEFINE first == HeaderIovs[1].cells
  <2>1. first \in Seq(Nat)
    BY IovsOfHeader DEF IovType
  <2>2. file' = first
    <3>1. file' = << >> \o first
      BY <1>2, <1>3, <1>7
    <3> HIDE DEF first
    <3>2. QED  BY <2>1, <3>1, ConcatEmptySeq
  <2>3. iovs' = <<HeaderIovs[2]>>
    <3>1. Tail(HeaderIovs) = <<HeaderIovs[2]>>
      BY DEF HeaderIovs
    <3>2. QED  BY <1>2, <1>7, <3>1
  <2>4. pos <= Len(file) => pos <= Len(file')
    <3>1. Len(file) = 0 /\ Len(file') \in Nat /\ pos \in Nat
      <4>1. Len(<< >>) = 0
        OBVIOUS
      <4>2. file' \in Seq(Nat) /\ pos \in Nat
        BY DEF TypeOK
      <4>3. QED  BY <1>7, <4>1, <4>2, LenProperties
    <3>2. QED  BY <3>1
  <2>5. AtHeaders'
    BY <1>6, <2>4 DEF AtHeaders
  <2>6. ~torn' /\ tags' = << >>
    BY <1>1, <1>2, Zenon
  <2>7. NotBegun'
    BY <1>5, <2>2, <2>3, <2>5, <2>6, Zenon DEF NotBegun
  <2>8. QED  BY <1>5, <2>7
<1>8. CASE file = HeaderIovs[1].cells /\ iovs = <<HeaderIovs[2]>>
  <2> DEFINE first == HeaderIovs[1].cells
             second == HeaderIovs[2].cells
             off == <<HeadersEnd>>
  <2>1. /\ first \in Seq(Nat) /\ Len(first) = 9 /\ second \in Seq(Nat) /\ Len(second) = 4
        /\ \A i \in 1..3 : first[i] = Signature[i]
    BY IovsOfHeader DEF IovType, HeaderSize, PreviousTagSize
  <2>2. file = first /\ file' = first \o second
    <3>1. <<HeaderIovs[2]>>[1] = HeaderIovs[2]
      OBVIOUS
    <3>2. QED  BY <1>2, <1>3, <1>8, <3>1
  <2>3. iovs' = << >>
    <3>1. Tail(<<HeaderIovs[2]>>) = << >>
      OBVIOUS
    <3>2. QED  BY <1>2, <1>8, <3>1
  <2> HIDE DEF first, second
  <2>4. /\ Len(file) = 9 /\ Len(file') = 13
        /\ \A i \in 1..3 : file'[i] = Signature[i]
    <3> DEFINE g == first \o second
    <3>1. file' = g /\ g = first \o second
      BY <2>2
    <3> HIDE DEF g
    <3>2. /\ Len(g) = Len(first) + Len(second)
          /\ \A i \in 1..Len(first) : g[i] = first[i]
      <4>1. first \in Seq(Nat) /\ second \in Seq(Nat)
        BY <2>1
      <4>2. Len(g) = Len(first) + Len(second)
        BY <3>1, <4>1, FileGrows
      <4>3. \A i \in 1..Len(first) : g[i] = first[i]
        BY <3>1, <4>1, FileGrows
      <4>4. QED  BY <4>2, <4>3
    <3>3. Len(file') = 13
      BY <2>1, <3>1, <3>2
    <3>4. \A i \in 1..3 : i \in 1..Len(first)
      BY <2>1
    <3>5. \A i \in 1..3 : g[i] = Signature[i]
      BY <2>1, <3>2, <3>4
    <3>6. \A i \in 1..3 : file'[i] = Signature[i]
      BY <3>1, <3>5
    <3>7. Len(file) = 9
      BY <2>1, <2>2
    <3>8. QED  BY <3>3, <3>6, <3>7
  <2>5. HeadersEnd = 13
    BY DEF HeadersEnd, HeaderSize, PreviousTagSize
  <2>6. Holds(file', 0, Signature)
    <3>1. Len(Signature) = 3 /\ \A i \in 1..3 : 0 + i = i
      BY DEF Signature
    <3>2. QED  BY <2>4, <3>1 DEF Holds
  <2>7. off \in Seq(Nat) /\ Len(off) = 1 /\ off[1] = HeadersEnd
    BY <2>5
  <2> HIDE DEF off
  <2>8. Layout(file', tags', whole', off)
    <3>1. whole' + 1 = 1 /\ 1..whole' = {}
      BY <1>5
    <3>2. HeadersEnd <= Len(file')
      BY <2>4, <2>5
    <3>3. QED  BY <2>6, <2>7, <3>1, <3>2 DEF Layout
  <2>9. pos <= Len(file) => pos <= Len(file')
    <3>1. pos \in Nat
      BY DEF TypeOK
    <3>2. QED  BY <2>4, <3>1
  <2>10. Reading(off)'
    BY <1>6, <2>9 DEF AtHeaders, Reading
  <2>11. Writing(off, 0)'
    <3>1. Len(iovs') = 0 /\ Len(tags') = 0
      BY <1>1, <1>2, <2>3
    <3>2. Len(file') = off[whole' + 1]
      <4>1. whole' + 1 = 1
        BY <1>5
      <4>2. QED  BY <2>4, <2>5, <2>7, <4>1
    <3>3. HoldsPart(file', off[whole' + 1], tags'[whole' + 1], 0)
      BY <3>2 DEF HoldsPart
    <3>4. Len(iovs') = 3 * Len(tags') - (3 * whole' + 0) /\ 1..Len(iovs') = {}
      BY <1>5, <3>1
    <3>5. QED  BY <3>3, <3>4 DEF Writing
  <2>12. ~torn' /\ Len(delivered') <= whole'
    <3>1. ~torn'
      BY <1>1, <1>2, Zenon
    <3>2. Len(delivered') = 0
      BY <1>6 DEF AtHeaders
    <3>3. QED  BY <1>5, <3>1, <3>2
  <2>13. 0 \in 0..2
    OBVIOUS
  <2>14. \E m \in 0..2 : Writing(off, m)'
    BY <2>11, <2>13
  <2>15. Growing'
    BY <2>7, <2>8, <2>10, <2>12, <2>14 DEF Growing
  <2>16. QED  BY <1>5, <2>15
<1>9. QED  BY <1>1, <1>7, <1>8

\* What was delivered stays.
LEMMA DeliveredGrows ==
    ASSUME TypeOK, Read
    PROVE  /\ UNCHANGED writer /\ Len(delivered) <= Len(delivered')
           /\ \A i \in 1..Len(delivered) : delivered'[i] = delivered[i]
<1>1. UNCHANGED writer
  BY ReaderTypes
<1>2. delivered \in Seq(TagRead) /\ Len(delivered) \in Nat
  BY Lengths DEF TypeOK
<1>3. CASE UNCHANGED delivered
  BY <1>1, <1>2, <1>3
<1>4. CASE ~UNCHANGED delivered
  <2>1. ReadPreviousTagSize
    BY <1>4 DEF Read, Eof, ReadHeader, ReadHeadersPreviousTagSize, ReadTagHeader,
                ReadTagData, Retry
  <2> DEFINE tag == [type |-> head.type, time |-> head.time, data |-> head.data]
  <2>2. delivered' = Append(delivered, tag) /\ pc = "previous tag size"
    BY <1>4, <2>1 DEF ReadPreviousTagSize, Eof
  <2>3. head \in FullHeadType
    BY <2>2 DEF TypeOK
  <2>4. tag \in TagRead
    BY <2>3 DEF FullHeadType, TagRead
  <2> HIDE DEF tag
  <2>5. /\ Len(delivered') = Len(delivered) + 1
        /\ \A i \in 1..Len(delivered) : delivered'[i] = delivered[i]
    BY <1>2, <2>2, <2>4, AppendProperties
  <2>6. QED  BY <1>1, <1>2, <2>5
<1>5. QED  BY <1>3, <1>4

\* What the writer is at is a part of a tag.
LEMMA PartOfWriting ==
    ASSUME TypeOK, NEW off, NEW m \in 0..2, Writing(off, m)
    PROVE  IsPart(off[whole + 1], tags[whole + 1])
<1>1. m > 0 => tags[whole + 1] \in Tags
  <2> SUFFICES ASSUME m > 0 PROVE tags[whole + 1] \in Tags
    OBVIOUS
  <2>1. whole < Len(tags)
    BY DEF Writing
  <2>2. tags \in Seq(Tags) /\ Len(tags) \in Nat /\ whole \in Nat
    BY Lengths DEF TypeOK
  <2>3. whole + 1 \in 1..Len(tags)
    BY <2>1, <2>2
  <2>4. QED  BY <2>2, <2>3, ElementOfSeq
<1>2. HoldsPart(file, off[whole + 1], tags[whole + 1], m)
  BY DEF Writing
<1>3. QED  BY <1>1, <1>2 DEF IsPart

\* The reads, in each of the phases.
LEMMA GrowingRead ==
    ASSUME TypeOK, whole <= Len(tags), ReadAsWritten, Growing, Read
    PROVE  Growing' /\ ReadAsWritten' /\ UNCHANGED writer
<1>1. PICK off \in Seq(Nat) :
         /\ Layout(file, tags, whole, off) /\ Reading(off)
         /\ \E m \in 0..2 : Writing(off, m)
  BY DEF Growing
<1>2. PICK m \in 0..2 : Writing(off, m)
  BY <1>1
<1>3. ~torn /\ Len(delivered) <= whole
  BY Zenon DEF Growing
<1>4. IsPart(off[whole + 1], tags[whole + 1])
  BY <1>2, PartOfWriting
<1>5. /\ Reading(off)' /\ UNCHANGED writer
      /\ \A i \in 1..whole : i <= Len(delivered') => delivered'[i] = Masked(tags[i])
      /\ Len(delivered') <= whole
  BY <1>1, <1>3, <1>4, ReaderHolds
<1>6. UNCHANGED <<file, iovs, torn, tags, whole>>
  BY <1>5 DEF writer
<1>7. ReadAsWritten'
  BY <1>5, <1>6 DEF ReadAsWritten
<1>8. Writing(off, m)'
  BY <1>2, <1>6 DEF Writing
<1>9. Layout(file', tags', whole', off)
  BY <1>1, <1>6
<1>10. ~torn' /\ Len(delivered') <= whole'
  BY <1>3, <1>5, <1>6, Zenon
<1>11. \E k \in 0..2 : Writing(off, k)'
  BY <1>8
<1>12. Growing'
  BY <1>5, <1>9, <1>10, <1>11 DEF Growing
<1>13. QED  BY <1>5, <1>7, <1>12

LEMMA BehindRead ==
    ASSUME TypeOK, whole <= Len(tags), ReadAsWritten, Behind, Read
    PROVE  (Behind \/ Past)' /\ ReadAsWritten' /\ UNCHANGED writer
<1>1. PICK off \in Seq(Nat) : Layout(file, tags, whole, off) /\ Reading(off)
  BY DEF Behind
<1>2. torn /\ Len(delivered) < whole
  BY Zenon DEF Behind
<1>3. Len(delivered) <= whole /\ Len(delivered) # whole
  BY <1>2, Lengths
<1>4. /\ Reading(off)' /\ UNCHANGED writer
      /\ \A i \in 1..whole : i <= Len(delivered') => delivered'[i] = Masked(tags[i])
      /\ Len(delivered') <= whole
  BY <1>1, <1>3, ReaderHolds
<1>5. UNCHANGED <<file, iovs, torn, tags, whole>>
  BY <1>4 DEF writer
<1>6. torn'
  BY <1>2, <1>5, Zenon
<1>7. ReadAsWritten'
  BY <1>4, <1>5, <1>6 DEF ReadAsWritten
<1>8. Layout(file', tags', whole', off)
  BY <1>1, <1>5
<1>9. Len(delivered') < whole' \/ whole' <= Len(delivered')
  <2>1. delivered' \in Seq(TagRead) /\ whole' \in Nat
    BY ReaderTypes DEF TypeOK
  <2>2. QED  BY <2>1, LenProperties
<1>10. CASE Len(delivered') < whole'
  <2>1. Behind'
    BY <1>4, <1>6, <1>8, <1>10 DEF Behind
  <2>2. QED  BY <1>4, <1>7, <2>1
<1>11. CASE whole' <= Len(delivered')
  <2>1. Past'
    BY <1>6, <1>11 DEF Past
  <2>2. QED  BY <1>4, <1>7, <2>1
<1>12. QED  BY <1>9, <1>10, <1>11

LEMMA PastRead ==
    ASSUME TypeOK, ReadAsWritten, Past, Read
    PROVE  Past' /\ ReadAsWritten' /\ UNCHANGED writer
<1>1. /\ UNCHANGED writer /\ Len(delivered) <= Len(delivered')
      /\ \A i \in 1..Len(delivered) : delivered'[i] = delivered[i]
  BY DeliveredGrows
<1>2. torn /\ whole <= Len(delivered)
  BY Zenon DEF Past
<1>3. UNCHANGED <<torn, tags, whole>>
  BY <1>1 DEF writer
<1>4. torn'
  BY <1>2, <1>3, Zenon
<1>5. Len(delivered) \in Nat /\ whole \in Nat /\ Len(delivered') \in Nat
  <2>1. delivered' \in Seq(TagRead)
    BY ReaderTypes DEF TypeOK
  <2>2. QED  BY <2>1, Lengths, LenProperties
<1>6. whole' <= Len(delivered')
  BY <1>1, <1>2, <1>3, <1>5
<1>7. \A i \in 1..whole : i \in 1..Len(delivered) /\ i <= Len(delivered)
  BY <1>2, <1>5
<1>8. \A i \in 1..whole : delivered'[i] = Masked(tags[i])
  BY <1>1, <1>7 DEF ReadAsWritten
<1>9. ReadAsWritten'
  BY <1>3, <1>4, <1>8 DEF ReadAsWritten
<1>10. QED  BY <1>1, <1>4, <1>6, <1>9 DEF Past

\* Where the reader is and where the writer is are offsets.
LEMMA Places ==
    ASSUME TypeOK, whole <= Len(tags), Len(delivered) <= whole,
           NEW off, Layout(file, tags, whole, off)
    PROVE  /\ whole \in 0..Len(tags)
           /\ off[Len(delivered) + 1] \in Nat /\ off[whole + 1] \in Nat
<1>1. Len(delivered) \in Nat /\ whole \in Nat /\ Len(tags) \in Nat
  BY Lengths
<1>2. tags \in Seq(Tags)
  BY DEF TypeOK
<1>3. whole \in 0..Len(tags)
  BY <1>1
<1>4. \A k \in 1..(whole + 1) : off[k] \in Nat
  BY <1>2, <1>3, OffsetsAreNat
<1>5. Len(delivered) + 1 \in 1..(whole + 1) /\ whole + 1 \in 1..(whole + 1)
  BY <1>1
<1>6. QED  BY <1>3, <1>4, <1>5

\* One tag is offered as a group of one.
LEMMA OfferedTags ==
    ASSUME TypeOK, \/ \E tag \in Tags : WriteTag(tag)
                   \/ \E group \in Groups : WriteTags(group)
    PROVE  \E group \in Seq(Tags) : WriteTags(group)
<1>1. ASSUME NEW tag \in Tags, WriteTag(tag) PROVE \E group \in Seq(Tags) : WriteTags(group)
  <2>1. <<tag>> \in Seq(Tags)
    BY ONLY tag \in Tags
  <2>2. WriteTags(<<tag>>)
    BY <1>1 DEF WriteTag
  <2>3. QED  BY <2>1, <2>2
<1>2. ASSUME NEW group \in Groups, WriteTags(group) PROVE \E g \in Seq(Tags) : WriteTags(g)
  BY <1>2, FlvAssumption
<1>3. QED  BY <1>1, <1>2

\* What all offers of tags have in common.
LEMMA MoreTags ==
    ASSUME TypeOK, whole <= Len(tags), ReadAsWritten, NEW group \in Seq(Tags), WriteTags(group)
    PROVE  /\ UNCHANGED <<file, torn, whole, delivered, reader>>
           /\ iovs = << >> /\ iovs' = Planned(group) /\ (file # << >> \/ torn)
           /\ tags' = tags \o group /\ Len(tags') = Len(tags) + Len(group)
           /\ \A i \in 1..Len(tags) : tags'[i] = tags[i]
           /\ \A i \in 1..whole : tags'[i] = tags[i]
           /\ whole' <= Len(tags') /\ ReadAsWritten'
<1>1. /\ UNCHANGED <<file, torn, whole, reader>> /\ iovs = << >> /\ iovs' = Planned(group)
      /\ (file # << >> \/ torn) /\ tags' = tags \o group
  BY DEF WriteTags
<1>2. UNCHANGED delivered
  BY <1>1 DEF reader
<1>3. tags \in Seq(Tags) /\ Len(tags) \in Nat /\ whole \in Nat /\ Len(group) \in Nat
  BY Lengths, LenProperties DEF TypeOK
<1>4. /\ Len(tags') = Len(tags) + Len(group)
      /\ \A i \in 1..Len(tags) : tags'[i] = tags[i]
  BY <1>1, <1>3, ConcatProperties
<1>5. \A i \in 1..whole : i \in 1..Len(tags)
  BY <1>3
<1>6. \A i \in 1..whole : tags'[i] = tags[i]
  BY <1>4, <1>5
<1>7. whole' <= Len(tags')
  BY <1>1, <1>3, <1>4
<1>8. ReadAsWritten'
  BY <1>1, <1>2, <1>6 DEF ReadAsWritten
<1>9. QED  BY <1>1, <1>2, <1>4, <1>6, <1>7, <1>8

\* An offer of tags, in the phases that have one.
LEMMA GrowingWriteTags ==
    ASSUME TypeOK, whole <= Len(tags), ReadAsWritten, Growing,
           NEW group \in Seq(Tags), WriteTags(group)
    PROVE  Growing'
<1>1. PICK off \in Seq(Nat) :
         /\ Layout(file, tags, whole, off) /\ Reading(off)
         /\ \E m \in 0..2 : Writing(off, m)
  BY DEF Growing
<1>2. PICK m \in 0..2 : Writing(off, m)
  BY <1>1
<1>3. ~torn /\ Len(delivered) <= whole
  BY Zenon DEF Growing
<1>4. /\ UNCHANGED <<file, torn, whole, delivered, reader>>
      /\ iovs = << >> /\ iovs' = Planned(group)
      /\ tags' = tags \o group /\ Len(tags') = Len(tags) + Len(group)
      /\ \A i \in 1..Len(tags) : tags'[i] = tags[i]
      /\ \A i \in 1..whole : tags'[i] = tags[i]
  BY MoreTags
<1>5. /\ Len(file) \in Nat /\ Len(tags) \in Nat /\ Len(delivered) \in Nat /\ whole \in Nat
      /\ Len(group) \in Nat
  BY Lengths, LenProperties
<1>6. Len(iovs) = 0
  BY <1>4
<1>7. Len(iovs) = 3 * Len(tags) - (3 * whole + m)
  BY <1>2 DEF Writing
<1>8. m = 0 /\ whole = Len(tags)
  <2>1. 3 * Len(tags) = 3 * whole + m
    BY <1>5, <1>6, <1>7
  <2>2. QED  BY <1>5, <2>1
<1>9. Len(file) = off[whole + 1]
  BY <1>2, <1>8 DEF Writing, HoldsPart
<1>10. Layout(file', tags', whole', off)
  BY <1>1, <1>4, LayoutOfMoreTags
<1>11. Reading(off)'
  <2>1. tags'[Len(delivered) + 1] = tags[Len(delivered) + 1] \/ Len(file) = off[Len(delivered) + 1]
    <3>1. Len(delivered) + 1 \in 1..Len(tags) \/ Len(delivered) = whole
      BY <1>3, <1>5, <1>8
    <3>2. QED  BY <1>4, <1>9, <3>1
  <2>2. off[Len(delivered) + 1] \in Nat
    BY <1>1, <1>3, Places
  <2>3. Len(file) <= Len(file') /\ Len(file') \in Nat
    BY <1>4, <1>5
  <2>4. UNCHANGED reader
    BY <1>4
  <2>5. QED  BY <1>1, <2>1, <2>2, <2>3, <2>4, ReadingStays
<1>12. Writing(off, 0)'
  <2>1. Len(iovs') = 3 * Len(group)
    BY <1>4, IovsOfTags
  <2>2. Len(iovs') = 3 * Len(tags') - (3 * whole' + 0)
    BY <1>4, <1>5, <1>8, <2>1
  <2>3. \A j \in 1..3 * Len(group) : Planned(tags')[3 * Len(tags) + j] = Planned(group)[j]
    <3>1. tags \in Seq(Tags)
      BY DEF TypeOK
    <3>2. QED  BY <1>4, <3>1, IovsOfMoreTags
  <2>4. \A j \in 1..Len(iovs') : iovs'[j] = Planned(tags')[3 * whole' + 0 + j]
    <3>1. \A j \in 1..3 * Len(group) : 3 * whole' + 0 + j = 3 * Len(tags) + j
      BY <1>4, <1>5, <1>8
    <3>2. QED  BY <1>4, <2>1, <2>3, <3>1
  <2>5. HoldsPart(file', off[whole' + 1], tags'[whole' + 1], 0)
    BY <1>4, <1>9 DEF HoldsPart
  <2>6. QED  BY <2>2, <2>4, <2>5 DEF Writing
<1>13. ~torn' /\ Len(delivered') <= whole'
  BY <1>3, <1>4, Zenon
<1>14. 0 \in 0..2
  OBVIOUS
<1>15. \E k \in 0..2 : Writing(off, k)'
  BY <1>12, <1>14
<1>16. QED  BY <1>10, <1>11, <1>13, <1>15 DEF Growing

LEMMA BehindWriteTags ==
    ASSUME TypeOK, whole <= Len(tags), ReadAsWritten, Behind,
           NEW group \in Seq(Tags), WriteTags(group)
    PROVE  Behind'
<1>1. PICK off \in Seq(Nat) : Layout(file, tags, whole, off) /\ Reading(off)
  BY DEF Behind
<1>2. torn /\ Len(delivered) < whole
  BY Zenon DEF Behind
<1>3. /\ UNCHANGED <<file, torn, whole, delivered, reader>>
      /\ \A i \in 1..whole : tags'[i] = tags[i]
  BY MoreTags
<1>4. Layout(file', tags', whole', off)
  BY <1>1, <1>3, LayoutOfMoreTags
<1>5. Len(delivered) \in Nat /\ whole \in Nat /\ Len(file) \in Nat /\ Len(tags) \in Nat
  BY Lengths
<1>6. Reading(off)'
  <2>1. Len(delivered) + 1 \in 1..whole /\ Len(delivered) <= whole
    BY <1>2, <1>5
  <2>2. off[Len(delivered) + 1] \in Nat
    BY <1>1, <2>1, Places
  <2>3. tags'[Len(delivered) + 1] = tags[Len(delivered) + 1]
    BY <1>3, <2>1
  <2>4. Len(file) <= Len(file') /\ Len(file') \in Nat /\ UNCHANGED reader
    BY <1>3, <1>5
  <2>5. QED  BY <1>1, <2>2, <2>3, <2>4, ReadingStays
<1>7. torn' /\ Len(delivered') < whole'
  BY <1>2, <1>3, Zenon
<1>8. QED  BY <1>4, <1>6, <1>7 DEF Behind

\* The next iov of the tag behind the whole ones.
LEMMA NextIov ==
    ASSUME TypeOK, NEW off, NEW m \in 0..2, Writing(off, m), iovs # << >>,
           whole <= Len(tags)
    PROVE  /\ whole < Len(tags) /\ tags[whole + 1] \in Tags
           /\ Head(iovs) = TagIovs(tags[whole + 1])[m + 1]
           /\ Len(Tail(iovs)) = 3 * Len(tags) - (3 * whole + m + 1)
           /\ \A j \in 1..Len(Tail(iovs)) : Tail(iovs)[j] = Planned(tags)[3 * whole + m + 1 + j]
<1>1. /\ Len(iovs) = 3 * Len(tags) - (3 * whole + m)
      /\ \A j \in 1..Len(iovs) : iovs[j] = Planned(tags)[3 * whole + m + j]
  BY DEF Writing
<1>2. Len(tags) \in Nat /\ whole \in Nat /\ Len(iovs) \in Nat /\ tags \in Seq(Tags)
  BY Lengths DEF TypeOK
<1>3. /\ Head(iovs) = iovs[1] /\ Len(iovs) > 0 /\ Len(Tail(iovs)) = Len(iovs) - 1
      /\ \A j \in 1..Len(Tail(iovs)) : Tail(iovs)[j] = iovs[j + 1]
  BY IovTypes
<1>4. whole < Len(tags) /\ whole + 1 \in 1..Len(tags)
  BY <1>1, <1>2, <1>3
<1>5. tags[whole + 1] \in Tags
  BY <1>2, <1>4, ElementOfSeq
<1>6. Head(iovs) = TagIovs(tags[whole + 1])[m + 1]
  <2>1. 1 \in 1..Len(iovs)
    BY <1>2, <1>3
  <2>2. iovs[1] = Planned(tags)[3 * whole + m + 1]
    BY <1>1, <2>1
  <2>3. \A k \in 1..Len(tags), i \in 1..3 : Planned(tags)[3 * (k - 1) + i] = TagIovs(tags[k])[i]
    BY <1>2, IovsOfTags
  <2>4. m + 1 \in 1..3
    OBVIOUS
  <2> DEFINE k == whole + 1
             i == m + 1
  <2>5. k \in 1..Len(tags) /\ i \in 1..3 /\ 3 * (k - 1) + i = 3 * whole + m + 1
    BY <1>2, <1>4
  <2> HIDE DEF k, i
  <2>6. Planned(tags)[3 * (k - 1) + i] = TagIovs(tags[k])[i]
    BY <2>3, <2>5
  <2>7. Planned(tags)[3 * whole + m + 1] = TagIovs(tags[k])[i]
    BY <2>5, <2>6
  <2>8. QED  BY <1>3, <2>2, <2>7 DEF k, i
<1>7. Len(Tail(iovs)) = 3 * Len(tags) - (3 * whole + m + 1)
  BY <1>1, <1>2, <1>3
<1>8. \A j \in 1..Len(Tail(iovs)) : Tail(iovs)[j] = Planned(tags)[3 * whole + m + 1 + j]
  <2> SUFFICES ASSUME NEW j \in 1..Len(Tail(iovs))
               PROVE  Tail(iovs)[j] = Planned(tags)[3 * whole + m + 1 + j]
    OBVIOUS
  <2>1. j + 1 \in 1..Len(iovs)
    BY <1>2, <1>3
  <2>2. iovs[j + 1] = Planned(tags)[3 * whole + m + (j + 1)]
    BY <1>1, <2>1
  <2>3. 3 * whole + m + (j + 1) = 3 * whole + m + 1 + j
    BY <1>2
  <2>4. QED  BY <1>3, <2>2, <2>3
<1>9. QED  BY <1>4, <1>5, <1>6, <1>7, <1>8

\* A write lengthens the file, whatever else it does.
LEMMA FileIsLonger ==
    ASSUME TypeOK, whole <= Len(tags), Len(delivered) <= whole,
           NEW cells \in Seq(Nat), file' = file \o cells, UNCHANGED <<tags, reader>>,
           NEW off, Layout(file, tags, whole, off), Reading(off)
    PROVE  /\ Layout(file', tags', whole, off)
           /\ \A longer : longer[Len(delivered) + 1] = off[Len(delivered) + 1]
                             => Reading(longer)'
<1>1. file \in Seq(Nat) /\ tags \in Seq(Tags)
  BY DEF TypeOK
<1>2. whole \in 0..Len(tags) /\ off[Len(delivered) + 1] \in Nat
  BY Places
<1>3. Layout(file', tags, whole, off)
  BY <1>1, <1>2, LayoutOfLongerFile
<1>4. Len(file') \in Nat /\ Len(file) <= Len(file')
  <2> DEFINE g == file'
  <2>1. g = file \o cells
    OBVIOUS
  <2> HIDE DEF g
  <2>2. g \in Seq(Nat) /\ Len(file) \in Nat /\ Len(cells) \in Nat /\ Len(g) = Len(file) + Len(cells)
    BY <1>1, <2>1, FileGrows
  <2>3. Len(g) \in Nat /\ Len(file) <= Len(g)
    BY <2>2
  <2>4. QED  BY <2>3 DEF g
<1>5. tags'[Len(delivered) + 1] = tags[Len(delivered) + 1] /\ UNCHANGED reader
  OBVIOUS
<1>6. ASSUME NEW longer, longer[Len(delivered) + 1] = off[Len(delivered) + 1]
      PROVE  Reading(longer)'
  BY <1>2, <1>4, <1>5, <1>6, ReadingStays
<1>7. QED  BY <1>3, <1>6

\* An iov of a tag puts the next part of it into the file, and the last one ends it.
LEMMA NextPart ==
    ASSUME NEW f \in Seq(Nat), NEW cells \in Seq(Nat), NEW g, g = f \o cells,
           NEW at \in Nat, NEW tag \in Tags, NEW m \in 0..2, HoldsPart(f, at, tag, m),
           cells = TagIovs(tag)[m + 1].cells
    PROVE  /\ m < 2 => HoldsPart(g, at, tag, m + 1)
           /\ m = 2 => HoldsTag(g, at, tag) /\ Len(g) = at + TagSize(tag)
<1>1. /\ Holds(g, Len(f), cells) /\ Len(g) = Len(f) + Len(cells)
      /\ Len(f) \in Nat /\ Len(cells) \in Nat
  <2>1. Holds(g, Len(f), cells) /\ Len(g) = Len(f) + Len(cells)
    BY HoldsWhatIsWritten
  <2>2. Len(f) \in Nat /\ Len(cells) \in Nat
    BY LenProperties
  <2>3. QED  BY <2>1, <2>2
<1>2. /\ TagHeader(tag) \in Seq(Nat) /\ Len(TagHeader(tag)) = TagHeaderSize
      /\ tag.data \in Seq(Nat) /\ Len(tag.data) \in Nat
      /\ TagSize(tag) = 15 + Len(tag.data)
  BY HeaderOfTag, TagFields
<1>3. CASE m = 0
  <2>1. Len(f) = at
    BY <1>3 DEF HoldsPart
  <2>2. TagIovs(tag)[1] = Iov(TagHeader(tag)) /\ m + 1 = 1
    BY <1>3, IovsOfTag
  <2>3. cells = TagHeader(tag)
    BY <2>2 DEF Iov
  <2>4. HoldsPart(g, at, tag, 1)
    BY <1>1, <1>2, <2>1, <2>3 DEF HoldsPart
  <2>5. QED  BY <1>3, <2>2, <2>4
<1>4. CASE m = 1
  <2>1. Holds(f, at, TagHeader(tag)) /\ Len(f) = at + TagHeaderSize
    BY <1>4 DEF HoldsPart
  <2>2. TagIovs(tag)[2] = Iov(tag.data) /\ m + 1 = 2
    BY <1>4, IovsOfTag
  <2>3. cells = tag.data
    BY <2>2 DEF Iov
  <2>4. Holds(g, at, TagHeader(tag))
    BY <1>2, <2>1, HoldsStill
  <2>5. HoldsPart(g, at, tag, 2)
    BY <1>1, <1>2, <2>1, <2>3, <2>4 DEF HoldsPart
  <2>6. QED  BY <1>4, <2>2, <2>5
<1>5. CASE m = 2
  <2>1. /\ Holds(f, at, TagHeader(tag)) /\ Holds(f, at + TagHeaderSize, tag.data)
        /\ Len(f) = at + TagHeaderSize + Len(tag.data)
    BY <1>5 DEF HoldsPart
  <2>2. Len(cells) = PreviousTagSize
    <3>1. m + 1 = 3
      BY <1>5
    <3>2. QED  BY <3>1, IovsOfTag
  <2>3. Len(g) = at + TagSize(tag)
    <3>1. Len(f) = at + 11 + Len(tag.data) /\ Len(cells) = 4
      BY <2>1, <2>2 DEF TagHeaderSize, PreviousTagSize
    <3>2. Len(g) = at + 11 + Len(tag.data) + 4
      BY <1>1, <3>1
    <3> DEFINE n == Len(tag.data)
    <3>3. n \in Nat /\ Len(g) = at + 11 + n + 4 /\ TagSize(tag) = 15 + n
      BY <1>2, <3>2
    <3> HIDE DEF n
    <3>4. QED  BY <3>3
  <2>4. Holds(g, at, TagHeader(tag))
    BY <1>2, <2>1, HoldsStill
  <2>5. at + TagHeaderSize \in Nat
    BY DEF TagHeaderSize
  <2>6. Holds(g, at + TagHeaderSize, tag.data)
    BY <1>2, <2>1, <2>5, HoldsStill
  <2>7. at + TagSize(tag) <= Len(g)
    BY <1>1, <1>2, <2>3
  <2>8. HoldsTag(g, at, tag)
    BY <2>4, <2>6, <2>7 DEF HoldsTag
  <2>9. QED  BY <1>5, <2>3, <2>8
<1>6. QED  BY <1>3, <1>4, <1>5

\* A write of a file that grows: the next part of a tag, or the end of it.
LEMMA GrowingWrite ==
    ASSUME TypeOK, whole <= Len(tags), ReadAsWritten, Growing, Write, UNCHANGED reader
    PROVE  Growing' /\ ReadAsWritten' /\ whole' <= Len(tags')
<1>1. PICK off \in Seq(Nat) :
         /\ Layout(file, tags, whole, off) /\ Reading(off)
         /\ \E m \in 0..2 : Writing(off, m)
  BY DEF Growing
<1>2. PICK m \in 0..2 : Writing(off, m)
  BY <1>1
<1>3. ~torn /\ Len(delivered) <= whole
  BY Zenon DEF Growing
<1> DEFINE cells == Head(iovs).cells
           at == off[whole + 1]
           tag == tags[whole + 1]
<1>4. /\ iovs # << >> /\ file' = file \o cells /\ iovs' = Tail(iovs)
      /\ UNCHANGED <<torn, tags, reader>>
  BY DEF Write
<1>5. whole' = IF Head(iovs).last THEN whole + 1 ELSE whole
  BY <1>3, Zenon DEF Write
<1>6. UNCHANGED delivered /\ ~torn'
  BY <1>3, <1>4, Zenon DEF reader
<1>7. /\ whole < Len(tags) /\ tag \in Tags /\ Head(iovs) = TagIovs(tag)[m + 1]
      /\ Len(iovs') = 3 * Len(tags) - (3 * whole + m + 1)
      /\ \A j \in 1..Len(iovs') : iovs'[j] = Planned(tags)[3 * whole + m + 1 + j]
  BY <1>2, <1>4, NextIov
<1>8. cells \in Seq(Nat)
  BY <1>4, IovTypes
<1>9. /\ whole \in 0..Len(tags) /\ off[Len(delivered) + 1] \in Nat /\ at \in Nat
      /\ file \in Seq(Nat) /\ tags \in Seq(Tags)
      /\ Len(tags) \in Nat /\ whole \in Nat /\ Len(delivered) \in Nat
  BY <1>1, <1>3, Places, Lengths DEF TypeOK
<1>10. /\ m < 2 => HoldsPart(file', at, tag, m + 1)
       /\ m = 2 => HoldsTag(file', at, tag) /\ Len(file') = at + TagSize(tag)
  <2>1. HoldsPart(file, at, tag, m)
    BY <1>2 DEF Writing
  <2>2. cells = TagIovs(tag)[m + 1].cells
    BY <1>7
  <2> DEFINE g == file'
  <2>3. g = file \o cells /\ tag \in Tags /\ at \in Nat /\ file \in Seq(Nat)
    BY <1>4, <1>7, <1>9
  <2> HIDE DEF cells, at, tag, g
  <2>4. m < 2 => HoldsPart(g, at, tag, m + 1)
    BY ONLY <1>8, <2>1, <2>2, <2>3, m \in 0..2, NextPart
  <2>5. m = 2 => HoldsTag(g, at, tag)
    BY ONLY <1>8, <2>1, <2>2, <2>3, m \in 0..2, NextPart
  <2>6. m = 2 => Len(g) = at + TagSize(tag)
    <3> SUFFICES ASSUME m = 2 PROVE Len(g) = at + TagSize(tag)
      OBVIOUS
    <3>1. Len(file) = at + TagHeaderSize + Len(tag.data)
      BY <2>1 DEF HoldsPart
    <3>2. Len(g) = Len(file) + Len(cells)
      BY ONLY <1>8, <2>3, FileGrows
    <3>3. Len(cells) = PreviousTagSize
      <4>1. m + 1 = 3
        OBVIOUS
      <4>2. QED  BY <2>2, <2>3, <4>1, IovsOfTag
    <3>4. Len(tag.data) \in Nat /\ TagSize(tag) = 15 + Len(tag.data)
      BY <2>3, TagFields
    <3> DEFINE n == Len(tag.data)
    <3>5. n \in Nat /\ at \in Nat /\ Len(g) = at + 11 + n + 4 /\ TagSize(tag) = 15 + n
      BY <2>3, <3>1, <3>2, <3>3, <3>4 DEF TagHeaderSize, PreviousTagSize
    <3> HIDE DEF n
    <3>6. QED  BY <3>5
  <2>7. QED  BY <2>4, <2>5, <2>6 DEF g
<1>11. /\ Layout(file', tags', whole, off)
       /\ \A longer : longer[Len(delivered) + 1] = off[Len(delivered) + 1] => Reading(longer)'
  <2> HIDE DEF cells
  <2>1. QED  BY <1>1, <1>3, <1>4, <1>8, FileIsLonger
<1>12. CASE m < 2
  <2>1. whole' = whole
    <3>1. ~TagIovs(tag)[m + 1].last
      <4>1. /\ TagIovs(tag)[1] = Iov(TagHeader(tag)) /\ TagIovs(tag)[2] = Iov(tag.data)
        BY <1>7, IovsOfTag
      <4>2. m + 1 = 1 \/ m + 1 = 2
        BY <1>12
      <4>3. \A c : ~Iov(c).last
        BY Zenon DEF Iov
      <4>4. QED  BY <4>1, <4>2, <4>3, Zenon
    <3>2. QED  BY <1>5, <1>7, <3>1, Zenon
  <2>2. Writing(off, m + 1)'
    <3>1. m + 1 \in 0..2 /\ (m + 1 > 0 => whole < Len(tags))
      BY <1>7, <1>12
    <3>2. HoldsPart(file', at, tag, m + 1)
      BY <1>10, <1>12
    <3>3. Len(iovs') = 3 * Len(tags) - (3 * whole + (m + 1))
      BY <1>7, <1>9
    <3>4. \A j \in 1..Len(iovs') : iovs'[j] = Planned(tags)[3 * whole + (m + 1) + j]
      <4>1. 3 * whole + (m + 1) = 3 * whole + m + 1
        BY <1>9
      <4>2. QED  BY <1>7, <4>1
    <3>5. QED  BY <1>4, <2>1, <3>1, <3>2, <3>3, <3>4 DEF Writing
  <2>3. Layout(file', tags', whole', off) /\ Reading(off)'
    BY <1>11, <2>1
  <2>4. Len(delivered') <= whole' /\ whole' <= Len(tags')
    BY <1>3, <1>4, <1>6, <1>7, <1>9, <2>1
  <2>5. \E k \in 0..2 : Writing(off, k)'
    <3>1. m + 1 \in 0..2
      BY <1>12
    <3>2. QED  BY <2>2, <3>1
  <2>6. Growing'
    BY <1>6, <2>3, <2>4, <2>5 DEF Growing
  <2>7. ReadAsWritten'
    BY <1>3, <1>4, <1>6, <1>9, <2>1, <2>4, StillAsWritten
  <2>8. QED  BY <2>4, <2>6, <2>7
<1>13. CASE m = 2
  <2> PICK longer : longer = Append(off, at + TagSize(tag))
    OBVIOUS
  <2>1. whole' = whole + 1
    <3>1. TagIovs(tag)[3].last /\ m + 1 = 3
      BY <1>7, <1>13, IovsOfTag
    <3>2. QED  BY <1>5, <1>7, <3>1, Zenon
  <2>2. HoldsTag(file', at, tag) /\ Len(file') = at + TagSize(tag)
    BY <1>10, <1>13
  <2>3. /\ Layout(file', tags, whole + 1, longer)
        /\ \A k \in 1..(whole + 1) : longer[k] = off[k]
        /\ longer[whole + 2] = at + TagSize(tag)
    <3> DEFINE g == file'
    <3>1. Layout(g, tags, whole, off) /\ HoldsTag(g, off[whole + 1], tags[whole + 1])
      BY <1>4, <1>11, <2>2
    <3>2. longer = Append(off, off[whole + 1] + TagSize(tags[whole + 1]))
      OBVIOUS
    <3>3. tags \in Seq(Tags) /\ whole \in 0..Len(tags) /\ whole < Len(tags)
      BY <1>7, <1>9
    <3> HIDE DEF g
    <3>4. Layout(g, tags, whole + 1, longer)
      BY ONLY <3>1, <3>2, <3>3, LayoutWithTheNextTag
    <3> DEFINE size == TagSize(tags[whole + 1])
               end == off[whole + 1] + size
    <3>5. size \in Nat
      BY <1>7, TagFields
    <3>6. off[whole + 1] \in Nat /\ Len(off) = whole + 1
      BY <1>1, <1>9 DEF Layout
    <3> HIDE DEF size
    <3>7. end \in Nat
      BY <3>5, <3>6
    <3>8. longer = Append(off, end)
      BY <3>2 DEF size
    <3> HIDE DEF end
    <3>9. \A k \in 1..(whole + 1) : longer[k] = off[k]
      BY ONLY off \in Seq(Nat), <3>6, <3>7, <3>8, AppendProperties
    <3>10. longer[whole + 1 + 1] = end
      BY ONLY off \in Seq(Nat), <3>6, <3>7, <3>8, AppendProperties
    <3>11. longer[whole + 2] = off[whole + 1] + TagSize(tags[whole + 1])
      <4>1. whole + 1 + 1 = whole + 2
        BY <1>9
      <4>2. QED  BY <3>10, <4>1 DEF end, size
    <3>12. QED  BY <3>4, <3>9, <3>11 DEF g
  <2>4. Reading(longer)'
    <3>1. Len(delivered) + 1 \in 1..(whole + 1)
      BY <1>3, <1>9
    <3>2. longer[Len(delivered) + 1] = off[Len(delivered) + 1]
      BY <2>3, <3>1
    <3>3. QED  BY <1>11, <3>2
  <2>5. longer \in Seq(Nat)
    <3>1. TagSize(tag) \in Nat
      BY <1>7, TagFields
    <3> DEFINE size == TagSize(tag)
    <3>2. at \in Nat /\ size \in Nat /\ longer = Append(off, at + size)
      BY <1>9, <3>1
    <3> HIDE DEF at, size
    <3>3. QED  BY <3>2, AppendProperties
  <2>6. Writing(longer, 0)'
    <3>1. Len(iovs') = 3 * Len(tags) - (3 * (whole + 1) + 0)
      BY <1>7, <1>9, <1>13
    <3>2. \A j \in 1..Len(iovs') : iovs'[j] = Planned(tags)[3 * (whole + 1) + 0 + j]
      <4>1. 3 * (whole + 1) + 0 = 3 * whole + m + 1
        BY <1>9, <1>13
      <4>2. QED  BY <1>7, <4>1
    <3>3. longer[whole' + 1] = Len(file')
      <4>1. whole' + 1 = whole + 2
        BY <1>9, <2>1
      <4>2. QED  BY <2>2, <2>3, <4>1
    <3>4. HoldsPart(file', longer[whole' + 1], tags'[whole' + 1], 0)
      BY ONLY <3>3, 0 \in 0..2 DEF HoldsPart
    <3>5. /\ Len(iovs') = 3 * Len(tags') - (3 * whole' + 0)
          /\ \A j \in 1..Len(iovs') : iovs'[j] = Planned(tags')[3 * whole' + 0 + j]
      BY <1>4, <2>1, <3>1, <3>2
    <3>6. QED  BY ONLY <3>4, <3>5, 0 \in 0..2 DEF Writing
  <2>7. Len(delivered') <= whole' /\ whole' <= Len(tags')
    <3>1. Len(delivered) <= whole + 1 /\ whole + 1 <= Len(tags)
      BY <1>3, <1>7, <1>9
    <3>2. QED  BY <1>4, <1>6, <2>1, <3>1
  <2>8. \E k \in 0..2 : Writing(longer, k)'
    <3>1. 0 \in 0..2
      OBVIOUS
    <3>2. QED  BY <2>6, <3>1
  <2>9. Growing'
    <3>1. Layout(file', tags', whole', longer)
      BY <1>4, <2>1, <2>3
    <3>2. QED  BY <1>6, <2>4, <2>5, <2>7, <2>8, <3>1 DEF Growing
  <2>10. ReadAsWritten'
    BY <1>3, <1>4, <1>6, <1>9, <2>1, <2>7, StillAsWritten
  <2>11. QED  BY <2>7, <2>9, <2>10
<1>14. QED  BY <1>12, <1>13

\* Whatever a write does to the file, it puts cells behind those that are there.
LEMMA WritesAppend ==
    ASSUME TypeOK, Write \/ ShortWrite \/ WriteFails
    PROVE  /\ \E cells \in Seq(Nat) : file' = file \o cells
           /\ UNCHANGED <<tags, delivered, reader>>
<1>1. file \in Seq(Nat)
  BY DEF TypeOK
<1>2. UNCHANGED <<tags, delivered, reader>>
  BY DEF Write, ShortWrite, WriteFails, reader
<1>3. CASE Write
  <2>1. file' = file \o Head(iovs).cells /\ iovs # << >>
    BY <1>3 DEF Write
  <2>2. Head(iovs).cells \in Seq(Nat)
    BY <2>1, IovTypes
  <2>3. QED  BY <1>2, <2>1, <2>2
<1>4. CASE ShortWrite
  <2>1. /\ iovs # << >>
        /\ \E n \in 0..Len(Head(iovs).cells) - 1 :
              file' = file \o SubSeq(Head(iovs).cells, 1, n)
    BY <1>4 DEF ShortWrite
  <2>2. \A n \in 0..Len(Head(iovs).cells) - 1 : SubSeq(Head(iovs).cells, 1, n) \in Seq(Nat)
    BY <2>1, IovTypes
  <2>3. QED  BY <1>2, <2>1, <2>2
<1>5. CASE WriteFails
  <2>1. file' = file
    BY <1>5 DEF WriteFails
  <2>2. file \o << >> = file /\ << >> \in Seq(Nat)
    BY <1>1, ConcatEmptySeq
  <2>3. QED  BY <1>2, <2>1, <2>2
<1>6. QED  BY <1>3, <1>4, <1>5

\* A write when something is torn, or which tears something, keeps the whole tags.
LEMMA TornWrites ==
    ASSUME TypeOK, whole <= Len(tags), ReadAsWritten, Len(delivered) <= whole,
           NEW off \in Seq(Nat), Layout(file, tags, whole, off), Reading(off),
           Write \/ ShortWrite \/ WriteFails, torn', whole' = whole
    PROVE  (Behind \/ Past)' /\ ReadAsWritten' /\ whole' <= Len(tags')
<1>1. PICK cells \in Seq(Nat) : file' = file \o cells
  BY WritesAppend
<1>2. UNCHANGED <<tags, reader>> /\ UNCHANGED delivered
  BY WritesAppend
<1>3. Layout(file', tags', whole, off) /\ Reading(off)'
  BY <1>1, <1>2, FileIsLonger
<1>4. Len(delivered) \in Nat /\ whole \in Nat
  BY Lengths
<1>5. ReadAsWritten'
  <2>1. \A i \in 1..whole : tags'[i] = tags[i]
    BY <1>2
  <2>2. QED  BY <1>2, <1>4, <2>1, StillAsWritten, Zenon
<1>6. whole' <= Len(tags')
  BY <1>2
<1>7. CASE Len(delivered) < whole
  <2>1. Len(delivered') < whole'
    BY <1>2, <1>7
  <2>2. Layout(file', tags', whole', off)
    BY <1>3
  <2>3. Behind'
    BY <1>3, <2>1, <2>2 DEF Behind
  <2>4. QED  BY <1>5, <1>6, <2>3
<1>8. CASE whole <= Len(delivered)
  <2>1. Past'
    BY <1>2, <1>8 DEF Past
  <2>2. QED  BY <1>5, <1>6, <2>1
<1>9. QED  BY <1>4, <1>7, <1>8

\* The write that tears something.
LEMMA GrowingTorn ==
    ASSUME TypeOK, whole <= Len(tags), ReadAsWritten, Growing, ShortWrite \/ WriteFails
    PROVE  (Behind \/ Past)' /\ ReadAsWritten' /\ whole' <= Len(tags')
<1>1. PICK off \in Seq(Nat) : Layout(file, tags, whole, off) /\ Reading(off)
  BY DEF Growing
<1>2. Len(delivered) <= whole
  BY DEF Growing
<1>3. torn' /\ whole' = whole
  BY Zenon DEF ShortWrite, WriteFails
<1>4. QED  BY <1>1, <1>2, <1>3, TornWrites

\* The writes when something was torn.
LEMMA BehindWrite ==
    ASSUME TypeOK, whole <= Len(tags), ReadAsWritten, Behind, Write
    PROVE  (Behind \/ Past)' /\ ReadAsWritten' /\ whole' <= Len(tags')
<1>1. PICK off \in Seq(Nat) : Layout(file, tags, whole, off) /\ Reading(off)
  BY DEF Behind
<1>2. Len(delivered) <= whole
  <2>1. Len(delivered) < whole /\ Len(delivered) \in Nat /\ whole \in Nat
    BY Lengths DEF Behind
  <2>2. QED  BY <2>1
<1>3. torn' /\ whole' = whole
  BY Zenon DEF Write, Behind
<1>4. QED  BY <1>1, <1>2, <1>3, TornWrites

LEMMA PastWrite ==
    ASSUME TypeOK, whole <= Len(tags), ReadAsWritten, Past, Write
    PROVE  Past' /\ ReadAsWritten' /\ whole' <= Len(tags')
<1>1. UNCHANGED <<tags, delivered, reader>>
  BY WritesAppend
<1>2. torn' /\ whole' = whole
  BY Zenon DEF Write, Past
<1>3. whole <= Len(delivered)
  BY DEF Past
<1>4. ReadAsWritten'
  <2>1. \A i \in 1..whole : tags'[i] = tags[i]
    BY <1>1
  <2>2. Len(delivered) \in Nat /\ whole \in Nat
    BY Lengths
  <2>3. QED  BY <1>1, <1>2, <2>1, <2>2, StillAsWritten, Zenon
<1>5. QED  BY <1>1, <1>2, <1>3, <1>4 DEF Past

\* Before the headers of the file are whole, no tag is offered; what tears them is
\* promised nothing of.
LEMMA NotBegunTorn ==
    ASSUME TypeOK, ReadAsWritten, NotBegun, ShortWrite \/ WriteFails
    PROVE  Past' /\ ReadAsWritten' /\ whole' <= Len(tags')
<1>1. UNCHANGED <<tags, delivered, reader>>
  BY WritesAppend
<1>2. torn' /\ whole' = whole
  BY Zenon DEF ShortWrite, WriteFails
<1>3. whole = 0 /\ delivered = << >> /\ tags = << >>
  BY DEF NotBegun, AtHeaders
<1>4. Len(delivered) = 0 /\ Len(tags) = 0
  BY <1>3
<1>5. ReadAsWritten'
  <2>1. \A i \in 1..whole : tags'[i] = tags[i]
    BY <1>1
  <2>2. QED  BY <1>1, <1>2, <1>3, <1>4, <2>1, StillAsWritten, Zenon
<1>6. QED  BY <1>1, <1>2, <1>3, <1>4, <1>5 DEF Past

\* The headers are offered.
LEMMA NotBegunHeader ==
    ASSUME TypeOK, NotBegun, WriteHeader
    PROVE  NotBegun'
<1>1. /\ file = << >> /\ iovs' = HeaderIovs
      /\ UNCHANGED <<file, torn, tags, whole, reader>>
  BY DEF WriteHeader
<1>2. ~torn /\ tags = << >> /\ whole = 0 /\ AtHeaders
  BY Zenon DEF NotBegun
<1>3. AtHeaders'
  BY <1>1, <1>2 DEF AtHeaders, reader
<1>4. ~torn' /\ tags' = << >> /\ whole' = 0
  BY <1>1, <1>2, Zenon
<1>5. file' = << >> /\ iovs' \in {<< >>, HeaderIovs}
  BY <1>1
<1>6. QED  BY <1>3, <1>4, <1>5, Zenon DEF NotBegun

\* The file has a header already, or the writer has met an error.
LEMMA OnlyOneHeader ==
    ASSUME TypeOK, Growing \/ torn
    PROVE  ~WriteHeader
<1>1. CASE torn
  BY <1>1, Zenon DEF WriteHeader
<1>2. CASE Growing
  <2>1. PICK off \in Seq(Nat) : Layout(file, tags, whole, off)
    BY <1>2 DEF Growing
  <2>2. Len(file) >= 13
    BY <2>1 DEF Layout, HeadersEnd, HeaderSize, PreviousTagSize
  <2>3. file # << >>
    BY <2>2
  <2>4. QED  BY <2>3 DEF WriteHeader
<1>3. QED  BY <1>1, <1>2

\* Tags are not offered before the headers are whole.
LEMMA HeadersComeFirst ==
    ASSUME TypeOK, NotBegun, NEW group, WriteTags(group)
    PROVE  FALSE
<1>1. iovs = << >> /\ (file # << >> \/ torn)
  BY DEF WriteTags
<1>2. ~torn
  BY Zenon DEF NotBegun
<1>3. file # << >>
  BY <1>1, <1>2, Zenon
<1>4. iovs = <<HeaderIovs[2]>>
  BY <1>3 DEF NotBegun
<1>5. Len(iovs) = 0 /\ Len(iovs) = 1
  BY <1>1, <1>4
<1>6. QED  BY <1>5

\* A file that was just opened has not begun.
LEMMA InitHolds == Init => IInv
<1> SUFFICES ASSUME Init PROVE IInv
  OBVIOUS
<1>1. TypeOK
  BY InitTypes
<1>2. ~torn /\ tags = << >> /\ whole = 0 /\ delivered = << >> /\ file = << >> /\ iovs = << >>
  BY Zenon DEF Init
<1>3. AtHeaders
  BY DEF Init, AtHeaders
<1>4. file = << >> /\ iovs \in {<< >>, HeaderIovs}
  BY <1>2
<1>5. NotBegun
  BY <1>2, <1>3, <1>4, Zenon DEF NotBegun
<1>6. Len(delivered) <= whole /\ whole <= Len(tags)
  BY <1>2
<1>7. ReadAsWritten
  BY <1>2, <1>6 DEF ReadAsWritten
<1>8. QED  BY <1>1, <1>5, <1>6, <1>7 DEF IInv

\* One step per action, and in it one per phase of the file.
LEMMA NextHolds == IInv /\ [Next]_vars => IInv'
<1> SUFFICES ASSUME IInv, [Next]_vars PROVE IInv'
  OBVIOUS
<1>1. TypeOK /\ whole <= Len(tags) /\ ReadAsWritten
  BY DEF IInv
<1>2. NotBegun \/ Growing \/ Behind \/ Past
  BY DEF IInv
<1>3. Behind \/ Past => torn
  BY Zenon DEF Behind, Past
<1>4. CASE UNCHANGED vars
  <2>1. /\ UNCHANGED <<file, iovs, torn, tags, whole>>
        /\ UNCHANGED <<pc, pos, start, head, delivered>>
    BY <1>4 DEF vars, writer, reader
  <2>2. TypeOK'
    BY <1>1, <2>1, Zenon DEF TypeOK
  <2>3. (whole <= Len(tags))' /\ ReadAsWritten'
    BY <1>1, <2>1, Zenon DEF ReadAsWritten
  <2>4. \A off : Reading(off) => Reading(off)'
    BY <2>1 DEF Reading, AtHeaders, AtTag
  <2>5. \A off, m : Writing(off, m) => Writing(off, m)'
    BY <2>1 DEF Writing
  <2>6. NotBegun => NotBegun'
    BY <2>1, Zenon DEF NotBegun, AtHeaders
  <2>7. Growing => Growing'
    BY <2>1, <2>4, <2>5, Zenon DEF Growing
  <2>8. (Behind => Behind') /\ (Past => Past')
    BY <2>1, <2>4, Zenon DEF Behind, Past
  <2>9. QED  BY <1>2, <2>2, <2>3, <2>6, <2>7, <2>8 DEF IInv
<1>5. CASE WriteHeader
  <2>1. TypeOK'
    BY <1>1, <1>5, WriterTypes
  <2>2. UNCHANGED <<torn, tags, whole, delivered>>
    BY <1>5 DEF WriteHeader, reader
  <2>3. (whole <= Len(tags))' /\ ReadAsWritten'
    BY <1>1, <2>2, Zenon DEF ReadAsWritten
  <2>4. NotBegun
    BY <1>1, <1>2, <1>3, <1>5, OnlyOneHeader
  <2>5. NotBegun'
    BY <1>1, <1>5, <2>4, NotBegunHeader
  <2>6. QED  BY <2>1, <2>3, <2>5 DEF IInv
<1>6. CASE \/ \E tag \in Tags : WriteTag(tag)
           \/ \E group \in Groups : WriteTags(group)
  <2>1. TypeOK'
    BY <1>1, <1>6, WriterTypes
  <2>2. PICK group \in Seq(Tags) : WriteTags(group)
    BY <1>1, <1>6, OfferedTags
  <2>3. /\ UNCHANGED <<torn, whole, delivered>>
        /\ whole' <= Len(tags') /\ ReadAsWritten'
    BY <1>1, <2>2, MoreTags
  <2>4. CASE Growing
    BY <1>1, <2>1, <2>2, <2>3, <2>4, GrowingWriteTags DEF IInv
  <2>5. CASE Behind
    BY <1>1, <2>1, <2>2, <2>3, <2>5, BehindWriteTags DEF IInv
  <2>6. Past => Past'
    BY <2>3, Zenon DEF Past
  <2>7. ~NotBegun
    BY <1>1, <2>2, HeadersComeFirst
  <2>8. QED  BY <1>2, <2>1, <2>3, <2>4, <2>5, <2>6, <2>7 DEF IInv
<1>7. CASE Write
  <2>1. TypeOK' /\ UNCHANGED reader
    BY <1>1, <1>7, WriterTypes
  <2>2. CASE NotBegun
    <3>1. (NotBegun \/ Growing)' /\ whole' = 0
      BY <1>1, <1>7, <2>1, <2>2, NotBegunWrite
    <3>2. delivered' = << >> /\ tags' = << >> /\ Len(tags') = 0 /\ Len(delivered') = 0
      BY <1>7, <2>2 DEF NotBegun, AtHeaders, Write, reader
    <3>3. (whole <= Len(tags))' /\ ReadAsWritten'
      BY <3>1, <3>2 DEF ReadAsWritten
    <3>4. QED  BY <2>1, <3>1, <3>3 DEF IInv
  <2>3. CASE Growing
    <3>1. Growing' /\ ReadAsWritten' /\ whole' <= Len(tags')
      BY <1>1, <1>7, <2>1, <2>3, GrowingWrite
    <3>2. QED  BY <2>1, <3>1 DEF IInv
  <2>4. CASE Behind
    <3>1. (Behind \/ Past)' /\ ReadAsWritten' /\ whole' <= Len(tags')
      BY <1>1, <1>7, <2>4, BehindWrite
    <3>2. QED  BY <2>1, <3>1 DEF IInv
  <2>5. CASE Past
    <3>1. Past' /\ ReadAsWritten' /\ whole' <= Len(tags')
      BY <1>1, <1>7, <2>5, PastWrite
    <3>2. QED  BY <2>1, <3>1 DEF IInv
  <2>6. QED  BY <1>2, <2>2, <2>3, <2>4, <2>5
<1>8. CASE ShortWrite \/ WriteFails
  <2>1. TypeOK'
    BY <1>1, <1>8, WriterTypes
  <2>2. ~torn
    BY <1>8, Zenon DEF ShortWrite, WriteFails
  <2>3. CASE NotBegun
    <3>1. Past' /\ ReadAsWritten' /\ whole' <= Len(tags')
      BY <1>1, <1>8, <2>3, NotBegunTorn
    <3>2. QED  BY <2>1, <3>1 DEF IInv
  <2>4. CASE Growing
    <3>1. (Behind \/ Past)' /\ ReadAsWritten' /\ whole' <= Len(tags')
      BY <1>1, <1>8, <2>4, GrowingTorn
    <3>2. QED  BY <2>1, <3>1 DEF IInv
  <2>5. QED  BY <1>2, <1>3, <2>2, <2>3, <2>4, Zenon
<1>9. CASE Read
  <2>1. TypeOK' /\ UNCHANGED writer
    BY <1>1, <1>9, ReaderTypes
  <2>2. (whole <= Len(tags))'
    BY <1>1, <2>1 DEF writer
  <2>3. CASE NotBegun
    <3>1. NotBegun'
      BY <1>1, <1>9, <2>3, NotBegunRead
    <3>2. delivered' = << >> /\ whole' = 0 /\ Len(delivered') = 0
      BY <3>1 DEF NotBegun, AtHeaders
    <3>3. ReadAsWritten'
      BY <3>2 DEF ReadAsWritten
    <3>4. QED  BY <2>1, <2>2, <3>1, <3>3 DEF IInv
  <2>4. CASE Growing
    <3>1. Growing' /\ ReadAsWritten'
      BY <1>1, <1>9, <2>4, GrowingRead
    <3>2. QED  BY <2>1, <2>2, <3>1 DEF IInv
  <2>5. CASE Behind
    <3>1. (Behind \/ Past)' /\ ReadAsWritten'
      BY <1>1, <1>9, <2>5, BehindRead
    <3>2. QED  BY <2>1, <2>2, <3>1 DEF IInv
  <2>6. CASE Past
    <3>1. Past' /\ ReadAsWritten'
      BY <1>1, <1>9, <2>6, PastRead
    <3>2. QED  BY <2>1, <2>2, <3>1 DEF IInv
  <2>7. QED  BY <1>2, <2>3, <2>4, <2>5, <2>6
<1>10. QED  BY <1>4, <1>5, <1>6, <1>7, <1>8, <1>9 DEF Next

\* The inductive invariant holds in every state.
THEOREM FileHolds == Spec => []IInv
<1>1. QED  BY InitHolds, NextHolds, PTL DEF Spec

\* The tags that were written before a write failed or was short are read as they
\* were written, each once and in order, whatever they hold, however the reads fall
\* between the writes, and however often the reader meets the end of the file inside
\* of a tag and goes back to its start; while nothing is torn, no more than the whole
\* tags are read (srs_flv_read_tag_header(), srs_flv_read_tag_data(), srs_flv_write_tag()).
THEOREM TagsAreReadAsWritten == Spec => []ReadAsWritten
<1>1. IInv => ReadAsWritten
  BY DEF IInv
<1>2. QED  BY FileHolds, <1>1, PTL
==============================================================================
