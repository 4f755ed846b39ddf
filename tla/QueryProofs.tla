---------------------------- MODULE QueryProofs ----------------------------
(***************************************************************************)
(* Theorems about the query parser, for every text of a query and every    *)
(* two limits.                                                             *)
(***************************************************************************)
EXTENDS QueryParser, BlockProofs

Text == Seq(Nat)

(***************************************************************************)
(* How many bytes a text has.                                              *)
(***************************************************************************)

Encode(c) == IF c < 128 THEN <<c>> ELSE <<192 + (c \div 64), 128 + (c % 64)>>
Width(c)  == Len(Encode(c))
Size(s)   == Len(UTF8(s))

\* What of the text is read once its first k characters are.
Upto(s, k) == Size(SubSeq(s, 1, k))

LEMMA EncodeType ==
  ASSUME NEW c \in Nat
  PROVE  Encode(c) \in Stream /\ Width(c) \in 1 .. 2
<1>1. c \div 64 \in Nat /\ c % 64 \in Nat
  OBVIOUS
<1>2. 192 + (c \div 64) \in Nat /\ 128 + (c % 64) \in Nat
  BY <1>1
<1>3. CASE c < 128
  <2>1. Encode(c) = <<c>>
    BY <1>3 DEF Encode
  <2> QED BY <2>1 DEF Width, Stream
<1>4. CASE ~(c < 128)
  <2> DEFINE a == 192 + (c \div 64)
             b == 128 + (c % 64)
  <2>1. Encode(c) = <<a, b>>
    BY <1>4 DEF Encode
  <2>2. a \in Nat /\ b \in Nat
    BY <1>2
  <2> HIDE DEF a, b
  <2>3. <<a, b>> \in Seq(Nat) /\ Len(<<a, b>>) = 2
    BY <2>2
  <2> QED BY <2>1, <2>3 DEF Width, Stream
<1> QED BY <1>3, <1>4

LEMMA UTF8Type ==
  ASSUME NEW s \in Text
  PROVE  /\ [k \in DOMAIN s |-> Encode(s[k])] \in Seq(Stream)
         /\ UTF8(s) = FlattenSeq([k \in DOMAIN s |-> Encode(s[k])])
         /\ UTF8(s) \in Stream /\ Size(s) \in Nat
<1>1. DOMAIN s = 1 .. Len(s) /\ Len(s) \in Nat /\ \A k \in DOMAIN s : s[k] \in Nat
  BY DEF Text
<1>2. \A k \in DOMAIN s : Encode(s[k]) \in Stream
  BY <1>1, EncodeType
<1>3. [k \in DOMAIN s |-> Encode(s[k])] \in Seq(Stream)
  BY <1>1, <1>2, IsASeq
<1>4. UTF8(s) = FlattenSeq([k \in DOMAIN s |-> Encode(s[k])])
  BY DEF UTF8, Encode
<1>5. UTF8(s) \in Stream
  BY <1>3, <1>4, Flattened
<1>6. Size(s) \in Nat
  BY <1>5, LenProperties DEF Size, Stream
<1> QED BY <1>3, <1>4, <1>5, <1>6

\* A text has the bytes of its characters, one after the other.
LEMMA SizeAppend ==
  ASSUME NEW s \in Text, NEW c \in Nat
  PROVE  Append(s, c) \in Text /\ Size(Append(s, c)) = Size(s) + Width(c)
<1> DEFINE t == Append(s, c)
           es == [k \in DOMAIN s |-> Encode(s[k])]
           et == [k \in DOMAIN t |-> Encode(t[k])]
           n == Len(s)
<1>1. /\ n \in Nat /\ DOMAIN s = 1 .. n /\ t \in Text /\ Len(t) = n + 1
      /\ DOMAIN t = 1 .. n + 1 /\ t[n + 1] = c /\ \A k \in 1 .. n : t[k] = s[k]
  BY DEF Text
<1>2. es \in Seq(Stream) /\ UTF8(s) = FlattenSeq(es) /\ UTF8(s) \in Stream
  BY UTF8Type
<1>3. et \in Seq(Stream) /\ UTF8(t) = FlattenSeq(et)
  BY <1>1, UTF8Type
<1>4. Encode(c) \in Stream
  BY EncodeType
<1>5. et = Append(es, Encode(c))
  <2> HIDE DEF t
  <2>1. Len(es) = n /\ Len(et) = n + 1
    BY <1>1
  <2>2. \A k \in 1 .. n + 1 : et[k] = Append(es, Encode(c))[k]
    BY <1>1
  <2>3. Len(Append(es, Encode(c))) = n + 1 /\ Append(es, Encode(c)) \in Seq(Stream)
    <3> HIDE DEF es
    <3> QED BY <1>2, <1>4, <2>1
  <2> HIDE DEF es, et
  <2> QED BY <1>3, <2>1, <2>2, <2>3, SeqEqual
<1> HIDE DEF t, es, et
<1>6. FlattenSeq(et) = Join(FlattenSeq(es), Encode(c))
  <2>1. Flat!Fold(0, et) = Joined(0, Flat!Fold(0, es), Encode(c))
    BY <1>2, <1>4, <1>5, Flat!FoldAppend
  <2> QED BY <1>2, <1>3, <2>1, Flattened DEF Joined
<1>7. Len(Join(UTF8(s), Encode(c))) = Len(UTF8(s)) + Len(Encode(c))
  BY <1>2, <1>4, ConcatProperties DEF Join, Stream
<1> QED BY <1>1, <1>2, <1>3, <1>6, <1>7 DEF t, Size, Width

LEMMA SizeEmpty == <<>> \in Text /\ Size(<<>>) = 0
<1>1. <<>> \in Text /\ <<>> \in Seq(Stream)
  BY EmptySeq DEF Text
<1>2. UTF8(<<>>) = FlattenSeq(<<>>)
  <2>1. [k \in DOMAIN <<>> |-> Encode(<<>>[k])] = <<>>
    OBVIOUS
  <2> QED BY <1>1, <2>1, UTF8Type
<1>3. FlattenSeq(<<>>) = <<>>
  BY <1>1, Flattened, Flat!FoldEmpty DEF Empty
<1> QED BY <1>1, <1>2, <1>3 DEF Size

\* Each character adds its bytes to what is read, and so do those of a slice.
LEMMA UptoGrows ==
  ASSUME NEW s \in Text
  PROVE  /\ Upto(s, 0) = 0 /\ Upto(s, Len(s)) = Size(s)
         /\ \A k \in 0 .. Len(s) : Upto(s, k) \in Nat
         /\ \A k \in 1 .. Len(s) : Upto(s, k) = Upto(s, k - 1) + Width(s[k])
<1>1. Len(s) \in Nat
  BY LenProperties DEF Text
<1>2. SubSeq(s, 1, 0) = <<>> /\ SubSeq(s, 1, Len(s)) = s
  BY SubSeqFull DEF Text
<1>3. \A k \in 0 .. Len(s) : SubSeq(s, 1, k) \in Text
  BY SubSeqProperties DEF Text
<1>4. ASSUME NEW k \in 1 .. Len(s)
      PROVE  Upto(s, k) = Upto(s, k - 1) + Width(s[k])
  <2>1. SubSeq(s, 1, k) = Append(SubSeq(s, 1, k - 1), s[k])
    BY DEF Text
  <2>2. SubSeq(s, 1, k - 1) \in Text /\ s[k] \in Nat
    <3>1. k - 1 \in 0 .. Len(s)
      BY <1>1
    <3> QED BY <1>3, <3>1, ElementOfSeq DEF Text
  <2> QED BY <2>1, <2>2, SizeAppend DEF Upto
<1> QED BY <1>2, <1>3, <1>4, SizeEmpty, UTF8Type DEF Upto

LEMMA SliceSize ==
  ASSUME NEW s \in Text, NEW i \in 1 .. Len(s) + 1, NEW j \in i - 1 .. Len(s)
  PROVE  /\ SubSeq(s, i, j) \in Text /\ Len(SubSeq(s, i, j)) = j - i + 1
         /\ Size(SubSeq(s, i, j)) = Upto(s, j) - Upto(s, i - 1)
         /\ Upto(s, i - 1) <= Upto(s, j)
<1>1. Len(s) \in Nat
  BY LenProperties DEF Text
<1> DEFINE Good == {k \in i - 1 .. j : Size(SubSeq(s, i, k)) = Upto(s, k) - Upto(s, i - 1)}
<1>2. \A k \in i - 1 .. j : k \in 0 .. Len(s) /\ Upto(s, k) \in Nat
  BY <1>1, UptoGrows
<1>3. \A k \in i - 1 .. j : SubSeq(s, i, k) \in Text /\ Len(SubSeq(s, i, k)) = k - i + 1
  <2> TAKE k \in i - 1 .. j
  <2>1. CASE k = i - 1
    <3>1. SubSeq(s, i, k) = <<>>
      BY <1>1, <2>1 DEF Text
    <3>2. Len(<<>>) = 0 /\ k - i + 1 = 0
      BY <1>1, <2>1
    <3> QED BY <3>1, <3>2, SizeEmpty
  <2>2. CASE k # i - 1
    BY <1>1, <2>2, SubSeqProperties DEF Text
  <2> QED BY <2>1, <2>2
<1>4. i - 1 \in Good
  <2>1. SubSeq(s, i, i - 1) = <<>>
    BY <1>1 DEF Text
  <2>2. i - 1 \in i - 1 .. j /\ Upto(s, i - 1) - Upto(s, i - 1) = 0
    BY <1>1, <1>2
  <2> QED BY <2>1, <2>2, SizeEmpty
<1>5. ASSUME NEW k \in i .. j, k - 1 \in Good
      PROVE  k \in Good
  <2>1. k - 1 \in i - 1 .. j /\ k \in i - 1 .. j /\ k \in 1 .. Len(s)
    BY <1>1
  <2>2. SubSeq(s, i, k) = Append(SubSeq(s, i, k - 1), s[k])
    BY <1>1, <2>1, SMTT(30) DEF Text
  <2>3. s[k] \in Nat /\ Width(s[k]) \in Nat
    BY <2>1, ElementOfSeq, EncodeType, SMTT(30) DEF Text
  <2>4. Size(SubSeq(s, i, k)) = Size(SubSeq(s, i, k - 1)) + Width(s[k])
    BY <1>3, <2>1, <2>2, <2>3, SizeAppend
  <2>5. Upto(s, k) = Upto(s, k - 1) + Width(s[k])
    BY <2>1, UptoGrows
  <2>6. Upto(s, k - 1) \in Nat /\ Upto(s, i - 1) \in Nat
    BY <1>2, <1>4, <2>1
  <2> QED BY <1>5, <2>1, <2>3, <2>4, <2>5, <2>6
<1> HIDE DEF Good
<1>6. i - 1 \in Nat /\ j \in Nat /\ j \in i - 1 .. j /\ i - 1 \in i - 1 .. j
  BY <1>1
<1>7. \A k \in (i - 1) + 1 .. j : k - 1 \in Good => k \in Good
  BY <1>5, <1>6
<1>8. j \in Good
  BY <1>4, <1>6, <1>7, Flat!Climb
<1>9. Size(SubSeq(s, i, j)) = Upto(s, j) - Upto(s, i - 1)
  BY <1>8 DEF Good
<1>10. SubSeq(s, i, j) \in Text /\ Len(SubSeq(s, i, j)) = j - i + 1
  BY <1>3, <1>6
<1>11. Upto(s, i - 1) <= Upto(s, j)
  <2>1. Size(SubSeq(s, i, j)) \in Nat /\ Upto(s, j) \in Nat /\ Upto(s, i - 1) \in Nat
    BY <1>2, <1>6, <1>10, UTF8Type
  <2> QED BY <1>9, <2>1
<1> QED BY <1>9, <1>10, <1>11

(***************************************************************************)
(* How many bytes a list of literals has.                                  *)
(***************************************************************************)

BytesOf(list) == FoldLeft(LAMBDA n, literal : n + Len(literal), 0, list)
Total(parts)  == BytesOf(Bytewise(parts))

NoBytes(p)               == 0
MoreBytes(p, n, literal) == n + Len(literal)
Adding == INSTANCE Folding WITH Start <- NoBytes, Step <- MoreBytes

LEMMA BytesAdd ==
  /\ BytesOf(<<>>) = 0
  /\ \A list \in Seq(Stream) : BytesOf(list) \in Nat
  /\ \A list \in Seq(Stream), literal \in Stream :
       BytesOf(Append(list, literal)) = BytesOf(list) + Len(literal)
<1>1. \A list : BytesOf(list) = Adding!Fold(0, list)
  BY DEF BytesOf, FoldLeft, MapThenFoldSet, Max, NoBytes, MoreBytes,
         Adding!Fold, Adding!FoldLeft, Adding!MapThenFoldSet, Adding!Max
<1>2. BytesOf(<<>>) = 0
  BY <1>1, Adding!FoldEmpty DEF NoBytes
<1>3. ASSUME NEW list \in Seq(Stream)
      PROVE  BytesOf(list) \in Nat
  <2>1. NoBytes(0) \in Nat
    BY DEF NoBytes
  <2>2. \A n \in Nat, literal \in Stream : MoreBytes(0, n, literal) \in Nat
    <3>1. \A literal \in Stream : Len(literal) \in Nat
      BY LenProperties DEF Stream
    <3> QED BY <3>1 DEF MoreBytes
  <2>3. Adding!Fold(0, list) \in Nat
    BY <2>1, <2>2, Adding!FoldKeeps
  <2> QED BY <1>1, <2>3
<1>4. ASSUME NEW list \in Seq(Stream), NEW literal \in Stream
      PROVE  BytesOf(Append(list, literal)) = BytesOf(list) + Len(literal)
  <2>1. Adding!Fold(0, Append(list, literal)) = MoreBytes(0, Adding!Fold(0, list), literal)
    BY Adding!FoldAppend
  <2> QED BY <1>1, <2>1 DEF MoreBytes
<1> QED BY <1>2, <1>3, <1>4

\* Two lists have the bytes of both.
LEMMA BytesJoin ==
  ASSUME NEW A \in Seq(Stream), NEW B \in Seq(Stream)
  PROVE  BytesOf(A \o B) = BytesOf(A) + BytesOf(B)
<1> DEFINE front(k) == SubSeq(B, 1, k)
           Good == {k \in 0 .. Len(B) : BytesOf(A \o front(k)) = BytesOf(A) + BytesOf(front(k))}
<1>1. Len(B) \in Nat /\ BytesOf(A) \in Nat
  BY LenProperties, BytesAdd
<1>2. 0 \in Good
  <2>1. front(0) = <<>> /\ A \o <<>> = A
    BY ConcatEmptySeq
  <2>2. BytesOf(A \o <<>>) = BytesOf(A) + BytesOf(<<>>)
    BY <1>1, <2>1, BytesAdd
  <2>3. 0 \in 0 .. Len(B)
    BY <1>1
  <2> HIDE DEF front
  <2> QED BY <2>1, <2>2, <2>3
<1>3. ASSUME NEW k \in 0 + 1 .. Len(B), k - 1 \in Good
      PROVE  k \in Good
  <2>1. k \in 1 .. Len(B) /\ k \in 0 .. Len(B) /\ k - 1 \in 0 .. Len(B)
    BY <1>1
  <2>2. front(k - 1) \in Seq(Stream) /\ B[k] \in Stream
    BY <2>1, SubSeqProperties, ElementOfSeq
  <2>3. front(k) = Append(front(k - 1), B[k])
    BY <2>1
  <2> HIDE DEF front
  <2>4. A \o front(k - 1) \in Seq(Stream)
    BY <2>2, ConcatProperties
  <2>5. A \o front(k) = Append(A \o front(k - 1), B[k])
    BY <2>2, <2>3
  <2>6. BytesOf(A \o front(k)) = BytesOf(A \o front(k - 1)) + Len(B[k])
    BY <2>2, <2>4, <2>5, BytesAdd
  <2>7. BytesOf(front(k)) = BytesOf(front(k - 1)) + Len(B[k])
    BY <2>2, <2>3, BytesAdd
  <2>8. BytesOf(front(k - 1)) \in Nat /\ Len(B[k]) \in Nat
    BY <2>2, BytesAdd, LenProperties DEF Stream
  <2> QED BY <1>1, <1>3, <2>1, <2>6, <2>7, <2>8
<1>4. front(Len(B)) = B
  BY SubSeqFull
<1> HIDE DEF Good, front
<1>5. Len(B) \in Good
  <2>1. Len(B) \in 0 .. Len(B) /\ 0 \in Nat
    BY <1>1
  <2>2. \A k \in 0 + 1 .. Len(B) : k - 1 \in Good => k \in Good
    BY <1>3
  <2> QED BY <1>1, <1>2, <2>1, <2>2, Flat!Climb
<1> QED BY <1>4, <1>5 DEF Good

\* The parts of a plan are texts, in bytes.
LEMMA BytewiseType ==
  ASSUME NEW parts \in Seq(Text)
  PROVE  /\ Bytewise(parts) \in Seq(Stream) /\ Len(Bytewise(parts)) = Len(parts)
         /\ \A k \in 1 .. Len(parts) : Bytewise(parts)[k] = UTF8(parts[k])
         /\ Total(parts) \in Nat
<1>1. /\ Len(parts) \in Nat /\ DOMAIN parts = 1 .. Len(parts)
      /\ \A k \in 1 .. Len(parts) : parts[k] \in Text
  BY LenProperties, ElementOfSeq
<1>2. \A k \in 1 .. Len(parts) : UTF8(parts[k]) \in Stream
  BY <1>1, UTF8Type
<1>3. Bytewise(parts) = [k \in 1 .. Len(parts) |-> UTF8(parts[k])]
  BY <1>1 DEF Bytewise
<1>4. Bytewise(parts) \in Seq(Stream)
  BY <1>1, <1>2, <1>3, IsASeq
<1>5. Len(Bytewise(parts)) = Len(parts)
  BY <1>1, <1>3
<1>6. \A k \in 1 .. Len(parts) : Bytewise(parts)[k] = UTF8(parts[k])
  BY <1>3
<1> QED BY <1>4, <1>5, <1>6, BytesAdd DEF Total

LEMMA TotalAppend ==
  ASSUME NEW parts \in Seq(Text), NEW s \in Text
  PROVE  Append(parts, s) \in Seq(Text) /\ Total(Append(parts, s)) = Total(parts) + Size(s)
<1> DEFINE more == Append(parts, s)
           n == Len(parts)
<1>1. /\ n \in Nat /\ more \in Seq(Text) /\ Len(more) = n + 1
      /\ more[n + 1] = s /\ \A k \in 1 .. n : more[k] = parts[k]
  OBVIOUS
<1> HIDE DEF more
<1>2. /\ Bytewise(parts) \in Seq(Stream) /\ Len(Bytewise(parts)) = n
      /\ \A k \in 1 .. n : Bytewise(parts)[k] = UTF8(parts[k])
  BY BytewiseType
<1>3. /\ Bytewise(more) \in Seq(Stream) /\ Len(Bytewise(more)) = n + 1
      /\ \A k \in 1 .. n + 1 : Bytewise(more)[k] = UTF8(more[k])
  BY <1>1, BytewiseType
<1>4. UTF8(s) \in Stream
  BY UTF8Type
<1>5. Bytewise(more) = Append(Bytewise(parts), UTF8(s))
  <2> DEFINE e == Bytewise(parts)
             t == Append(e, UTF8(s))
  <2>1. /\ t \in Seq(Stream) /\ Len(t) = n + 1
        /\ t[n + 1] = UTF8(s) /\ \A k \in 1 .. n : t[k] = e[k]
    <3> HIDE DEF e, n
    <3>1. e \in Seq(Stream) /\ Len(e) = n
      BY <1>2 DEF e
    <3> QED BY <1>4, <3>1
  <2>2. \A k \in 1 .. n + 1 : k \in 1 .. n \/ k = n + 1
    BY <1>1
  <2> HIDE DEF t, n
  <2>3. \A k \in 1 .. n + 1 : Bytewise(more)[k] = t[k]
    BY <1>1, <1>2, <1>3, <2>1, <2>2
  <2>4. Bytewise(more) = t
    BY <1>3, <2>1, <2>3, SeqEqual
  <2> QED BY <2>4 DEF t
<1>6. BytesOf(Bytewise(more)) = BytesOf(Bytewise(parts)) + Len(UTF8(s))
  BY <1>2, <1>4, <1>5, BytesAdd
<1> QED BY <1>1, <1>6 DEF more, Total, Size

LEMMA TotalEmpty == <<>> \in Seq(Text) /\ Total(<<>>) = 0
<1>1. Bytewise(<<>>) = <<>>
  BY DEF Bytewise
<1> QED BY <1>1, EmptySeq, BytesAdd DEF Total

(***************************************************************************)
(* Words.                                                                  *)
(***************************************************************************)

\* Where the words of a text begin and where they end.
Begins(s) == {i \in DOMAIN s : ~Blank(s[i]) /\ (i = 1 \/ Blank(s[i - 1]))}
Stops(s)  == {i \in DOMAIN s : ~Blank(s[i]) /\ (i = Len(s) \/ Blank(s[i + 1]))}

First(s)  == Ascending(Begins(s))

\* Where the word ends that i belongs to.
StopOf(s, i) == CHOOSE j \in Stops(s) : i <= j /\ \A m \in Stops(s) : i <= m => j <= m

\* From a character that is not blank to the next end there is no blank.
LEMMA WordEnds ==
  ASSUME NEW s \in Text, NEW i \in DOMAIN s, ~Blank(s[i])
  PROVE  /\ StopOf(s, i) \in Stops(s) /\ i <= StopOf(s, i)
         /\ \A m \in Stops(s) : i <= m => StopOf(s, i) <= m
         /\ \A m \in i .. StopOf(s, i) : ~Blank(s[m])
<1>1. Len(s) \in Nat /\ DOMAIN s = 1 .. Len(s)
  BY LenProperties DEF Text
<1> DEFINE loose == {m \in 1 .. Len(s) : ~Blank(s[m])}
           after == {j \in Stops(s) : i <= j}
<1>2. Stops(s) = {m \in 1 .. Len(s) : ~Blank(s[m]) /\ (m = Len(s) \/ Blank(s[m + 1]))}
  BY <1>1 DEF Stops
<1>3. \A k \in i + 1 .. Len(s) : k - 1 \in loose /\ k - 1 \notin Stops(s) => k \in loose
  <2> TAKE k \in i + 1 .. Len(s)
  <2>1. k \in 1 .. Len(s) /\ k - 1 \in 1 .. Len(s) /\ k - 1 # Len(s) /\ (k - 1) + 1 = k
    BY <1>1
  <2> QED BY <1>2, <2>1
<1>4. i \in loose /\ i \in Nat
  BY <1>1
<1> HIDE DEF loose
<1>5. after # {}
  <2> SUFFICES ASSUME after = {}
               PROVE  FALSE
    OBVIOUS
  <2>1. \A k \in i + 1 .. Len(s) : k - 1 \in loose => k \in loose
    <3> TAKE k \in i + 1 .. Len(s)
    <3>1. i <= k - 1
      BY <1>1, <1>4
    <3> QED BY <1>3, <3>1
  <2>2. Len(s) \in i .. Len(s)
    BY <1>1
  <2>3. Len(s) \in loose
    BY <1>1, <1>4, <2>1, <2>2, Flat!Climb
  <2>4. Len(s) \in after
    BY <1>1, <1>2, <2>2, <2>3 DEF loose
  <2> QED BY <2>4
<1>6. after \in SUBSET Nat
  BY <1>2
<1>7. PICK j \in after : \A m \in after : j <= m
  BY <1>5, <1>6, Flat!Least
<1>8. /\ StopOf(s, i) \in Stops(s) /\ i <= StopOf(s, i)
      /\ \A m \in Stops(s) : i <= m => StopOf(s, i) <= m
  <2>1. \E e \in Stops(s) : i <= e /\ \A m \in Stops(s) : i <= m => e <= m
    BY <1>7
  <2> QED BY <2>1 DEF StopOf
<1> DEFINE e == StopOf(s, i)
<1>9. e \in 1 .. Len(s)
  BY <1>2, <1>8
<1> HIDE DEF e
<1>10. \A k \in i + 1 .. e : k - 1 \in loose => k \in loose
  <2> TAKE k \in i + 1 .. e
  <2>1. k \in i + 1 .. Len(s) /\ i <= k - 1 /\ ~(e <= k - 1)
    BY <1>1, <1>4, <1>9
  <2> QED BY <1>3, <1>8, <2>1 DEF e
<1>11. \A k \in i .. e : k \in loose
  <2>1. e \in Nat
    BY <1>9
  <2> QED BY <1>4, <1>10, <2>1, Flat!Climb
<1> QED BY <1>8, <1>11 DEF e, loose

\* The next word begins after the end of this one, and each end belongs to a
\* word that begins somewhere.
LEMMA WordsApart ==
  ASSUME NEW s \in Text
  PROVE  /\ \A i, j \in Begins(s) : i < j => StopOf(s, i) < j
         /\ \A j \in Stops(s) : \E i \in Begins(s) : StopOf(s, i) = j
<1>1. Len(s) \in Nat /\ DOMAIN s = 1 .. Len(s)
  BY LenProperties DEF Text
<1>2. /\ Stops(s) = {m \in 1 .. Len(s) : ~Blank(s[m]) /\ (m = Len(s) \/ Blank(s[m + 1]))}
      /\ Begins(s) = {m \in 1 .. Len(s) : ~Blank(s[m]) /\ (m = 1 \/ Blank(s[m - 1]))}
  BY <1>1 DEF Stops, Begins
<1>3. ASSUME NEW i \in Begins(s), NEW j \in Begins(s), i < j
      PROVE  StopOf(s, i) < j
  <2>1. i \in 1 .. Len(s) /\ j \in 1 .. Len(s) /\ ~Blank(s[i]) /\ Blank(s[j - 1])
    BY <1>1, <1>2, <1>3
  <2>2. StopOf(s, i) \in 1 .. Len(s) /\ \A m \in i .. StopOf(s, i) : ~Blank(s[m])
    BY <1>1, <1>2, <2>1, WordEnds
  <2>3. j - 1 \notin i .. StopOf(s, i)
    BY <2>1, <2>2
  <2> QED BY <1>3, <2>1, <2>2, <2>3
<1>4. ASSUME NEW j \in Stops(s)
      PROVE  \E i \in Begins(s) : StopOf(s, i) = j
  <2> DEFINE back == {i \in 1 .. j : \A m \in i .. j : ~Blank(s[m])}
  <2>1. j \in 1 .. Len(s) /\ ~Blank(s[j])
    BY <1>2
  <2>2. j \in back /\ back \in SUBSET Nat
    <3>1. \A m \in j .. j : m = j
      BY <2>1
    <3>2. j \in 1 .. j
      BY <2>1
    <3> QED BY <2>1, <3>1, <3>2
  <2>3. PICK i \in back : \A m \in back : i <= m
    <3> HIDE DEF back
    <3> QED BY <2>2, Flat!Least
  <2>4. i \in 1 .. j /\ i \in 1 .. Len(s) /\ ~Blank(s[i]) /\ \A m \in i .. j : ~Blank(s[m])
    <3>1. i \in i .. j
      BY <2>1
    <3> QED BY <2>1, <3>1
  <2>5. i = 1 \/ Blank(s[i - 1])
    <3> SUFFICES ASSUME i # 1, ~Blank(s[i - 1])
                 PROVE  FALSE
      OBVIOUS
    <3>1. i - 1 \in 1 .. j /\ ~(i <= i - 1)
      BY <2>1, <2>4
    <3>2. \A m \in i - 1 .. j : m = i - 1 \/ m \in i .. j
      BY <2>1, <2>4
    <3>3. i - 1 \in back
      BY <2>4, <3>1, <3>2
    <3> QED BY <2>3, <3>1, <3>3
  <2>6. i \in Begins(s)
    BY <1>2, <2>4, <2>5
  <2> DEFINE e == StopOf(s, i)
  <2>7. e \in Stops(s) /\ i <= e /\ e <= j
    BY <1>1, <2>4, WordEnds
  <2>8. e = j
    <3> SUFFICES ASSUME e # j
                 PROVE  FALSE
      OBVIOUS
    <3>1. e \in 1 .. Len(s) /\ (e = Len(s) \/ Blank(s[e + 1]))
      BY <1>2, <2>7
    <3> HIDE DEF e
    <3>2. e + 1 \in i .. j /\ e # Len(s)
      BY <2>1, <2>4, <2>7, <3>1
    <3> QED BY <2>4, <3>1, <3>2
  <2> QED BY <2>6, <2>8
<1> QED BY <1>3, <1>4

\* Words are slices of the text, one after the other.
Slices(s, parts, first, last) ==
  /\ parts \in Seq(Text)
  /\ \A k \in 1 .. Len(parts) :
       /\ parts[k] = SubSeq(s, first[k], last[k])
       /\ first[k] \in 1 .. Len(s) /\ last[k] \in 1 .. Len(s) /\ first[k] <= last[k]
  /\ \A j, k \in 1 .. Len(parts) : j < k => last[j] < first[k]

LEMMA WordsAreSlices ==
  ASSUME NEW s \in Text
  PROVE  /\ \E first, last : Slices(s, Words(s), first, last)
         /\ ListsUp(First(s), Begins(s)) /\ Len(Words(s)) = Len(First(s))
         /\ \A k \in 1 .. Len(Words(s)) :
              Words(s)[k] = SubSeq(s, First(s)[k], StopOf(s, First(s)[k]))
<1> DEFINE first == First(s)
           last  == Ascending(Stops(s))
           n == Len(first)
           ends == [k \in 1 .. n |-> StopOf(s, first[k])]
<1>1. Len(s) \in Nat /\ DOMAIN s = 1 .. Len(s)
  BY LenProperties DEF Text
<1>2. /\ Begins(s) \in SUBSET (1 .. Len(s)) /\ Stops(s) \in SUBSET (1 .. Len(s))
      /\ \A i \in Begins(s) : ~Blank(s[i])
  BY <1>1 DEF Begins, Stops
<1>3. IsFiniteSet(Begins(s)) /\ IsFiniteSet(Stops(s))
  <2>1. IsFiniteSet(1 .. Len(s))
    BY <1>1, FS_Interval
  <2> QED BY <1>2, <2>1, FS_Subset
<1>4. ListsUp(first, Begins(s)) /\ ListsUp(last, Stops(s))
  BY <1>2, <1>3, AscendingIsListing DEF First
<1>5. Words(s) = [k \in DOMAIN first |-> SubSeq(s, first[k], last[k])]
  BY DEF Words, Begins, Stops, First
<1> HIDE DEF first, last
<1>6. /\ n \in Nat /\ DOMAIN first = 1 .. n
      /\ \A k \in 1 .. n : first[k] \in Begins(s) /\ first[k] \in 1 .. Len(s)
                           /\ ~Blank(s[first[k]])
      /\ \A i \in Begins(s) : \E k \in 1 .. n : first[k] = i
      /\ \A j, k \in 1 .. n : j < k => first[j] < first[k]
  BY <1>2, <1>4, LenProperties, ElementOfSeq DEF ListsUp
<1> HIDE DEF n
<1>7. \A k \in 1 .. n : /\ StopOf(s, first[k]) \in Stops(s)
                        /\ first[k] <= StopOf(s, first[k])
                        /\ StopOf(s, first[k]) \in 1 .. Len(s)
  BY <1>1, <1>2, <1>6, WordEnds
<1>8. \A j, k \in 1 .. n : j < k => StopOf(s, first[j]) < first[k]
  BY <1>6, WordsApart
<1>9. ListsUp(ends, Stops(s))
  <2>1. \A k \in 1 .. n : ends[k] = StopOf(s, first[k])
    OBVIOUS
  <2>2. ends \in Seq(Stops(s)) /\ Len(ends) = n
    <3>1. ends \in Seq(Stops(s))
      BY <1>6, <1>7, IsASeq
    <3>2. DOMAIN ends = 1 .. n
      OBVIOUS
    <3> HIDE DEF ends
    <3> QED BY <1>6, <3>1, <3>2, LenProperties
  <2> HIDE DEF ends
  <2>3. \A i \in Stops(s) : \E k \in 1 .. n : ends[k] = i
    BY <1>6, <2>1, WordsApart
  <2>4. \A j, k \in 1 .. n : j < k => ends[j] < ends[k]
    <3> SUFFICES ASSUME NEW j \in 1 .. n, NEW k \in 1 .. n, j < k
                 PROVE  ends[j] < ends[k]
      OBVIOUS
    <3>1. ends[j] < first[k] /\ first[k] <= ends[k]
      BY <1>7, <1>8, <2>1
    <3>2. ends[j] \in Int /\ ends[k] \in Int /\ first[k] \in Int
      BY <1>6, <1>7, <2>1
    <3> QED BY <3>1, <3>2
  <2> QED BY <2>2, <2>3, <2>4 DEF ListsUp
<1>10. ends = last
  <2>1. Stops(s) \in SUBSET Int
    BY <1>2
  <2> HIDE DEF ends
  <2> QED BY <1>4, <1>9, <2>1, ListedOnce
<1>11. \A k \in 1 .. n : last[k] = StopOf(s, first[k])
  BY <1>10
<1> HIDE DEF ends
<1>12. \A k \in 1 .. n : SubSeq(s, first[k], last[k]) \in Text
  <2> TAKE k \in 1 .. n
  <2>1. first[k] \in 1 .. Len(s) + 1 /\ last[k] \in first[k] - 1 .. Len(s)
    BY <1>1, <1>6, <1>7, <1>11
  <2> QED BY <2>1, SliceSize
<1>13. Words(s) \in Seq(Text) /\ Len(Words(s)) = n
  <2>1. Words(s) = [k \in 1 .. n |-> SubSeq(s, first[k], last[k])]
    BY <1>5, <1>6
  <2>2. Words(s) \in Seq(Text)
    BY <1>6, <1>12, <2>1, IsASeq
  <2> QED BY <1>6, <2>1, <2>2, LenProperties
<1>14. \A k \in 1 .. n : Words(s)[k] = SubSeq(s, first[k], last[k])
  BY <1>5, <1>6
<1>15. Slices(s, Words(s), first, last)
  BY <1>6, <1>7, <1>8, <1>11, <1>13, <1>14 DEF Slices
<1>16. \A k \in 1 .. n : Words(s)[k] = SubSeq(s, first[k], StopOf(s, first[k]))
  BY <1>11, <1>14
<1> QED BY <1>4, <1>13, <1>15, <1>16 DEF n, first

\* The words of a text have no more bytes than the text.
LEMMA WordsFit ==
  ASSUME NEW s \in Text
  PROVE  /\ Words(s) \in Seq(Text)
         /\ \A k \in 0 .. Len(Words(s)) : SubSeq(Words(s), 1, k) \in Seq(Text)
         /\ \A k \in 1 .. Len(Words(s)) :
              Total(SubSeq(Words(s), 1, k))
                = Total(SubSeq(Words(s), 1, k - 1)) + Size(Words(s)[k])
         /\ Total(Words(s)) <= Size(s)
<1>1. PICK first, last : Slices(s, Words(s), first, last)
  BY WordsAreSlices
<1> DEFINE words == Words(s)
           n == Len(words)
           front(k) == SubSeq(words, 1, k)
           ended(k) == IF k = 0 THEN 0 ELSE last[k]
           Good == {k \in 0 .. n : Total(front(k)) <= Upto(s, ended(k))}
<1>2. words \in Seq(Text) /\ n \in Nat /\ Len(s) \in Nat
  BY <1>1, LenProperties DEF Slices, Text
<1>3. \A k \in 1 .. n : /\ words[k] = SubSeq(s, first[k], last[k])
                        /\ first[k] \in 1 .. Len(s) /\ last[k] \in 1 .. Len(s)
                        /\ first[k] <= last[k]
  BY <1>1 DEF Slices
<1>4. \A j, k \in 1 .. n : j < k => last[j] < first[k]
  BY <1>1 DEF Slices
<1> HIDE DEF words, n
<1>5. \A k \in 0 .. n : front(k) \in Seq(Text)
  <2> TAKE k \in 0 .. n
  <2> QED BY <1>2, SubSeqProperties DEF n
<1>6. \A k \in 1 .. n : k - 1 \in 0 .. n /\ Total(front(k)) = Total(front(k - 1)) + Size(words[k])
  <2> TAKE k \in 1 .. n
  <2>1. k - 1 \in 0 .. n
    BY <1>2
  <2>2. front(k) = Append(front(k - 1), words[k])
    BY <1>2 DEF n
  <2>3. words[k] \in Text
    BY <1>2, ElementOfSeq DEF n
  <2> HIDE DEF front
  <2> QED BY <1>5, <2>1, <2>2, <2>3, TotalAppend
<1>7. 0 \in Good
  <2>1. front(0) = <<>>
    BY <1>2
  <2>2. ended(0) = 0 /\ Upto(s, 0) = 0 /\ 0 \in 0 .. n
    BY <1>2, UptoGrows
  <2>3. Total(<<>>) <= Upto(s, 0)
    BY <2>2, TotalEmpty
  <2> HIDE DEF front, ended
  <2> QED BY <2>1, <2>2, <2>3
<1>8. ASSUME NEW k \in 0 + 1 .. n, k - 1 \in Good
      PROVE  k \in Good
  <2>1. k \in 1 .. n /\ k \in 0 .. n /\ k - 1 \in 0 .. n /\ k # 0
    BY <1>2
  <2>2. ended(k - 1) \in 0 .. Len(s) /\ ended(k - 1) <= first[k] - 1
    <3>1. CASE k = 1
      BY <1>2, <1>3, <2>1, <3>1
    <3>2. CASE k # 1
      <4>1. k - 1 \in 1 .. n /\ k - 1 < k /\ k - 1 # 0
        BY <1>2, <2>1, <3>2
      <4>2. last[k - 1] < first[k] /\ last[k - 1] \in 1 .. Len(s) /\ first[k] \in 1 .. Len(s)
        BY <1>3, <1>4, <2>1, <4>1
      <4> QED BY <1>2, <4>1, <4>2
    <3> QED BY <3>1, <3>2
  <2>3. ended(k) = last[k]
    BY <2>1
  <2> DEFINE a == first[k]
             b == last[k]
             c == ended(k - 1)
  <2>4. a \in 1 .. Len(s) /\ b \in 1 .. Len(s) /\ a <= b /\ words[k] = SubSeq(s, a, b)
    BY <1>3, <2>1
  <2>5. c \in 0 .. Len(s) /\ c <= a - 1 /\ Total(front(k - 1)) <= Upto(s, c)
    BY <1>8, <2>2
  <2> HIDE DEF a, b, c, ended, front
  <2>6. a \in 1 .. Len(s) + 1 /\ b \in a - 1 .. Len(s)
    BY <1>2, <2>4
  <2>7. Size(words[k]) = Upto(s, b) - Upto(s, a - 1)
    BY <2>4, <2>6, SliceSize
  <2>8. Upto(s, c) <= Upto(s, a - 1)
    <3>1. c + 1 \in 1 .. Len(s) + 1 /\ a - 1 \in (c + 1) - 1 .. Len(s) /\ (c + 1) - 1 = c
      BY <1>2, <2>4, <2>5
    <3> QED BY <3>1, SliceSize
  <2>9. Upto(s, a - 1) \in Nat /\ Upto(s, b) \in Nat /\ Upto(s, c) \in Nat
    <3>1. a - 1 \in 0 .. Len(s) /\ b \in 0 .. Len(s)
      BY <1>2, <2>4
    <3> QED BY <2>5, <3>1, UptoGrows
  <2>10. Total(front(k - 1)) \in Nat
    BY <1>5, <2>1, BytewiseType
  <2>11. Total(front(k)) = Total(front(k - 1)) + Size(words[k])
    BY <1>6, <2>1
  <2>12. Total(front(k)) <= Upto(s, b)
    BY <2>5, <2>7, <2>8, <2>9, <2>10, <2>11
  <2> QED BY <2>1, <2>3, <2>12 DEF b, Good
<1>9. Total(words) <= Size(s)
  <2>1. n \in Good
    <3> HIDE DEF Good
    <3>1. n \in 0 .. n /\ 0 \in Nat
      BY <1>2
    <3>2. \A k \in 0 + 1 .. n : k - 1 \in Good => k \in Good
      BY <1>8
    <3> QED BY <1>2, <1>7, <3>1, <3>2, Flat!Climb
  <2>2. front(n) = words
    BY <1>2, SubSeqFull DEF n
  <2>3. ended(n) \in 0 .. Len(s)
    <3>1. n # 0 => n \in 1 .. n
      BY <1>2
    <3> QED BY <1>2, <1>3, <3>1
  <2>4. Upto(s, ended(n)) <= Size(s)
    <3> DEFINE e == ended(n)
    <3>1. e + 1 \in 1 .. Len(s) + 1 /\ Len(s) \in (e + 1) - 1 .. Len(s) /\ (e + 1) - 1 = e
      BY <1>2, <2>3
    <3> HIDE DEF e
    <3>2. Upto(s, e) <= Upto(s, Len(s)) /\ Upto(s, Len(s)) = Size(s)
      BY <3>1, SliceSize, UptoGrows
    <3> QED BY <3>2 DEF e
  <2>5. Total(words) <= Upto(s, ended(n))
    BY <2>1, <2>2
  <2>6. Total(words) \in Nat /\ Upto(s, ended(n)) \in Nat /\ Size(s) \in Nat
    BY <1>2, <2>3, BytewiseType, UptoGrows, UTF8Type
  <2> QED BY <2>4, <2>5, <2>6
<1> QED BY <1>2, <1>5, <1>6, <1>9 DEF words, n

\* What is left of a trimmed word is part of it.
LEMMA TrimmedFits ==
  ASSUME NEW word \in Text
  PROVE  Trimmed(word) \in Text /\ Size(Trimmed(word)) <= Size(word)
<1> DEFINE kept == {i \in DOMAIN word : Kept(word[i])}
           first == CHOOSE i \in kept : \A j \in kept : i <= j
           last  == CHOOSE i \in kept : \A j \in kept : i >= j
<1>1. Trimmed(word) = IF kept = {} THEN <<>> ELSE SubSeq(word, first, last)
  BY DEF Trimmed
<1>2. Len(word) \in Nat /\ DOMAIN word = 1 .. Len(word)
  BY LenProperties DEF Text
<1>3. kept \in SUBSET (1 .. Len(word))
  BY <1>2
<1>4. Size(word) \in Nat
  BY UTF8Type
<1> HIDE DEF kept
<1>5. CASE kept = {}
  BY <1>1, <1>4, <1>5, SizeEmpty
<1>6. CASE kept # {}
  <2>1. kept \in SUBSET Nat /\ kept \in SUBSET (0 .. Len(word))
    BY <1>2, <1>3
  <2>2. first \in kept /\ \A j \in kept : first <= j
    <3>1. \E i \in kept : \A j \in kept : i <= j
      BY <1>6, <2>1, Flat!Least
    <3> QED BY <3>1
  <2>3. last \in kept /\ \A j \in kept : last >= j
    <3>1. \E i \in kept : \A j \in kept : i >= j
      BY <1>2, <1>6, <2>1, Flat!Greatest
    <3> QED BY <3>1
  <2> HIDE DEF first, last
  <2>4. first \in 1 .. Len(word) + 1 /\ last \in first - 1 .. Len(word)
        /\ first - 1 \in 0 .. Len(word) /\ last \in 0 .. Len(word)
    BY <1>2, <1>3, <2>2, <2>3
  <2>5. SubSeq(word, first, last) \in Text
        /\ Size(SubSeq(word, first, last)) = Upto(word, last) - Upto(word, first - 1)
    BY <2>4, SliceSize
  <2>6. Upto(word, last) <= Size(word)
    <3>1. last + 1 \in 1 .. Len(word) + 1 /\ Len(word) \in (last + 1) - 1 .. Len(word)
          /\ (last + 1) - 1 = last
      BY <1>2, <2>4
    <3> QED BY <3>1, SliceSize, UptoGrows
  <2>7. Upto(word, last) \in Nat /\ Upto(word, first - 1) \in Nat
    BY <2>4, UptoGrows
  <2>8. Size(SubSeq(word, first, last)) <= Size(word)
    BY <1>4, <2>5, <2>6, <2>7
  <2> QED BY <1>1, <1>6, <2>5, <2>8
<1> QED BY <1>5, <1>6

\* A text that is not empty has bytes.
LEMMA BytesNotEmpty ==
  ASSUME NEW s \in Text, s # <<>>
  PROVE  UTF8(s) # <<>>
<1>1. Len(s) \in Nat /\ Len(s) # 0
  BY LenProperties, EmptySeq DEF Text
<1>2. Len(s) \in 1 .. Len(s) /\ Len(s) - 1 \in 0 .. Len(s)
  BY <1>1
<1>3. s[Len(s)] \in Nat
  BY <1>2, ElementOfSeq DEF Text
<1>4. Size(s) = Upto(s, Len(s) - 1) + Width(s[Len(s)]) /\ Upto(s, Len(s) - 1) \in Nat
  BY <1>2, UptoGrows
<1>5. Width(s[Len(s)]) \in 1 .. 2
  BY <1>3, EncodeType
<1>6. Size(s) # 0
  BY <1>4, <1>5
<1> QED BY <1>6 DEF Size

(***************************************************************************)
(* The parser.  What has been taken so far and what is still to be split   *)
(* into tokens has no more bytes than what has been read.                  *)
(***************************************************************************)

Filled(parts) == \A k \in 1 .. Len(parts) : parts[k] # <<>>

TypeInv ==
  /\ query \in Text /\ next \in Nat \ {0}
  /\ in_quote \in BOOLEAN /\ outside \in Text /\ phrase \in Text
  /\ literal_count \in Nat
  /\ quoted \in Seq(Text) /\ identifiers \in Seq(Text) /\ terms \in Seq(Text)

CountInv ==
  /\ literal_count = Len(quoted) + Len(identifiers) + Len(terms)
  /\ literal_count <= MAX_QUERY_LITERALS
  /\ Filled(quoted) /\ Filled(identifiers) /\ Filled(terms)

ReadingInv ==
  pc \in {"bytes", "chars"} =>
    /\ next <= Len(query) + 1 /\ identifiers = <<>> /\ terms = <<>>
    /\ Size(outside) + Size(phrase) + Total(quoted) <= Upto(query, next - 1)

SplittingInv ==
  pc = "tokens" =>
    /\ next <= Len(Words(outside)) + 1
    /\ Size(outside) + Total(quoted) <= Size(query)
    /\ Total(identifiers) + Total(terms) <= Total(SubSeq(Words(outside), 1, next - 1))

PlanInv ==
  /\ TypeInv /\ CountInv /\ ReadingInv /\ SplittingInv
  /\ pc \in {"chars", "tokens"} => Size(query) <= MAX_QUERY_BYTES
  /\ pc # "done" => outcome = "none"
  /\ CoreAdmitsThePlan

LEMMA PlanInit == Init => PlanInv
<1> SUFFICES ASSUME Init
             PROVE  PlanInv
  OBVIOUS
<1>1. query \in Text /\ <<>> \in Text /\ <<>> \in Seq(Text) /\ Len(<<>>) = 0
  BY QueriesAssumption, SizeEmpty, TotalEmpty DEF Init, Text
<1>2. TypeInv
  <2>1. next \in Nat \ {0} /\ literal_count \in Nat
    BY DEF Init
  <2>2. in_quote \in BOOLEAN
    BY Zenon DEF Init
  <2> QED BY <1>1, <2>1, <2>2 DEF Init, TypeInv
<1>3. CountInv
  BY <1>1, QueryLimitsAssumption DEF Init, CountInv, Filled
<1>4. ReadingInv
  <2>1. Upto(query, 0) = 0 /\ Len(query) \in Nat
    BY <1>1, UptoGrows, LenProperties DEF Text
  <2> QED BY <2>1, SizeEmpty, TotalEmpty DEF Init, ReadingInv
<1> QED BY <1>2, <1>3, <1>4 DEF Init, PlanInv, SplittingInv, CoreAdmitsThePlan

\* An end without a plan.
LEMMA StopKeeps ==
  ASSUME PlanInv, NEW result, result # "parsed", Stop(result)
  PROVE  PlanInv'
<1>1. /\ pc' = "done" /\ outcome' = result /\ query' = query /\ next' = next
      /\ in_quote' = in_quote /\ outside' = outside /\ phrase' = phrase
      /\ literal_count' = literal_count /\ quoted' = quoted
      /\ identifiers' = identifiers /\ terms' = terms
  BY DEF Stop, text, literals
<1>2. TypeInv'
  BY <1>1 DEF PlanInv, TypeInv
<1>3. CountInv'
  BY <1>1 DEF PlanInv, CountInv, Filled
<1> QED BY <1>1, <1>2, <1>3 DEF PlanInv, ReadingInv, SplittingInv, CoreAdmitsThePlan

\* A literal more.
LEMMA FilledMore ==
  ASSUME NEW parts \in Seq(Text), Filled(parts), NEW s \in Text, s # <<>>
  PROVE  Filled(Append(parts, s)) /\ Len(Append(parts, s)) = Len(parts) + 1
<1> DEFINE more == Append(parts, s)
           n == Len(parts)
<1>1. /\ n \in Nat /\ Len(more) = n + 1 /\ more[n + 1] = s
      /\ \A k \in 1 .. n : more[k] = parts[k]
  OBVIOUS
<1>2. \A k \in 1 .. n + 1 : k \in 1 .. n \/ k = n + 1
  BY <1>1
<1>3. \A k \in 1 .. n : parts[k] # <<>>
  BY DEF Filled
<1> HIDE DEF more
<1>4. \A k \in 1 .. n + 1 : more[k] # <<>>
  BY <1>1, <1>2, <1>3
<1> QED BY <1>1, <1>4 DEF more, Filled

\* The next character of the text.
LEMMA CharacterRead ==
  ASSUME PlanInv, AtCharacter
  PROVE  /\ Character \in Nat /\ Width(Character) \in 1 .. 2
         /\ Len(query) \in Nat /\ next \in 1 .. Len(query)
         /\ Upto(query, next - 1) \in Nat
         /\ Upto(query, (next + 1) - 1) = Upto(query, next - 1) + Width(Character)
         /\ Size(outside) \in Nat /\ Size(phrase) \in Nat /\ Total(quoted) \in Nat
         /\ pc = "chars" /\ outcome = "none" /\ outcome # "parsed"
         /\ Size(query) <= MAX_QUERY_BYTES
<1>1. query \in Text /\ next \in Nat \ {0}
  BY DEF PlanInv, TypeInv
<1>2. Len(query) \in Nat
  BY <1>1, LenProperties DEF Text
<1>3. next \in 1 .. Len(query) /\ next - 1 \in 0 .. Len(query) /\ (next + 1) - 1 = next
  BY <1>1, <1>2 DEF AtCharacter
<1>4. Character \in Nat
  BY <1>1, <1>3, ElementOfSeq DEF Character, Text
<1>5. Upto(query, next) = Upto(query, next - 1) + Width(Character) /\ Upto(query, next - 1) \in Nat
  BY <1>1, <1>3, UptoGrows DEF Character
<1>6. Size(outside) \in Nat /\ Size(phrase) \in Nat /\ Total(quoted) \in Nat
  BY UTF8Type, BytewiseType DEF PlanInv, TypeInv
<1>7. pc = "chars" /\ outcome = "none" /\ Size(query) <= MAX_QUERY_BYTES
  BY DEF PlanInv, AtCharacter
<1> QED BY <1>2, <1>3, <1>4, <1>5, <1>6, <1>7, EncodeType

LEMMA PlanChars ==
  ASSUME PlanInv, OpenQuote \/ EmptyPhrase \/ CloseQuote \/ TakeCharacter
  PROVE  PlanInv'
<1>1. CASE OpenQuote
  <2>1. /\ outside' = Append(outside, 32) /\ next' = next + 1 /\ in_quote' = TRUE
        /\ query' = query /\ pc' = pc /\ phrase' = phrase /\ outcome' = outcome
        /\ literal_count' = literal_count /\ quoted' = quoted
        /\ identifiers' = identifiers /\ terms' = terms /\ AtCharacter
    BY <1>1 DEF OpenQuote, literals
  <2>2. Append(outside, 32) \in Text /\ Size(Append(outside, 32)) = Size(outside) + 1
    <3>1. Width(32) = 1
      BY DEF Width, Encode
    <3> QED BY <3>1, SizeAppend DEF PlanInv, TypeInv
  <2>3. TypeInv'
    BY <2>1, <2>2 DEF PlanInv, TypeInv
  <2>4. CountInv'
    BY <2>1 DEF PlanInv, CountInv, Filled
  <2>5. ReadingInv'
    <3>1. /\ next <= Len(query) + 1 /\ identifiers = <<>> /\ terms = <<>>
          /\ Size(outside) + Size(phrase) + Total(quoted) <= Upto(query, next - 1)
      BY <2>1 DEF PlanInv, ReadingInv, AtCharacter
    <3>2. Size(outside') + Size(phrase) + Total(quoted) <= Upto(query, (next + 1) - 1)
      <4>1. /\ Upto(query, next - 1) \in Nat /\ Width(Character) \in 1 .. 2
            /\ Upto(query, (next + 1) - 1) = Upto(query, next - 1) + Width(Character)
            /\ Size(outside) \in Nat /\ Size(phrase) \in Nat /\ Total(quoted) \in Nat
        BY <2>1, CharacterRead
      <4>2. Size(outside') = Size(outside) + 1
        BY <2>1, <2>2
      <4> QED BY <3>1, <4>1, <4>2
    <3>3. next + 1 <= Len(query) + 1
      BY <2>1, CharacterRead
    <3> QED BY <2>1, <3>1, <3>2, <3>3 DEF ReadingInv
  <2> QED BY <2>1, <2>3, <2>4, <2>5, CharacterRead DEF PlanInv, SplittingInv, CoreAdmitsThePlan
<1>2. CASE EmptyPhrase
  BY <1>2, StopKeeps DEF EmptyPhrase
<1>3. CASE CloseQuote
  <2>1. CASE Stop("query_limit")
    BY <2>1, StopKeeps
  <2>2. CASE ~Stop("query_limit")
    <3>1. /\ ~Full /\ literal_count' = literal_count + 1 /\ phrase # <<>>
          /\ quoted' = Append(quoted, phrase) /\ phrase' = <<>>
          /\ in_quote' = FALSE /\ next' = next + 1 /\ AtCharacter
          /\ query' = query /\ pc' = pc /\ outside' = outside /\ outcome' = outcome
          /\ identifiers' = identifiers /\ terms' = terms
      BY <1>3, <2>2 DEF CloseQuote
    <3>2. /\ Append(quoted, phrase) \in Seq(Text)
          /\ Total(Append(quoted, phrase)) = Total(quoted) + Size(phrase)
      BY TotalAppend DEF PlanInv, TypeInv
    <3>3. TypeInv'
      <4>1. literal_count + 1 \in Nat /\ next + 1 \in Nat \ {0}
        BY DEF PlanInv, TypeInv
      <4> QED BY <3>1, <3>2, <4>1, SizeEmpty DEF PlanInv, TypeInv
    <3>4. CountInv'
      <4>1. Filled(Append(quoted, phrase)) /\ Len(Append(quoted, phrase)) = Len(quoted) + 1
        BY <3>1, FilledMore DEF PlanInv, TypeInv, CountInv
      <4>2. /\ Len(quoted) \in Nat /\ Len(identifiers) \in Nat /\ Len(terms) \in Nat
            /\ literal_count = Len(quoted) + Len(identifiers) + Len(terms)
        BY LenProperties DEF PlanInv, TypeInv, CountInv
      <4>3. literal_count + 1 <= MAX_QUERY_LITERALS
        BY <3>1, <4>2, QueryLimitsAssumption DEF Full
      <4>4. literal_count + 1 = (Len(quoted) + 1) + Len(identifiers) + Len(terms)
        BY <4>2
      <4> QED BY <3>1, <4>1, <4>3, <4>4 DEF PlanInv, CountInv, Filled
    <3>5. ReadingInv'
      <4>1. /\ next <= Len(query) + 1 /\ identifiers = <<>> /\ terms = <<>>
            /\ Size(outside) + Size(phrase) + Total(quoted) <= Upto(query, next - 1)
        BY <3>1 DEF PlanInv, ReadingInv, AtCharacter
      <4>2. Size(outside) + 0 + Total(quoted') <= Upto(query, (next + 1) - 1)
        <5>1. /\ Upto(query, next - 1) \in Nat /\ Width(Character) \in 1 .. 2
              /\ Upto(query, (next + 1) - 1) = Upto(query, next - 1) + Width(Character)
              /\ Size(outside) \in Nat /\ Size(phrase) \in Nat /\ Total(quoted) \in Nat
          BY <3>1, CharacterRead
        <5>2. Total(quoted') = Total(quoted) + Size(phrase)
          BY <3>1, <3>2
        <5> QED BY <4>1, <5>1, <5>2
      <4>3. next + 1 <= Len(query) + 1
        BY <3>1, CharacterRead
      <4> QED BY <3>1, <4>1, <4>2, <4>3, SizeEmpty DEF ReadingInv
    <3> QED BY <3>1, <3>3, <3>4, <3>5, CharacterRead DEF PlanInv, SplittingInv, CoreAdmitsThePlan
  <2> QED BY <2>1, <2>2
<1>4. CASE TakeCharacter
  <2>1. /\ \/ outside' = outside /\ phrase' = Append(phrase, Character)
           \/ outside' = Append(outside, Character) /\ phrase' = phrase
        /\ next' = next + 1 /\ in_quote' = in_quote /\ AtCharacter
        /\ query' = query /\ pc' = pc /\ outcome' = outcome
        /\ literal_count' = literal_count /\ quoted' = quoted
        /\ identifiers' = identifiers /\ terms' = terms
    BY <1>4 DEF TakeCharacter, literals
  <2>2. /\ outside' \in Text /\ phrase' \in Text
        /\ Size(outside') + Size(phrase') = Size(outside) + Size(phrase) + Width(Character)
    <3>1. outside \in Text /\ phrase \in Text /\ Character \in Nat /\ Width(Character) \in Nat
      BY <2>1, CharacterRead DEF PlanInv, TypeInv
    <3>2. /\ Append(phrase, Character) \in Text
          /\ Size(Append(phrase, Character)) = Size(phrase) + Width(Character)
          /\ Append(outside, Character) \in Text
          /\ Size(Append(outside, Character)) = Size(outside) + Width(Character)
      BY <3>1, SizeAppend
    <3>3. Size(outside) \in Nat /\ Size(phrase) \in Nat
      BY <3>1, UTF8Type
    <3>4. CASE outside' = outside /\ phrase' = Append(phrase, Character)
      BY <3>1, <3>2, <3>3, <3>4
    <3>5. CASE outside' = Append(outside, Character) /\ phrase' = phrase
      BY <3>1, <3>2, <3>3, <3>5
    <3> QED BY <2>1, <3>4, <3>5
  <2>3. TypeInv'
    BY <2>1, <2>2 DEF PlanInv, TypeInv
  <2>4. CountInv'
    BY <2>1 DEF PlanInv, CountInv, Filled
  <2>5. ReadingInv'
    <3>1. /\ next <= Len(query) + 1 /\ identifiers = <<>> /\ terms = <<>>
          /\ Size(outside) + Size(phrase) + Total(quoted) <= Upto(query, next - 1)
      BY <2>1 DEF PlanInv, ReadingInv, AtCharacter
    <3>2. Size(outside') + Size(phrase') + Total(quoted) <= Upto(query, (next + 1) - 1)
      <4>1. Size(outside') \in Nat /\ Size(phrase') \in Nat
        BY <2>2, UTF8Type
      <4>2. /\ Upto(query, next - 1) \in Nat /\ Width(Character) \in 1 .. 2
            /\ Upto(query, (next + 1) - 1) = Upto(query, next - 1) + Width(Character)
            /\ Size(outside) \in Nat /\ Size(phrase) \in Nat /\ Total(quoted) \in Nat
        BY <2>1, CharacterRead
      <4> QED BY <2>2, <3>1, <4>1, <4>2, SMTT(30)
    <3>3. next + 1 <= Len(query) + 1
      BY <2>1, CharacterRead
    <3> QED BY <2>1, <3>1, <3>2, <3>3 DEF ReadingInv
  <2> QED BY <2>1, <2>3, <2>4, <2>5, CharacterRead DEF PlanInv, SplittingInv, CoreAdmitsThePlan
<1> QED BY <1>1, <1>2, <1>3, <1>4

LEMMA PlanTurns ==
  ASSUME PlanInv, CheckBytes \/ CharactersEnd
  PROVE  PlanInv'
<1>0. outcome # "parsed" /\ query \in Text /\ Len(query) \in Nat
  BY LenProperties DEF PlanInv, TypeInv, CheckBytes, CharactersEnd, Text
<1>1. CASE CheckBytes
  <2>1. CASE Len(UTF8(query)) > MAX_QUERY_BYTES
    BY <1>1, <2>1, StopKeeps DEF CheckBytes
  <2>2. CASE ~(Len(UTF8(query)) > MAX_QUERY_BYTES)
    <3>1. /\ pc = "bytes" /\ pc' = "chars" /\ query' = query /\ next' = next
          /\ in_quote' = in_quote /\ outside' = outside /\ phrase' = phrase
          /\ literal_count' = literal_count /\ quoted' = quoted
          /\ identifiers' = identifiers /\ terms' = terms /\ outcome' = outcome
      BY <1>1, <2>2 DEF CheckBytes, text, literals
    <3>2. Size(query) <= MAX_QUERY_BYTES
      BY <1>0, <2>2, UTF8Type, QueryLimitsAssumption DEF Size
    <3>3. TypeInv'
      BY <3>1 DEF PlanInv, TypeInv
    <3>4. CountInv'
      BY <3>1 DEF PlanInv, CountInv, Filled
    <3>5. ReadingInv'
      BY <3>1 DEF PlanInv, ReadingInv
    <3> QED BY <1>0, <3>1, <3>2, <3>3, <3>4, <3>5 DEF PlanInv, SplittingInv, CoreAdmitsThePlan
  <2> QED BY <2>1, <2>2
<1>2. CASE CharactersEnd
  <2>1. CASE in_quote
    BY <1>2, <2>1, StopKeeps DEF CharactersEnd
  <2>2. CASE ~in_quote
    <3>1. /\ pc = "chars" /\ next > Len(query) /\ pc' = "tokens" /\ next' = 1 /\ query' = query
          /\ in_quote' = in_quote /\ outside' = outside /\ phrase' = phrase
          /\ literal_count' = literal_count /\ quoted' = quoted
          /\ identifiers' = identifiers /\ terms' = terms /\ outcome' = outcome
      BY <1>2, <2>2 DEF CharactersEnd, text, literals
    <3>2. TypeInv'
      BY <3>1 DEF PlanInv, TypeInv
    <3>3. CountInv'
      BY <3>1 DEF PlanInv, CountInv, Filled
    <3>4. /\ next <= Len(query) + 1 /\ identifiers = <<>> /\ terms = <<>>
          /\ Size(outside) + Size(phrase) + Total(quoted) <= Upto(query, next - 1)
      BY <3>1 DEF PlanInv, ReadingInv
    <3>5. /\ next - 1 = Len(query) /\ outside \in Text
          /\ Size(outside) \in Nat /\ Size(phrase) \in Nat /\ Total(quoted) \in Nat
      <4>1. next \in Nat
        BY DEF PlanInv, TypeInv
      <4>2. next - 1 = Len(query)
        BY <1>0, <3>1, <3>4, <4>1
      <4> QED BY <4>2, UTF8Type, BytewiseType DEF PlanInv, TypeInv
    <3>6. Size(outside) + Total(quoted) <= Size(query)
      <4>1. Upto(query, Len(query)) = Size(query) /\ Size(query) \in Nat
        BY <1>0, UptoGrows, UTF8Type
      <4> QED BY <3>4, <3>5, <4>1
    <3>7. SplittingInv'
      <4>1. SubSeq(Words(outside), 1, 0) = <<>> /\ Len(Words(outside)) \in Nat
        BY <3>5, WordsFit, LenProperties
      <4>2. 1 <= Len(Words(outside)) + 1 /\ 1 - 1 = 0 /\ 0 + 0 <= 0
        BY <4>1
      <4> QED BY <3>1, <3>4, <3>6, <4>1, <4>2, TotalEmpty DEF SplittingInv
    <3> QED BY <1>0, <3>1, <3>2, <3>3, <3>7 DEF PlanInv, ReadingInv, CoreAdmitsThePlan
  <2> QED BY <2>1, <2>2
<1> QED BY <1>1, <1>2

\* The next token is trimmed from the next word.
LEMMA TokenRead ==
  ASSUME PlanInv, AtToken
  PROVE  /\ Words(outside) \in Seq(Text) /\ Len(Words(outside)) \in Nat
         /\ next \in 1 .. Len(Words(outside))
         /\ Literal \in Text /\ Size(Literal) \in Nat
         /\ Total(SubSeq(Words(outside), 1, next - 1)) \in Nat
         /\ Total(SubSeq(Words(outside), 1, next - 1)) + Size(Literal)
              <= Total(SubSeq(Words(outside), 1, (next + 1) - 1))
         /\ pc = "tokens" /\ outcome = "none" /\ outcome # "parsed"
         /\ Size(query) <= MAX_QUERY_BYTES
<1>1. outside \in Text /\ next \in Nat \ {0}
  BY DEF PlanInv, TypeInv
<1>2. Words(outside) \in Seq(Text) /\ Len(Words(outside)) \in Nat
  BY <1>1, WordsFit, LenProperties
<1>3. /\ next \in 1 .. Len(Words(outside)) /\ next - 1 \in 0 .. Len(Words(outside))
      /\ (next + 1) - 1 = next
  BY <1>1, <1>2 DEF AtToken
<1>4. Words(outside)[next] \in Text
  BY <1>2, <1>3, ElementOfSeq
<1>5. Literal \in Text /\ Size(Literal) <= Size(Words(outside)[next])
  BY <1>4, TrimmedFits DEF Literal
<1>6. Size(Literal) \in Nat /\ Size(Words(outside)[next]) \in Nat
  BY <1>4, <1>5, UTF8Type
<1>7. Total(SubSeq(Words(outside), 1, next - 1)) \in Nat
  BY <1>1, <1>3, WordsFit, BytewiseType
<1>8. Total(SubSeq(Words(outside), 1, next))
        = Total(SubSeq(Words(outside), 1, next - 1)) + Size(Words(outside)[next])
  BY <1>1, <1>3, WordsFit
<1>9. pc = "tokens" /\ outcome = "none" /\ Size(query) <= MAX_QUERY_BYTES
  BY DEF PlanInv, AtToken
<1> QED BY <1>2, <1>3, <1>5, <1>6, <1>7, <1>8, <1>9

LEMMA PlanTokens ==
  ASSUME PlanInv, SkipToken \/ TakeToken
  PROVE  PlanInv'
<1> DEFINE read(n) == Total(SubSeq(Words(outside), 1, n - 1))
<1>1. CASE SkipToken
  <2>1. /\ AtToken /\ query' = query /\ pc' = pc /\ next' = next + 1
        /\ in_quote' = in_quote /\ outside' = outside /\ phrase' = phrase
        /\ literal_count' = literal_count /\ quoted' = quoted
        /\ identifiers' = identifiers /\ terms' = terms /\ outcome' = outcome
    BY <1>1 DEF SkipToken, text, literals
  <2>2. TypeInv'
    BY <2>1 DEF PlanInv, TypeInv
  <2>3. CountInv'
    BY <2>1 DEF PlanInv, CountInv, Filled
  <2>4. SplittingInv'
    <3>1. /\ Size(outside) + Total(quoted) <= Size(query)
          /\ Total(identifiers) + Total(terms) <= read(next)
      BY <2>1, TokenRead DEF PlanInv, SplittingInv
    <3>2. read(next) \in Nat /\ Size(Literal) \in Nat /\ read(next) + Size(Literal) <= read(next + 1)
      BY <2>1, TokenRead
    <3>3. read(next + 1) \in Int
      <4>1. (next + 1) - 1 \in 0 .. Len(Words(outside))
        BY <2>1, TokenRead
      <4>2. SubSeq(Words(outside), 1, (next + 1) - 1) \in Seq(Text)
        BY <4>1, WordsFit DEF PlanInv, TypeInv
      <4> DEFINE parts == SubSeq(Words(outside), 1, (next + 1) - 1)
      <4>3. Total(parts) \in Nat
        <5> HIDE DEF parts
        <5>4. parts \in Seq(Text)
          BY <4>2 DEF parts
        <5> QED BY <5>4, BytewiseType
      <4> QED BY <4>3
    <3>4. Total(identifiers) \in Nat /\ Total(terms) \in Nat
      BY BytewiseType DEF PlanInv, TypeInv
    <3> HIDE DEF read
    <3>5. Total(identifiers) + Total(terms) <= read(next + 1)
      BY <3>1, <3>2, <3>3, <3>4
    <3>6. next + 1 <= Len(Words(outside)) + 1
      BY <2>1, TokenRead
    <3> QED BY <2>1, <3>1, <3>5, <3>6 DEF SplittingInv, read
  <2> QED BY <2>1, <2>2, <2>3, <2>4, TokenRead DEF PlanInv, ReadingInv, CoreAdmitsThePlan
<1>2. CASE TakeToken
  <2>1. CASE Stop("query_limit")
    BY <2>1, StopKeeps
  <2>2. CASE ~Stop("query_limit")
    <3>1. /\ ~Full /\ Literal # <<>> /\ AtToken /\ query' = query /\ pc' = pc /\ next' = next + 1
          /\ in_quote' = in_quote /\ outside' = outside /\ phrase' = phrase
          /\ literal_count' = literal_count + 1 /\ quoted' = quoted /\ outcome' = outcome
          /\ \/ identifiers' = Append(identifiers, Literal) /\ terms' = terms
             \/ identifiers' = identifiers /\ terms' = Append(terms, Literal)
      BY <1>2, <2>2 DEF TakeToken, text
    <3>2. /\ identifiers \in Seq(Text) /\ terms \in Seq(Text) /\ Literal \in Text
          /\ Filled(identifiers) /\ Filled(terms)
      BY <3>1, TokenRead DEF PlanInv, TypeInv, CountInv
    <3>3. /\ Append(identifiers, Literal) \in Seq(Text) /\ Append(terms, Literal) \in Seq(Text)
          /\ Total(Append(identifiers, Literal)) = Total(identifiers) + Size(Literal)
          /\ Total(Append(terms, Literal)) = Total(terms) + Size(Literal)
      BY <3>2, TotalAppend
    <3>4. /\ Filled(Append(identifiers, Literal)) /\ Filled(Append(terms, Literal))
          /\ Len(Append(identifiers, Literal)) = Len(identifiers) + 1
          /\ Len(Append(terms, Literal)) = Len(terms) + 1
      BY <3>1, <3>2, FilledMore
    <3>5. /\ Len(quoted) \in Nat /\ Len(identifiers) \in Nat /\ Len(terms) \in Nat
          /\ Total(identifiers) \in Nat /\ Total(terms) \in Nat
      BY LenProperties, BytewiseType DEF PlanInv, TypeInv
    <3>6. TypeInv'
      <4>1. literal_count + 1 \in Nat /\ next + 1 \in Nat \ {0}
        BY DEF PlanInv, TypeInv
      <4>2. identifiers' \in Seq(Text) /\ terms' \in Seq(Text)
        BY <3>1, <3>2, <3>3
      <4> QED BY <3>1, <4>1, <4>2 DEF PlanInv, TypeInv
    <3>7. CountInv'
      <4>1. literal_count = Len(quoted) + Len(identifiers) + Len(terms) /\ Filled(quoted)
        BY DEF PlanInv, CountInv
      <4>2. literal_count + 1 <= MAX_QUERY_LITERALS
        BY <3>1, <3>5, <4>1, QueryLimitsAssumption DEF Full
      <4>3. literal_count + 1 = Len(quoted) + Len(identifiers') + Len(terms')
        BY <3>1, <3>4, <3>5, <4>1
      <4>4. Filled(identifiers)' /\ Filled(terms)' /\ Filled(quoted)'
        BY <3>1, <3>2, <3>4, <4>1 DEF Filled
      <4> QED BY <3>1, <4>2, <4>3, <4>4 DEF CountInv
    <3>8. SplittingInv'
      <4>1. /\ Size(outside) + Total(quoted) <= Size(query)
            /\ Total(identifiers) + Total(terms) <= read(next)
        BY <3>1, TokenRead DEF PlanInv, SplittingInv
      <4>2. read(next) \in Nat /\ Size(Literal) \in Nat /\ read(next) + Size(Literal) <= read(next + 1)
        BY <3>1, TokenRead
      <4>3. read(next + 1) \in Int
        <5>1. (next + 1) - 1 \in 0 .. Len(Words(outside))
          BY <3>1, TokenRead
        <5>2. SubSeq(Words(outside), 1, (next + 1) - 1) \in Seq(Text)
          BY <5>1, WordsFit DEF PlanInv, TypeInv
        <5> DEFINE parts == SubSeq(Words(outside), 1, (next + 1) - 1)
        <5>3. Total(parts) \in Nat
          <6> HIDE DEF parts
          <6>4. parts \in Seq(Text)
            BY <5>2 DEF parts
          <6> QED BY <6>4, BytewiseType
        <5> QED BY <5>3
      <4> HIDE DEF read
      <4>4. Total(identifiers') + Total(terms') = Total(identifiers) + Total(terms) + Size(Literal)
        <5>1. CASE identifiers' = Append(identifiers, Literal) /\ terms' = terms
          BY <3>3, <3>5, <4>2, <5>1
        <5>2. CASE identifiers' = identifiers /\ terms' = Append(terms, Literal)
          BY <3>3, <3>5, <4>2, <5>2
        <5> QED BY <3>1, <5>1, <5>2
      <4>5. Total(identifiers') + Total(terms') <= read(next + 1)
        BY <3>5, <4>1, <4>2, <4>3, <4>4
      <4>6. next + 1 <= Len(Words(outside)) + 1
        BY <3>1, TokenRead
      <4> QED BY <3>1, <4>1, <4>5, <4>6 DEF SplittingInv, read
    <3> QED BY <3>1, <3>6, <3>7, <3>8, TokenRead DEF PlanInv, ReadingInv, CoreAdmitsThePlan
  <2> QED BY <2>1, <2>2
<1> QED BY <1>1, <1>2

\* The plan of a query that parses is one the core admits.
LEMMA PlanAdmitted ==
  ASSUME PlanInv, pc = "tokens", next > Len(Words(outside)),
         quoted \o identifiers \o terms # <<>>
  PROVE  /\ ValidLimits(Plan)
         /\ Literals(Plan) # <<>> /\ <<>> \notin ToSet(Literals(Plan))
<1> DEFINE Q == Bytewise(quoted)
           I == Bytewise(identifiers)
           T == Bytewise(terms)
           all == (Q \o I) \o T
<1>1. quoted \in Seq(Text) /\ identifiers \in Seq(Text) /\ terms \in Seq(Text)
  BY DEF PlanInv, TypeInv
<1>2. /\ Len(quoted) \in Nat /\ Len(identifiers) \in Nat /\ Len(terms) \in Nat
      /\ \A k \in 1 .. Len(quoted) : quoted[k] \in Text
      /\ \A k \in 1 .. Len(identifiers) : identifiers[k] \in Text
      /\ \A k \in 1 .. Len(terms) : terms[k] \in Text
  BY <1>1, LenProperties, ElementOfSeq
<1>3. /\ Q \in Seq(Stream) /\ I \in Seq(Stream) /\ T \in Seq(Stream)
      /\ Len(Q) = Len(quoted) /\ Len(I) = Len(identifiers) /\ Len(T) = Len(terms)
      /\ \A k \in 1 .. Len(quoted) : Q[k] = UTF8(quoted[k])
      /\ \A k \in 1 .. Len(identifiers) : I[k] = UTF8(identifiers[k])
      /\ \A k \in 1 .. Len(terms) : T[k] = UTF8(terms[k])
      /\ BytesOf(Q) \in Nat /\ BytesOf(I) \in Nat /\ BytesOf(T) \in Nat
  BY <1>1, BytewiseType DEF Total
<1>4. /\ \A k \in 1 .. Len(Q) : Q[k] # <<>>
      /\ \A k \in 1 .. Len(I) : I[k] # <<>>
      /\ \A k \in 1 .. Len(T) : T[k] # <<>>
  BY <1>2, <1>3, BytesNotEmpty DEF PlanInv, CountInv, Filled
<1>5. Literals(Plan) = all /\ Plan.query = UTF8(query)
  BY DEF Literals, Plan
<1> HIDE DEF Q, I, T
<1>6. /\ Q \o I \in Seq(Stream) /\ Len(Q \o I) = Len(Q) + Len(I)
      /\ \A k \in 1 .. Len(Q) + Len(I) :
           (Q \o I)[k] = IF k <= Len(Q) THEN Q[k] ELSE I[k - Len(Q)]
  <2>1. Q \in Seq(Stream) /\ I \in Seq(Stream)
    BY <1>3
  <2> QED BY <2>1, ConcatProperties
<1>7. /\ all \in Seq(Stream) /\ Len(all) = Len(Q \o I) + Len(T)
      /\ \A k \in 1 .. Len(Q \o I) + Len(T) :
           all[k] = IF k <= Len(Q \o I) THEN (Q \o I)[k] ELSE T[k - Len(Q \o I)]
  <2>1. Q \o I \in Seq(Stream) /\ T \in Seq(Stream)
    BY <1>3, <1>6
  <2> DEFINE P == Q \o I
  <2> HIDE DEF P
  <2>2. /\ P \o T \in Seq(Stream) /\ Len(P \o T) = Len(P) + Len(T)
        /\ \A k \in 1 .. Len(P) + Len(T) :
             (P \o T)[k] = IF k <= Len(P) THEN P[k] ELSE T[k - Len(P)]
    <3>1. P \in Seq(Stream) /\ T \in Seq(Stream)
      BY <2>1 DEF P
    <3> QED BY <3>1, ConcatProperties
  <2> QED BY <2>2 DEF P
<1>8. BytesOf(all) = (BytesOf(Q) + BytesOf(I)) + BytesOf(T)
  BY <1>3, <1>6, BytesJoin
<1> HIDE DEF all
<1>9. Len(all) = literal_count /\ literal_count <= MAX_QUERY_LITERALS
  BY <1>2, <1>3, <1>6, <1>7 DEF PlanInv, CountInv
<1>10. \A k \in 1 .. Len(all) : all[k] # <<>>
  <2>1. \A k \in 1 .. Len(Q) + Len(I) : (Q \o I)[k] # <<>>
    <3> TAKE k \in 1 .. Len(Q) + Len(I)
    <3>1. k <= Len(Q) => k \in 1 .. Len(Q)
      BY <1>2, <1>3
    <3>2. ~(k <= Len(Q)) => k - Len(Q) \in 1 .. Len(I)
      BY <1>2, <1>3
    <3> QED BY <1>4, <1>6, <3>1, <3>2
  <2> TAKE k \in 1 .. Len(all)
  <2>2. k \in 1 .. Len(Q \o I) + Len(T) /\ Len(Q \o I) = Len(Q) + Len(I)
    BY <1>6, <1>7
  <2>3. k <= Len(Q \o I) => k \in 1 .. Len(Q) + Len(I)
    BY <1>2, <1>3, <2>2
  <2>4. ~(k <= Len(Q \o I)) => k - Len(Q \o I) \in 1 .. Len(T)
    BY <1>2, <1>3, <2>2
  <2> QED BY <1>4, <1>7, <2>1, <2>2, <2>3, <2>4
<1>11. <<>> \notin ToSet(all)
  <2>1. DOMAIN all = 1 .. Len(all)
    BY <1>7, LenProperties
  <2> QED BY <1>10, <2>1 DEF ToSet
<1>12. all # <<>>
  <2> SUFFICES ASSUME Len(all) = 0
               PROVE  FALSE
    BY EmptySeq
  <2>1. Len(quoted) = 0 /\ Len(identifiers) = 0 /\ Len(terms) = 0
    <3>1. /\ Len(all) = Len(Q \o I) + Len(T) /\ Len(Q \o I) = Len(Q) + Len(I)
          /\ Len(Q) = Len(quoted) /\ Len(I) = Len(identifiers) /\ Len(T) = Len(terms)
      BY <1>3, <1>6, <1>7
    <3>2. Len(quoted) \in Nat /\ Len(identifiers) \in Nat /\ Len(terms) \in Nat
      BY <1>2
    <3>3. Len(quoted) + Len(identifiers) + Len(terms) = Len(all)
      BY <3>1
    <3>4. Len(quoted) + Len(identifiers) + Len(terms) = 0
      BY <3>3
    <3> QED BY <3>2, <3>4
  <2>2. quoted = <<>> /\ identifiers = <<>> /\ terms = <<>>
    BY <1>1, <2>1, EmptySeq
  <2> QED BY <2>2
<1>13. BytesOf(all) <= Size(query)
  <2>1. /\ Size(outside) + Total(quoted) <= Size(query)
        /\ Total(identifiers) + Total(terms) <= Total(SubSeq(Words(outside), 1, next - 1))
        /\ next <= Len(Words(outside)) + 1
    BY DEF PlanInv, SplittingInv
  <2>2. outside \in Text /\ next \in Nat /\ query \in Text
    BY DEF PlanInv, TypeInv
  <2>3. Words(outside) \in Seq(Text) /\ Len(Words(outside)) \in Nat
    BY <2>2, WordsFit, LenProperties
  <2>4. next - 1 = Len(Words(outside))
    BY <2>1, <2>2, <2>3
  <2>5. SubSeq(Words(outside), 1, next - 1) = Words(outside)
    BY <2>3, <2>4, SubSeqFull
  <2>6. Total(Words(outside)) <= Size(outside) /\ Total(Words(outside)) \in Nat
    BY <2>2, <2>3, WordsFit, BytewiseType
  <2>7. Size(outside) \in Nat /\ Size(query) \in Nat
    BY <2>2, UTF8Type
  <2>8. Total(quoted) = BytesOf(Q) /\ Total(identifiers) = BytesOf(I) /\ Total(terms) = BytesOf(T)
    BY DEF Total, Q, I, T
  <2>9. BytesOf(Q) \in Nat /\ BytesOf(I) \in Nat /\ BytesOf(T) \in Nat
    BY <1>3
  <2>10. /\ Size(outside) + BytesOf(Q) <= Size(query)
         /\ BytesOf(I) + BytesOf(T) <= Total(Words(outside))
    BY <2>1, <2>5, <2>8
  <2> QED BY <1>8, <2>6, <2>7, <2>9, <2>10
<1>14. LiteralBytes(Plan) = BytesOf(all)
  BY <1>5 DEF LiteralBytes, BytesOf
<1>15. Size(query) <= MAX_QUERY_BYTES /\ Size(query) \in Nat
  BY UTF8Type DEF PlanInv, TypeInv
<1>16. ValidLimits(Plan)
  <2>1. BytesOf(all) \in Nat
    BY <1>7, BytesAdd
  <2> QED BY <1>5, <1>9, <1>13, <1>14, <1>15, <2>1, QueryLimitsAssumption DEF ValidLimits, Size
<1> QED BY <1>5, <1>11, <1>12, <1>16

LEMMA PlanEnds ==
  ASSUME PlanInv, TokensEnd
  PROVE  PlanInv'
<1>1. CASE quoted \o identifiers \o terms = <<>>
  BY <1>1, StopKeeps DEF TokensEnd
<1>2. CASE quoted \o identifiers \o terms # <<>>
  <2>1. /\ pc = "tokens" /\ next > Len(Words(outside))
        /\ pc' = "done" /\ outcome' = "parsed" /\ query' = query /\ next' = next
        /\ in_quote' = in_quote /\ outside' = outside /\ phrase' = phrase
        /\ literal_count' = literal_count /\ quoted' = quoted
        /\ identifiers' = identifiers /\ terms' = terms
    BY <1>2 DEF TokensEnd, Stop, text, literals
  <2>2. /\ ValidLimits(Plan)
        /\ Literals(Plan) # <<>> /\ <<>> \notin ToSet(Literals(Plan))
    BY <1>2, <2>1, PlanAdmitted
  <2>3. Plan' = Plan
    BY <2>1 DEF Plan, Bytewise
  <2>4. CoreAdmitsThePlan'
    BY <2>2, <2>3 DEF CoreAdmitsThePlan
  <2>5. TypeInv'
    BY <2>1 DEF PlanInv, TypeInv
  <2>6. CountInv'
    BY <2>1 DEF PlanInv, CountInv, Filled
  <2> QED BY <2>1, <2>4, <2>5, <2>6 DEF PlanInv, ReadingInv, SplittingInv
<1> QED BY <1>1, <1>2

LEMMA PlanSame ==
  ASSUME PlanInv, UNCHANGED vars
  PROVE  PlanInv'
<1>1. /\ query' = query /\ pc' = pc /\ next' = next
      /\ in_quote' = in_quote /\ outside' = outside /\ phrase' = phrase
      /\ literal_count' = literal_count /\ quoted' = quoted
      /\ identifiers' = identifiers /\ terms' = terms /\ outcome' = outcome
  BY DEF vars, text, literals
<1>2. Plan' = Plan
  BY <1>1 DEF Plan, Bytewise
<1>3. CoreAdmitsThePlan'
  BY <1>1, <1>2 DEF PlanInv, CoreAdmitsThePlan
<1> QED BY <1>1, <1>3 DEF PlanInv, TypeInv, CountInv, Filled, ReadingInv, SplittingInv

LEMMA PlanNext == PlanInv /\ [Next]_vars => PlanInv'
<1> SUFFICES ASSUME PlanInv, [Next]_vars
             PROVE  PlanInv'
  OBVIOUS
<1>1. CASE CheckBytes \/ CharactersEnd
  BY <1>1, PlanTurns
<1>2. CASE OpenQuote \/ EmptyPhrase \/ CloseQuote \/ TakeCharacter
  BY <1>2, PlanChars
<1>3. CASE SkipToken \/ TakeToken
  BY <1>3, PlanTokens
<1>4. CASE TokensEnd
  BY <1>4, PlanEnds
<1>5. CASE Done \/ UNCHANGED vars
  BY <1>5, PlanSame DEF Done
<1> QED BY <1>1, <1>2, <1>3, <1>4, <1>5 DEF Next

\* Whatever the query and the limits, a plan that parse_query returns is one
\* that validate_limits of the core admits, asks for something, and has no
\* empty literal.
THEOREM QueryPlansAreAdmitted == Spec => []CoreAdmitsThePlan
<1>1. PlanInv => CoreAdmitsThePlan
  BY DEF PlanInv
<1> QED BY <1>1, PlanInit, PlanNext, PTL DEF Spec

(***************************************************************************)
(* What the parser has read, in terms of what the query says.  A list that *)
(* goes up is split by a mark: the elements below it come first.           *)
(***************************************************************************)

Marked(s, c, n) ==
  /\ c \in 0 .. Len(s)
  /\ \A k \in 1 .. Len(s) : s[k] < n <=> k <= c

\* The characters behind an opening quote, up to the closing one.  The opening
\* quote itself is not covered: it ends a token.
Enclosed(i) ==
  \E p \in 1 .. Len(Quotes) :
    /\ 2 * p - 1 <= Len(Quotes) /\ Quotes[2 * p - 1] < i
    /\ 2 * p - 1 = Len(Quotes) \/ i <= Quotes[2 * p]
Bare  == {i \in 1 .. Len(query) : ~Enclosed(i)}
Where == Ascending(Bare)
Seen(c) == IF c = Quote THEN 32 ELSE c

From == Ascending({p[1] : p \in Longest})
NamedAt(named) == Ascending({k \in DOMAIN Stretches : is_identifier(Stretches[k]) <=> named})

\* Where in the query the k-th word of the loose text begins.
Mark(k) == IF k <= Len(First(outside)) THEN Where[First(outside)[k]] ELSE Len(query) + 1

HeardInv ==
  pc \in {"bytes", "chars"} =>
    /\ Marked(Quotes, 2 * Len(quoted) + (IF in_quote THEN 1 ELSE 0), next)
    /\ \A k \in 1 .. Len(quoted) : quoted[k] = SubSeq(query, Quotes[2 * k - 1] + 1, Quotes[2 * k] - 1)
    /\ phrase = IF in_quote THEN SubSeq(query, Quotes[2 * Len(quoted) + 1] + 1, next - 1) ELSE <<>>

LooseInv ==
  pc \in {"bytes", "chars"} =>
    /\ Marked(Where, Len(outside), next)
    /\ \A j \in 1 .. Len(outside) : outside[j] = Seen(query[Where[j]])

Heard ==
  /\ Len(Quotes) = 2 * Len(quoted) /\ quoted = Phrases
  /\ outside = [j \in 1 .. Len(Where) |-> Seen(query[Where[j]])]

\* The list holds the stretches before the n-th that are named so.
Listed(named, list, n) ==
  /\ Marked(NamedAt(named), Len(list), n)
  /\ \A k \in 1 .. Len(list) : list[k] = Stretches[NamedAt(named)[k]]

TokenInv ==
  pc = "tokens" =>
    /\ Heard
    /\ Marked(From, Len(identifiers) + Len(terms), Mark(next))
    /\ Listed(TRUE, identifiers, Len(identifiers) + Len(terms) + 1)
    /\ Listed(FALSE, terms, Len(identifiers) + Len(terms) + 1)

LEMMA MarkMoves ==
  ASSUME NEW S \in SUBSET Int, NEW s, ListsUp(s, S), NEW c,
         NEW m \in Int, NEW n \in Int, m <= n, Marked(s, c, m)
  PROVE  /\ (\A x \in S : ~(m <= x /\ x < n)) => Marked(s, c, n)
         /\ \A x \in S : m <= x /\ x < n /\ (\A y \in S : m <= y /\ y < n => y = x)
                           => c + 1 <= Len(s) /\ s[c + 1] = x /\ Marked(s, c + 1, n)
<1>1. /\ Len(s) \in Nat /\ c \in Nat /\ c <= Len(s)
      /\ \A k \in 1 .. Len(s) : s[k] \in S /\ s[k] \in Int
      /\ \A k \in 1 .. Len(s) : s[k] < m <=> k <= c
      /\ \A x \in S : \E k \in 1 .. Len(s) : s[k] = x
      /\ \A j, k \in 1 .. Len(s) : j < k => s[j] < s[k]
  <2>1. /\ s \in Seq(S) /\ \A x \in S : \E k \in 1 .. Len(s) : s[k] = x
        /\ \A j, k \in 1 .. Len(s) : j < k => s[j] < s[k]
    BY DEF ListsUp
  <2>2. Len(s) \in Nat /\ \A k \in 1 .. Len(s) : s[k] \in S
    BY <2>1, LenProperties, ElementOfSeq
  <2>3. c \in 0 .. Len(s) /\ \A k \in 1 .. Len(s) : s[k] < m <=> k <= c
    BY DEF Marked
  <2>4. c \in Nat /\ c <= Len(s)
    BY <2>2, <2>3
  <2>5. \A k \in 1 .. Len(s) : s[k] \in Int
    BY <2>2
  <2> QED BY <2>1, <2>2, <2>3, <2>4, <2>5
<1>2. ASSUME \A x \in S : ~(m <= x /\ x < n)
      PROVE  Marked(s, c, n)
  <2>1. \A k \in 1 .. Len(s) : s[k] < n <=> k <= c
    BY <1>1, <1>2
  <2> QED BY <1>1, <2>1 DEF Marked
<1>3. ASSUME NEW x \in S, m <= x, x < n, \A y \in S : m <= y /\ y < n => y = x
      PROVE  c + 1 <= Len(s) /\ s[c + 1] = x /\ Marked(s, c + 1, n)
  <2>1. PICK k \in 1 .. Len(s) : s[k] = x
    BY <1>1
  <2>2. c < k
    BY <1>1, <1>3, <2>1
  <2>3. c + 1 \in 1 .. Len(s)
    BY <1>1, <2>2
  <2>4. s[c + 1] = x
    <3> SUFFICES ASSUME c + 1 # k
                 PROVE  FALSE
      BY <2>1
    <3>1. c + 1 < k /\ ~(c + 1 <= c)
      BY <1>1, <2>2
    <3>2. s[c + 1] < x /\ ~(s[c + 1] < m) /\ s[c + 1] \in S /\ s[c + 1] \in Int
      BY <1>1, <2>1, <2>3, <3>1
    <3>3. s[c + 1] = x
      BY <1>3, <3>2
    <3> QED BY <3>2, <3>3
  <2>5. ASSUME NEW j \in 1 .. Len(s)
        PROVE  s[j] < n <=> j <= c + 1
    <3>1. s[j] \in S /\ s[j] \in Int
      BY <1>1
    <3>2. CASE j <= c
      BY <1>1, <3>1, <3>2
    <3>3. CASE j = c + 1
      BY <1>1, <1>3, <2>4, <3>3
    <3>4. CASE j > c + 1
      <4>1. x < s[j] /\ ~(j <= c)
        BY <1>1, <2>3, <2>4, <3>4
      <4>2. ~(s[j] < n)
        BY <1>1, <1>3, <3>1, <4>1
      <4>3. ~(j <= c + 1)
        BY <1>1, <3>4
      <4> QED BY <4>2, <4>3
    <3>5. j <= c \/ j = c + 1 \/ j > c + 1
      BY <1>1
    <3> QED BY <3>2, <3>3, <3>4, <3>5
  <2>6. c + 1 \in 0 .. Len(s)
    BY <2>3
  <2> QED BY <2>3, <2>4, <2>5, <2>6 DEF Marked
<1> QED BY <1>2, <1>3

\* One number further.
LEMMA MarkSteps ==
  ASSUME NEW S \in SUBSET Int, NEW s, ListsUp(s, S), NEW c, NEW n \in Int, Marked(s, c, n)
  PROVE  /\ n \notin S => Marked(s, c, n + 1)
         /\ n \in S => c + 1 <= Len(s) /\ s[c + 1] = n /\ Marked(s, c + 1, n + 1)
<1>1. /\ \A x \in S : n <= x /\ x < n + 1 => x = n
      /\ n <= n /\ n <= n + 1 /\ n < n + 1 /\ n + 1 \in Int
  OBVIOUS
<1>2. n \notin S => \A x \in S : ~(n <= x /\ x < n + 1)
  BY <1>1
<1> QED BY <1>1, <1>2, MarkMoves

LEMMA MarkEnds ==
  ASSUME NEW S \in SUBSET Int, NEW s, ListsUp(s, S), NEW n \in Int
  PROVE  /\ \A c : Marked(s, c, n) /\ (\A x \in S : x < n) => c = Len(s)
         /\ (\A x \in S : n <= x) => Marked(s, 0, n)
         /\ \A c \in Nat : Marked(s, c, n) => \A x \in S : n <= x => c + 1 <= Len(s)
<1>1. /\ Len(s) \in Nat /\ \A k \in 1 .. Len(s) : s[k] \in S /\ s[k] \in Int
      /\ \A x \in S : \E k \in 1 .. Len(s) : s[k] = x
  BY LenProperties, ElementOfSeq DEF ListsUp
<1>2. ASSUME NEW c, Marked(s, c, n), \A x \in S : x < n
      PROVE  c = Len(s)
  <2>1. c \in 0 .. Len(s) /\ \A k \in 1 .. Len(s) : k <= c
    BY <1>1, <1>2 DEF Marked
  <2> QED BY <1>1, <2>1
<1>3. ASSUME \A x \in S : n <= x
      PROVE  Marked(s, 0, n)
  <2>1. \A k \in 1 .. Len(s) : ~(s[k] < n) /\ ~(k <= 0)
    BY <1>1, <1>3
  <2>2. 0 \in 0 .. Len(s)
    BY <1>1
  <2> QED BY <2>1, <2>2 DEF Marked
<1>4. ASSUME NEW c \in Nat, Marked(s, c, n), NEW x \in S, n <= x
      PROVE  c + 1 <= Len(s)
  <2>1. PICK k \in 1 .. Len(s) : s[k] = x
    BY <1>1
  <2>2. ~(k <= c)
    BY <1>1, <1>4, <2>1 DEF Marked
  <2> QED BY <1>1, <1>4, <2>1, <2>2
<1> QED BY <1>2, <1>3, <1>4

QuotesAt == {i \in 1 .. Len(query) : query[i] = Quote}

LEMMA Listings ==
  ASSUME query \in Text
  PROVE  /\ Len(query) \in Nat /\ DOMAIN query = 1 .. Len(query)
         /\ ListsUp(Quotes, QuotesAt) /\ ListsUp(Where, Bare)
         /\ Len(Quotes) \in Nat /\ Len(Where) \in Nat
         /\ \A k \in 1 .. Len(Quotes) : Quotes[k] \in 1 .. Len(query) /\ query[Quotes[k]] = Quote
         /\ \A k \in 1 .. Len(Where) : Where[k] \in 1 .. Len(query) /\ Where[k] \in Bare
<1>1. Len(query) \in Nat /\ DOMAIN query = 1 .. Len(query)
  BY LenProperties DEF Text
<1>2. IsFiniteSet(1 .. Len(query))
  BY <1>1, FS_Interval
<1>3. QuotesAt \in SUBSET Int /\ Bare \in SUBSET Int
  BY DEF QuotesAt, Bare
<1>4. IsFiniteSet(QuotesAt) /\ IsFiniteSet(Bare)
  BY <1>2, FS_Subset DEF QuotesAt, Bare
<1>5. Quotes = Ascending(QuotesAt)
  BY <1>1 DEF Quotes, QuotesAt
<1>6. ListsUp(Quotes, QuotesAt) /\ ListsUp(Where, Bare)
  BY <1>3, <1>4, <1>5, AscendingIsListing DEF Where
<1>7. /\ Len(Quotes) \in Nat /\ Len(Where) \in Nat
      /\ \A k \in 1 .. Len(Quotes) : Quotes[k] \in QuotesAt
      /\ \A k \in 1 .. Len(Where) : Where[k] \in Bare
  BY <1>6, LenProperties, ElementOfSeq DEF ListsUp
<1> QED BY <1>1, <1>6, <1>7 DEF QuotesAt, Bare

\* A character is bare exactly when the quotes before it are closed.
LEMMA BareNext ==
  ASSUME query \in Text, NEW l \in Nat, NEW n \in 1 .. Len(query)
  PROVE  /\ Marked(Quotes, 2 * l, n) => n \in Bare
         /\ Marked(Quotes, 2 * l + 1, n) => n \notin Bare
<1>1. /\ Len(query) \in Nat /\ Len(Quotes) \in Nat
      /\ \A k \in 1 .. Len(Quotes) : Quotes[k] \in 1 .. Len(query)
  BY Listings
<1>2. ASSUME Marked(Quotes, 2 * l, n), Enclosed(n)
      PROVE  FALSE
  <2>1. PICK p \in 1 .. Len(Quotes) :
          /\ 2 * p - 1 <= Len(Quotes) /\ Quotes[2 * p - 1] < n
          /\ 2 * p - 1 = Len(Quotes) \/ n <= Quotes[2 * p]
    BY <1>2 DEF Enclosed
  <2>2. 2 * p - 1 \in 1 .. Len(Quotes)
    BY <1>1, <2>1
  <2>3. 2 * l \in 0 .. Len(Quotes) /\ \A k \in 1 .. Len(Quotes) : Quotes[k] < n <=> k <= 2 * l
    BY <1>2 DEF Marked
  <2>4. 2 * p - 1 <= 2 * l
    BY <2>1, <2>2, <2>3
  <2>5. 2 * p <= 2 * l /\ 2 * p \in 1 .. Len(Quotes)
    BY <1>1, <2>1, <2>3, <2>4
  <2>6. Quotes[2 * p] < n /\ Quotes[2 * p] \in Int
    BY <1>1, <2>3, <2>5
  <2> QED BY <1>1, <2>1, <2>5, <2>6
<1>3. ASSUME Marked(Quotes, 2 * l + 1, n)
      PROVE  Enclosed(n)
  <2>1. 2 * l + 1 \in 0 .. Len(Quotes) /\ \A k \in 1 .. Len(Quotes) : Quotes[k] < n <=> k <= 2 * l + 1
    BY <1>3 DEF Marked
  <2> DEFINE p == l + 1
  <2>2. p \in 1 .. Len(Quotes) /\ 2 * p - 1 = 2 * l + 1 /\ 2 * p - 1 \in 1 .. Len(Quotes)
    BY <1>1, <2>1
  <2> HIDE DEF p
  <2>3. Quotes[2 * p - 1] < n /\ 2 * p - 1 <= Len(Quotes)
    BY <2>1, <2>2
  <2>4. 2 * p - 1 = Len(Quotes) \/ n <= Quotes[2 * p]
    <3> SUFFICES ASSUME 2 * p - 1 # Len(Quotes)
                 PROVE  n <= Quotes[2 * p]
      OBVIOUS
    <3>1. 2 * p \in 1 .. Len(Quotes) /\ ~(2 * p <= 2 * l + 1)
      BY <1>1, <2>2
    <3>2. ~(Quotes[2 * p] < n) /\ Quotes[2 * p] \in Int
      BY <1>1, <2>1, <3>1
    <3> QED BY <3>2
  <2> QED BY <2>2, <2>3, <2>4 DEF Enclosed
<1> QED BY <1>2, <1>3 DEF Bare

\* What the lists say of the query does not change with the rest.
LEMMA SameQuery ==
  ASSUME query' = query
  PROVE  Quotes' = Quotes /\ Where' = Where /\ Phrases' = Phrases /\ Stretches' = Stretches
         /\ From' = From /\ \A b : NamedAt(b)' = NamedAt(b)
<1>1. Quotes' = Quotes
  BY DEF Quotes
<1>2. Where' = Where
  BY <1>1 DEF Where, Bare, Enclosed
<1>3. Pairs' = Pairs
  BY <1>1 DEF Pairs
<1>4. Phrases' = Phrases
  BY <1>1, <1>3 DEF Phrases
<1>5. Loose' = Loose
  BY <1>1, <1>3 DEF Loose
<1>6. Longest' = Longest
  <2>1. Inside' = Inside
    BY <1>5 DEF Inside
  <2> QED BY <2>1 DEF Longest
<1>7. From' = From /\ Stretches' = Stretches
  BY <1>6 DEF From, Stretches
<1>8. \A b : NamedAt(b)' = NamedAt(b)
  BY <1>7 DEF NamedAt
<1> QED BY <1>1, <1>2, <1>4, <1>7, <1>8

LEMMA CharacterHeard ==
  ASSUME PlanInv, HeardInv, LooseInv, AtCharacter
  PROVE  /\ query \in Text /\ next \in 1 .. Len(query) /\ Len(quoted) \in Nat /\ quoted \in Seq(Text)
         /\ outside \in Text /\ Len(query) \in Nat
         /\ Marked(Where, Len(outside), next)
         /\ \A j \in 1 .. Len(outside) : outside[j] = Seen(query[Where[j]])
         /\ \A k \in 1 .. Len(quoted) :
              quoted[k] = SubSeq(query, Quotes[2 * k - 1] + 1, Quotes[2 * k] - 1)
         /\ ~in_quote => /\ Marked(Quotes, 2 * Len(quoted), next) /\ next \in Bare
                         /\ phrase = <<>>
         /\ in_quote => /\ Marked(Quotes, 2 * Len(quoted) + 1, next) /\ next \notin Bare
                        /\ phrase = SubSeq(query, Quotes[2 * Len(quoted) + 1] + 1, next - 1)
                        /\ 2 * Len(quoted) + 1 \in 1 .. Len(Quotes)
                        /\ Quotes[2 * Len(quoted) + 1] \in 1 .. next - 1
<1>1. query \in Text /\ next \in Nat \ {0} /\ quoted \in Seq(Text) /\ outside \in Text /\ pc = "chars"
  BY DEF PlanInv, TypeInv, AtCharacter
<1>2. Len(query) \in Nat /\ Len(quoted) \in Nat /\ Len(Quotes) \in Nat
  BY <1>1, Listings, LenProperties
<1>3. next \in 1 .. Len(query)
  BY <1>1, <1>2 DEF AtCharacter
<1>4. /\ Marked(Where, Len(outside), next)
      /\ \A j \in 1 .. Len(outside) : outside[j] = Seen(query[Where[j]])
  BY <1>1 DEF LooseInv
<1>5. /\ Marked(Quotes, 2 * Len(quoted) + (IF in_quote THEN 1 ELSE 0), next)
      /\ \A k \in 1 .. Len(quoted) :
              quoted[k] = SubSeq(query, Quotes[2 * k - 1] + 1, Quotes[2 * k] - 1)
      /\ phrase = IF in_quote THEN SubSeq(query, Quotes[2 * Len(quoted) + 1] + 1, next - 1) ELSE <<>>
  BY <1>1 DEF HeardInv
<1>6. ASSUME ~in_quote
      PROVE  /\ Marked(Quotes, 2 * Len(quoted), next) /\ next \in Bare
             /\ phrase = <<>>
  <2>1. 2 * Len(quoted) + (IF in_quote THEN 1 ELSE 0) = 2 * Len(quoted) /\ phrase = <<>>
    BY <1>2, <1>5, <1>6
  <2>2. Marked(Quotes, 2 * Len(quoted), next)
    BY <1>5, <2>1
  <2> QED BY <1>1, <1>2, <1>3, <2>1, <2>2, BareNext
<1>7. ASSUME in_quote
      PROVE  /\ Marked(Quotes, 2 * Len(quoted) + 1, next) /\ next \notin Bare
             /\ phrase = SubSeq(query, Quotes[2 * Len(quoted) + 1] + 1, next - 1)
             /\ 2 * Len(quoted) + 1 \in 1 .. Len(Quotes)
             /\ Quotes[2 * Len(quoted) + 1] \in 1 .. next - 1
  <2>1. /\ 2 * Len(quoted) + (IF in_quote THEN 1 ELSE 0) = 2 * Len(quoted) + 1
        /\ phrase = SubSeq(query, Quotes[2 * Len(quoted) + 1] + 1, next - 1)
    BY <1>5, <1>7
  <2>2. Marked(Quotes, 2 * Len(quoted) + 1, next)
    BY <1>5, <2>1
  <2>3. next \notin Bare
    BY <1>1, <1>2, <1>3, <2>2, BareNext
  <2> DEFINE m == 2 * Len(quoted) + 1
  <2>4. m \in 1 .. Len(Quotes)
    BY <1>2, <2>2 DEF Marked
  <2> HIDE DEF m
  <2>5. Quotes[m] < next
    BY <2>2, <2>4 DEF Marked, m
  <2>6. Quotes[m] \in 1 .. Len(query)
    BY <1>1, <2>4, Listings
  <2>7. Quotes[m] \in 1 .. next - 1
    BY <1>3, <2>5, <2>6
  <2> QED BY <2>1, <2>2, <2>3, <2>4, <2>7 DEF m
<1> QED BY <1>1, <1>2, <1>3, <1>4, <1>5, <1>6, <1>7

\* The loose text while characters are read.
LEMMA LooseGrows ==
  ASSUME PlanInv, HeardInv, LooseInv, AtCharacter, query' = query, next' = next + 1,
         IF in_quote THEN outside' = outside ELSE outside' = Append(outside, Seen(Character))
  PROVE  LooseInv'
<1>1. /\ query \in Text /\ next \in 1 .. Len(query) /\ outside \in Text
      /\ Marked(Where, Len(outside), next)
      /\ \A j \in 1 .. Len(outside) : outside[j] = Seen(query[Where[j]])
      /\ ~in_quote => next \in Bare
      /\ in_quote => next \notin Bare
  BY CharacterHeard
<1>2. Where' = Where /\ query' = query
  BY SameQuery
<1>3. ListsUp(Where, Bare) /\ Bare \in SUBSET Int /\ next \in Int /\ Len(outside) \in Nat
  BY <1>1, Listings, LenProperties DEF Bare, Text
<1>4. CASE in_quote
  <2>1. outside' = outside
    BY <1>4
  <2>2. Marked(Where, Len(outside), next + 1)
    BY <1>1, <1>3, <1>4, MarkSteps
  <2> QED BY <1>1, <1>2, <2>1, <2>2 DEF LooseInv, Marked
<1>5. CASE ~in_quote
  <2>1. outside' = Append(outside, Seen(Character))
    BY <1>5
  <2>2. Marked(Where, Len(outside) + 1, next + 1) /\ Where[Len(outside) + 1] = next
    BY <1>1, <1>3, <1>5, MarkSteps
  <2>3. Len(outside') = Len(outside) + 1
        /\ \A j \in 1 .. Len(outside) : outside'[j] = outside[j]
        /\ outside'[Len(outside) + 1] = Seen(Character)
    BY <1>1, <2>1 DEF Text
  <2>4. \A j \in 1 .. Len(outside') : outside'[j] = Seen(query[Where[j]])
    <3> TAKE j \in 1 .. Len(outside')
    <3>1. j \in 1 .. Len(outside) \/ j = Len(outside) + 1
      BY <1>3, <2>3
    <3> QED BY <1>1, <2>2, <2>3, <3>1 DEF Character
  <2>5. Marked(Where, Len(outside'), next')
    BY <2>2, <2>3
  <2> QED BY <1>2, <2>4, <2>5 DEF LooseInv, Marked
<1> QED BY <1>4, <1>5

LEMMA QuoteOpens ==
  ASSUME PlanInv, HeardInv, LooseInv, OpenQuote
  PROVE  HeardInv' /\ LooseInv'
<1>1. /\ AtCharacter /\ Character = Quote /\ ~in_quote /\ in_quote' = TRUE
      /\ outside' = Append(outside, 32) /\ next' = next + 1 /\ query' = query
      /\ phrase' = phrase /\ quoted' = quoted
  BY DEF OpenQuote, literals
<1>2. Seen(Character) = 32
  BY <1>1 DEF Seen
<1>3. LooseInv'
  BY <1>1, <1>2, LooseGrows
<1>4. /\ query \in Text /\ next \in 1 .. Len(query) /\ Len(quoted) \in Nat
      /\ Marked(Quotes, 2 * Len(quoted), next) /\ phrase = <<>>
      /\ \A k \in 1 .. Len(quoted) :
              quoted[k] = SubSeq(query, Quotes[2 * k - 1] + 1, Quotes[2 * k] - 1)
  BY <1>1, CharacterHeard
<1>5. ListsUp(Quotes, QuotesAt) /\ QuotesAt \in SUBSET Int /\ next \in Int /\ next \in QuotesAt
  BY <1>1, <1>4, Listings DEF QuotesAt, Character
<1>6. Quotes[2 * Len(quoted) + 1] = next /\ Marked(Quotes, 2 * Len(quoted) + 1, next + 1)
  BY <1>4, <1>5, MarkSteps
<1>7. SubSeq(query, Quotes[2 * Len(quoted) + 1] + 1, (next + 1) - 1) = <<>>
  <2>1. next + 1 \in Int /\ (next + 1) - 1 \in Int /\ (next + 1) - 1 < next + 1
    BY <1>4
  <2> QED BY <1>6, <2>1, SubSeqEmpty
<1>8. Quotes' = Quotes
  BY <1>1, SameQuery
<1>9. 2 * Len(quoted') + (IF in_quote' THEN 1 ELSE 0) = 2 * Len(quoted) + 1
  BY <1>1
<1>10. Marked(Quotes', 2 * Len(quoted') + (IF in_quote' THEN 1 ELSE 0), next')
  BY <1>1, <1>6, <1>8, <1>9
<1>11. phrase' = IF in_quote' THEN SubSeq(query', Quotes'[2 * Len(quoted') + 1] + 1, next' - 1) ELSE <<>>
  BY <1>1, <1>4, <1>7, <1>8
<1> QED BY <1>1, <1>3, <1>4, <1>8, <1>10, <1>11 DEF HeardInv, Marked

LEMMA Appended ==
  ASSUME NEW S, NEW s \in Seq(S), NEW e \in S, NEW t, t = Append(s, e)
  PROVE  /\ t \in Seq(S) /\ Len(t) = Len(s) + 1 /\ t[Len(s) + 1] = e
         /\ \A k \in 1 .. Len(s) : t[k] = s[k]
BY AppendProperties

LEMMA QuoteCloses ==
  ASSUME PlanInv, HeardInv, LooseInv, AtCharacter, Character = Quote, in_quote,
         quoted' = Append(quoted, phrase), phrase' = <<>>, in_quote' = FALSE,
         next' = next + 1, query' = query, outside' = outside
  PROVE  HeardInv' /\ LooseInv'
<1>1. LooseInv'
  BY LooseGrows
<1>2. /\ query \in Text /\ next \in 1 .. Len(query) /\ Len(quoted) \in Nat /\ quoted \in Seq(Text)
      /\ Marked(Quotes, 2 * Len(quoted) + 1, next)
      /\ phrase = SubSeq(query, Quotes[2 * Len(quoted) + 1] + 1, next - 1)
      /\ \A k \in 1 .. Len(quoted) :
              quoted[k] = SubSeq(query, Quotes[2 * k - 1] + 1, Quotes[2 * k] - 1)
  BY CharacterHeard
<1>3. ListsUp(Quotes, QuotesAt) /\ QuotesAt \in SUBSET Int /\ next \in Int /\ next \in QuotesAt
  BY <1>2, Listings DEF QuotesAt, Character
<1>4. /\ Quotes[(2 * Len(quoted) + 1) + 1] = next
      /\ Marked(Quotes, (2 * Len(quoted) + 1) + 1, next + 1)
  BY <1>2, <1>3, MarkSteps
<1>5. phrase \in Text
  BY DEF PlanInv, TypeInv
<1>6. /\ Len(quoted') = Len(quoted) + 1
      /\ \A k \in 1 .. Len(quoted) : quoted'[k] = quoted[k]
      /\ quoted'[Len(quoted) + 1] = phrase
  <2>1. quoted \in Seq(Text) /\ phrase \in Text /\ quoted' = Append(quoted, phrase)
    BY <1>2, <1>5
  <2> QED BY ONLY <2>1, Appended
<1> DEFINE l == Len(quoted) + 1
<1>7. (2 * Len(quoted) + 1) + 1 = 2 * l /\ 2 * Len(quoted) + 1 = 2 * l - 1
  BY <1>2
<1>8. Quotes' = Quotes
  BY SameQuery
<1> HIDE DEF l
<1>9. Quotes[2 * l] = next /\ Marked(Quotes, 2 * l, next + 1)
  BY <1>4, <1>7
<1>10. quoted'[l] = SubSeq(query, Quotes[2 * l - 1] + 1, Quotes[2 * l] - 1)
  BY <1>2, <1>6, <1>7, <1>9 DEF l
<1>11. \A k \in 1 .. Len(quoted') :
              quoted'[k] = SubSeq(query, Quotes[2 * k - 1] + 1, Quotes[2 * k] - 1)
  <2> TAKE k \in 1 .. Len(quoted')
  <2>1. k \in 1 .. Len(quoted) \/ k = l
    BY <1>2, <1>6 DEF l
  <2> QED BY <1>2, <1>6, <1>10, <2>1
<1>12. 2 * Len(quoted') + (IF in_quote' THEN 1 ELSE 0) = 2 * l
  <2>1. Len(quoted') = l /\ l \in Nat
    BY <1>2, <1>6 DEF l
  <2> QED BY <2>1
<1>13. Marked(Quotes', 2 * Len(quoted') + (IF in_quote' THEN 1 ELSE 0), next')
  BY <1>8, <1>9, <1>12
<1>14. phrase' = IF in_quote' THEN SubSeq(query', Quotes'[2 * Len(quoted') + 1] + 1, next' - 1) ELSE <<>>
  OBVIOUS
<1> QED BY <1>1, <1>8, <1>11, <1>13, <1>14 DEF HeardInv, Marked

LEMMA CharacterTaken ==
  ASSUME PlanInv, HeardInv, LooseInv, TakeCharacter
  PROVE  HeardInv' /\ LooseInv'
<1>1. /\ AtCharacter /\ Character # Quote /\ in_quote' = in_quote
      /\ next' = next + 1 /\ query' = query /\ quoted' = quoted
      /\ IF in_quote THEN phrase' = Append(phrase, Character) /\ outside' = outside
         ELSE outside' = Append(outside, Character) /\ phrase' = phrase
  BY DEF TakeCharacter, literals
<1>2. Seen(Character) = Character
  BY <1>1 DEF Seen
<1>3. LooseInv'
  BY <1>1, <1>2, LooseGrows
<1>4. /\ query \in Text /\ next \in 1 .. Len(query) /\ Len(quoted) \in Nat
      /\ \A k \in 1 .. Len(quoted) :
              quoted[k] = SubSeq(query, Quotes[2 * k - 1] + 1, Quotes[2 * k] - 1)
  BY <1>1, CharacterHeard
<1>5. ListsUp(Quotes, QuotesAt) /\ QuotesAt \in SUBSET Int /\ next \in Int /\ next \notin QuotesAt
  BY <1>1, <1>4, Listings DEF QuotesAt, Character
<1>6. Quotes' = Quotes
  BY <1>1, SameQuery
<1> DEFINE c == 2 * Len(quoted) + (IF in_quote THEN 1 ELSE 0)
<1>7. Marked(Quotes, c, next)
  BY <1>1 DEF HeardInv, AtCharacter
<1> HIDE DEF c
<1>8. Marked(Quotes, c, next + 1)
  BY <1>5, <1>7, MarkSteps
<1>9. Marked(Quotes', 2 * Len(quoted') + (IF in_quote' THEN 1 ELSE 0), next')
  BY <1>1, <1>6, <1>8 DEF c
<1>10. phrase' = IF in_quote' THEN SubSeq(query', Quotes'[2 * Len(quoted') + 1] + 1, next' - 1) ELSE <<>>
  <2>1. CASE ~in_quote
    <3>1. phrase' = <<>>
      BY <1>1, <2>1, CharacterHeard
    <3> QED BY <1>1, <2>1, <3>1
  <2>2. CASE in_quote
    <3> DEFINE a == Quotes[2 * Len(quoted) + 1] + 1
    <3>1. phrase = SubSeq(query, a, next - 1) /\ Quotes[2 * Len(quoted) + 1] \in 1 .. next - 1
      BY <1>1, <2>2, CharacterHeard
    <3>2. a \in 1 .. next
      BY <1>4, <3>1
    <3> HIDE DEF a
    <3>3. SubSeq(query, a, next) = Append(SubSeq(query, a, next - 1), query[next])
      BY <1>4, <3>2, SMTT(30) DEF Text
    <3>4. phrase' = SubSeq(query, a, next)
      BY <1>1, <2>2, <3>1, <3>3 DEF Character
    <3>5. (next + 1) - 1 = next
      BY <1>4
    <3> QED BY <1>1, <1>6, <2>2, <3>4, <3>5 DEF a
  <2> QED BY <2>1, <2>2
<1> QED BY <1>1, <1>3, <1>4, <1>6, <1>9, <1>10 DEF HeardInv, Marked

(***************************************************************************)
(* All of the query is read: the loose text is the bare characters.        *)
(***************************************************************************)

Settled ==
  /\ query \in Text /\ outside \in Text
  /\ \E l \in Nat : Len(Quotes) = 2 * l
  /\ outside = [j \in 1 .. Len(Where) |-> Seen(query[Where[j]])]

LEMMA Laid ==
  ASSUME Settled
  PROVE  /\ Len(query) \in Nat /\ Len(outside) \in Nat /\ Len(outside) = Len(Where)
         /\ DOMAIN outside = 1 .. Len(outside)
         /\ \A j \in 1 .. Len(outside) : /\ Where[j] \in 1 .. Len(query) /\ Where[j] \in Bare
                                         /\ outside[j] = Seen(query[Where[j]])
         /\ \A i \in Bare : \E j \in 1 .. Len(outside) : Where[j] = i
         /\ \A i, j \in 1 .. Len(outside) : i < j => Where[i] < Where[j]
<1>1. query \in Text /\ outside \in Text
  BY DEF Settled
<1>2. /\ Len(query) \in Nat /\ Len(Where) \in Nat
      /\ ListsUp(Where, Bare)
      /\ \A k \in 1 .. Len(Where) : Where[k] \in 1 .. Len(query) /\ Where[k] \in Bare
  BY <1>1, Listings
<1>3. Len(outside) \in Nat /\ DOMAIN outside = 1 .. Len(outside)
  BY <1>1, LenProperties DEF Text
<1>4. DOMAIN outside = 1 .. Len(Where) /\ \A j \in 1 .. Len(Where) : outside[j] = Seen(query[Where[j]])
  BY DEF Settled
<1>5. Len(outside) = Len(Where)
  BY <1>2, <1>3, <1>4
<1> QED BY <1>2, <1>3, <1>4, <1>5 DEF ListsUp

LEMMA LooseIsBare ==
  ASSUME Settled, NEW i \in 1 .. Len(query)
  PROVE  i \in Loose <=> i \in Bare /\ ~Blank(Seen(query[i]))
<1>1. query \in Text
  BY DEF Settled
<1>2. PICK l \in Nat : Len(Quotes) = 2 * l
  BY DEF Settled
<1>3. Pairs = 1 .. l /\ DOMAIN query = 1 .. Len(query)
  <2>1. (2 * l) \div 2 = l
    BY <1>2
  <2> QED BY <1>1, <1>2, <2>1, Listings DEF Pairs
<1>4. \A k \in 1 .. Len(Quotes) : Quotes[k] \in 1 .. Len(query) /\ query[Quotes[k]] = Quote
  BY <1>1, Listings
<1>5. Blank(32) /\ ~Blank(Quote)
  BY DEF Blank, Quote
<1>6. ASSUME i \in Loose
      PROVE  i \in Bare /\ ~Blank(Seen(query[i]))
  <2>1. /\ query[i] # Quote /\ ~Blank(query[i])
        /\ \A k \in Pairs : i \notin Quotes[2 * k - 1] .. Quotes[2 * k]
    BY <1>6 DEF Loose
  <2>2. ~Blank(Seen(query[i]))
    BY <2>1 DEF Seen
  <2>3. ASSUME NEW p \in 1 .. Len(Quotes), 2 * p - 1 <= Len(Quotes), Quotes[2 * p - 1] < i,
               2 * p - 1 = Len(Quotes) \/ i <= Quotes[2 * p]
        PROVE  FALSE
    <3>1. p \in 1 .. l /\ 2 * p - 1 # Len(Quotes) /\ 2 * p \in 1 .. Len(Quotes)
          /\ 2 * p - 1 \in 1 .. Len(Quotes)
      BY <1>2, <2>3
    <3>2. Quotes[2 * p] \in Int /\ Quotes[2 * p - 1] \in Int
      BY <1>4, <3>1
    <3>3. i \in Quotes[2 * p - 1] .. Quotes[2 * p]
      BY <2>3, <3>1, <3>2
    <3> QED BY <1>3, <2>1, <3>1, <3>3
  <2>4. ~Enclosed(i)
    BY <2>3 DEF Enclosed
  <2> QED BY <2>2, <2>4 DEF Bare
<1>7. ASSUME i \in Bare, ~Blank(Seen(query[i]))
      PROVE  i \in Loose
  <2>1. query[i] # Quote /\ ~Blank(query[i])
    BY <1>5, <1>7 DEF Seen
  <2>2. ASSUME NEW k \in Pairs, i \in Quotes[2 * k - 1] .. Quotes[2 * k]
        PROVE  FALSE
    <3>1. k \in 1 .. Len(Quotes) /\ 2 * k \in 1 .. Len(Quotes) /\ 2 * k - 1 \in 1 .. Len(Quotes)
      BY <1>2, <1>3
    <3>2. Quotes[2 * k] \in Int /\ Quotes[2 * k - 1] \in Int /\ Quotes[2 * k - 1] # i
      BY <1>4, <2>1, <3>1
    <3>3. Quotes[2 * k - 1] < i /\ i <= Quotes[2 * k] /\ 2 * k - 1 <= Len(Quotes)
      BY <2>2, <3>1, <3>2
    <3> QED BY <1>7, <3>1, <3>3 DEF Bare, Enclosed
  <2> QED BY <1>3, <2>1, <2>2 DEF Loose
<1> QED BY <1>6, <1>7

\* A loose character is one that is not blank in the loose text.
LEMMA LooseIndex ==
  ASSUME Settled
  PROVE  /\ \A j \in 1 .. Len(outside) :
              /\ Where[j] \in Loose <=> ~Blank(outside[j])
              /\ ~Blank(outside[j]) => outside[j] = query[Where[j]]
         /\ \A i \in Loose : i \in 1 .. Len(query) /\ \E j \in 1 .. Len(outside) : Where[j] = i
<1>1. /\ \A j \in 1 .. Len(outside) : /\ Where[j] \in 1 .. Len(query) /\ Where[j] \in Bare
                                         /\ outside[j] = Seen(query[Where[j]])
      /\ \A i \in Bare : \E j \in 1 .. Len(outside) : Where[j] = i
  BY Laid
<1>2. Loose \in SUBSET (1 .. Len(query))
  BY Listings DEF Settled, Loose
<1>3. ASSUME NEW j \in 1 .. Len(outside)
      PROVE  /\ Where[j] \in Loose <=> ~Blank(outside[j])
             /\ ~Blank(outside[j]) => outside[j] = query[Where[j]]
  <2>1. Where[j] \in Loose <=> ~Blank(outside[j])
    BY <1>1, LooseIsBare
  <2>2. Blank(32)
    BY DEF Blank
  <2> QED BY <1>1, <2>1, <2>2 DEF Seen
<1>4. ASSUME NEW i \in Loose
      PROVE  \E j \in 1 .. Len(outside) : Where[j] = i
  BY <1>1, <1>2, LooseIsBare
<1> QED BY <1>2, <1>3, <1>4

\* Behind a character that is not blank in the loose text comes its neighbour.
LEMMA NextBare ==
  ASSUME Settled, NEW j \in 1 .. Len(outside), j + 1 \in 1 .. Len(outside), ~Blank(outside[j])
  PROVE  Where[j + 1] = Where[j] + 1
<1>1. /\ Len(query) \in Nat /\ Len(outside) \in Nat
      /\ \A m \in 1 .. Len(outside) : /\ Where[m] \in 1 .. Len(query) /\ Where[m] \in Bare
      /\ \A i \in Bare : \E m \in 1 .. Len(outside) : Where[m] = i
      /\ \A i, m \in 1 .. Len(outside) : i < m => Where[i] < Where[m]
  BY Laid
<1> DEFINE x == Where[j]
<1>2. x \in 1 .. Len(query) /\ x \in Bare /\ Where[j + 1] \in 1 .. Len(query) /\ x < Where[j + 1]
  <2>1. j < j + 1
    OBVIOUS
  <2> QED BY <1>1, <2>1
<1>3. query[x] # Quote
  <2>1. Where[j] \in 1 .. Len(query) /\ outside[j] = Seen(query[x]) /\ Blank(32)
    BY Laid DEF Blank
  <2> QED BY <2>1 DEF Seen
<1> HIDE DEF x
<1>4. x + 1 \in Bare
  <2>1. x + 1 \in 1 .. Len(query)
    BY <1>1, <1>2
  <2>2. ASSUME NEW p \in 1 .. Len(Quotes), 2 * p - 1 <= Len(Quotes), Quotes[2 * p - 1] < x + 1,
               2 * p - 1 = Len(Quotes) \/ x + 1 <= Quotes[2 * p]
        PROVE  FALSE
    <3>1. /\ Len(Quotes) \in Nat
          /\ \A k \in 1 .. Len(Quotes) : Quotes[k] \in 1 .. Len(query) /\ query[Quotes[k]] = Quote
      BY Listings DEF Settled
    <3>2. 2 * p - 1 \in 1 .. Len(Quotes)
      BY <2>2, <3>1
    <3>3. Quotes[2 * p - 1] \in Int /\ Quotes[2 * p - 1] # x
      BY <1>3, <3>1, <3>2
    <3>4. Quotes[2 * p - 1] < x
      BY <1>2, <2>2, <3>3
    <3>5. 2 * p - 1 = Len(Quotes) \/ x <= Quotes[2 * p]
      <4> SUFFICES ASSUME 2 * p - 1 # Len(Quotes)
                   PROVE  x <= Quotes[2 * p]
        OBVIOUS
      <4>1. 2 * p \in 1 .. Len(Quotes)
        <5>1. p \in Nat /\ Len(Quotes) \in Nat
          BY <3>1
        <5> QED BY <3>2, <5>1
      <4>2. Quotes[2 * p] \in Int
        BY <3>1, <4>1
      <4>3. x + 1 <= Quotes[2 * p] /\ x \in Int
        BY <1>2, <2>2
      <4> QED BY <4>2, <4>3
    <3> QED BY <1>2, <2>2, <3>4, <3>5 DEF Bare, Enclosed
  <2>3. ~Enclosed(x + 1)
    BY <2>2 DEF Enclosed
  <2> QED BY <2>1, <2>3 DEF Bare
<1>5. PICK m \in 1 .. Len(outside) : Where[m] = x + 1
  BY <1>1, <1>4
<1>6. j + 1 <= m
  <2> SUFFICES ASSUME m <= j
               PROVE  FALSE
    BY <1>1
  <2>1. m < j \/ m = j
    BY <1>1
  <2>2. Where[m] <= x
    BY <1>1, <1>2, <2>1 DEF x
  <2> QED BY <1>2, <1>5, <2>2
<1>7. Where[j + 1] <= x + 1
  <2>1. j + 1 < m \/ j + 1 = m
    BY <1>1, <1>6
  <2> QED BY <1>1, <1>2, <1>5, <2>1
<1> QED BY <1>2, <1>7 DEF x

\* Characters that are not blank in the loose text lie side by side.
LEMMA SideBySide ==
  ASSUME Settled, NEW i \in 1 .. Len(outside), NEW j \in 1 .. Len(outside), i <= j,
         \A m \in i .. j : ~Blank(outside[m])
  PROVE  \A m \in i .. j : Where[m] = Where[i] + (m - i)
<1>1. /\ Len(outside) \in Nat /\ \A m \in 1 .. Len(outside) : Where[m] \in Int
  BY Laid
<1> DEFINE Good == {m \in 1 .. Len(outside) : Where[m] = Where[i] + (m - i)}
<1>2. i \in Good
  BY <1>1
<1>3. ASSUME NEW k \in i + 1 .. j, k - 1 \in Good
      PROVE  k \in Good
  <2>1. /\ k - 1 \in 1 .. Len(outside) /\ k \in 1 .. Len(outside) /\ k - 1 \in i .. j
        /\ (k - 1) + 1 = k
    BY <1>1
  <2>2. Where[(k - 1) + 1] = Where[k - 1] + 1
    BY <2>1, NextBare
  <2>3. Where[k] = (Where[i] + ((k - 1) - i)) + 1
    BY <1>3, <2>1, <2>2
  <2> QED BY <1>1, <2>1, <2>3
<1> HIDE DEF Good
<1>4. \A k \in i .. j : k \in Good
  <2>1. i \in Nat /\ j \in Nat
    BY <1>1
  <2> QED BY <1>2, <1>3, <2>1, Flat!Climb
<1> QED BY <1>4 DEF Good

\* A stretch of the query is loose exactly when its text has no blank.
LEMMA LooseStretch ==
  ASSUME Settled, NEW i \in 1 .. Len(outside), NEW j \in 1 .. Len(outside), i <= j
  PROVE  Where[i] .. Where[j] \subseteq Loose <=> \A m \in i .. j : ~Blank(outside[m])
<1>1. /\ Len(outside) \in Nat /\ \A m \in 1 .. Len(outside) : Where[m] \in Int
      /\ \A k, m \in 1 .. Len(outside) : k < m => Where[k] < Where[m]
  BY Laid
<1>2. \A m \in 1 .. Len(outside) : Where[m] \in Loose <=> ~Blank(outside[m])
  BY LooseIndex
<1>3. ASSUME Where[i] .. Where[j] \subseteq Loose, NEW m \in i .. j
      PROVE  ~Blank(outside[m])
  <2>1. m \in 1 .. Len(outside) /\ (i = m \/ i < m) /\ (m = j \/ m < j)
    BY <1>1
  <2>2. Where[i] <= Where[m] /\ Where[m] <= Where[j]
    BY <1>1, <2>1
  <2>3. Where[m] \in Where[i] .. Where[j]
    BY <1>1, <2>1, <2>2
  <2> QED BY <1>2, <1>3, <2>1, <2>3
<1>4. ASSUME \A m \in i .. j : ~Blank(outside[m]), NEW x \in Where[i] .. Where[j]
      PROVE  x \in Loose
  <2>1. \A m \in i .. j : Where[m] = Where[i] + (m - i)
    BY <1>4, SideBySide
  <2> DEFINE m == i + (x - Where[i])
  <2>2. x \in Int /\ Where[i] \in Int /\ Where[i] <= x /\ x <= Where[j]
    BY <1>1, <1>4
  <2>3. Where[j] = Where[i] + (j - i)
    <3>1. j \in i .. j
      BY <1>1
    <3> QED BY <2>1, <3>1
  <2>4. m \in i .. j /\ m - i = x - Where[i]
    BY <1>1, <2>2, <2>3
  <2> HIDE DEF m
  <2>5. Where[m] = x
    BY <2>1, <2>2, <2>4
  <2>6. m \in 1 .. Len(outside)
    BY <1>1, <2>4
  <2> QED BY <1>2, <1>4, <2>4, <2>5, <2>6
<1> QED BY <1>3, <1>4

\* There the query reads like the loose text.
LEMMA SameText ==
  ASSUME Settled, NEW i \in 1 .. Len(outside), NEW j \in 1 .. Len(outside), i <= j,
         \A m \in i .. j : ~Blank(outside[m])
  PROVE  SubSeq(query, Where[i], Where[j]) = SubSeq(outside, i, j)
<1>1. /\ Len(outside) \in Nat /\ Len(query) \in Nat
      /\ \A m \in 1 .. Len(outside) : Where[m] \in 1 .. Len(query)
  BY Laid
<1>2. query \in Seq(Nat) /\ outside \in Seq(Nat)
  BY DEF Settled, Text
<1>3. \A m \in i .. j : Where[m] = Where[i] + (m - i) /\ outside[m] = query[Where[m]]
  <2>1. \A m \in i .. j : Where[m] = Where[i] + (m - i)
    BY SideBySide
  <2>2. \A m \in i .. j : m \in 1 .. Len(outside)
    BY <1>1
  <2>3. \A m \in 1 .. Len(outside) : ~Blank(outside[m]) => outside[m] = query[Where[m]]
    BY LooseIndex
  <2> QED BY <2>1, <2>2, <2>3
<1> DEFINE a == Where[i]
           b == Where[j]
           p == SubSeq(query, a, b)
           q == SubSeq(outside, i, j)
<1>4. a \in 1 .. Len(query) /\ b \in 1 .. Len(query) /\ b = a + (j - i)
  <2>1. j \in i .. j
    BY <1>1
  <2> QED BY <1>1, <1>3, <2>1
<1> HIDE DEF a, b
<1>5. p \in Seq(Nat) /\ Len(p) = b - a + 1 /\ \A k \in 1 .. b - a + 1 : p[k] = query[a + k - 1]
  <2>1. a <= b
    BY <1>1, <1>4
  <2>2. a \in 1 .. Len(query) + 1 /\ b \in a - 1 .. Len(query)
    BY <1>1, <1>4, <2>1
  <2>3. Len(p) = b - a + 1 /\ p \in Seq(Nat) /\ \A k \in 1 .. b - a + 1 : p[k] = query[a + k - 1]
    BY <1>2, <2>1, <2>2, SubSeqProperties, SMTT(30)
  <2> QED BY <2>3
<1>6. q \in Seq(Nat) /\ Len(q) = j - i + 1 /\ \A k \in 1 .. j - i + 1 : q[k] = outside[i + k - 1]
  <2>2. i \in 1 .. Len(outside) + 1 /\ j \in i - 1 .. Len(outside)
    BY <1>1
  <2> QED BY <1>1, <1>2, <2>2, SubSeqProperties
<1> HIDE DEF p, q
<1>7. \A k \in 1 .. j - i + 1 : query[a + k - 1] = outside[i + k - 1]
  <2> TAKE k \in 1 .. j - i + 1
  <2> DEFINE m == i + k - 1
  <2>1. m \in i .. j /\ a + k - 1 = a + (m - i)
    BY <1>1, <1>4
  <2> HIDE DEF m
  <2>2. outside[m] = query[Where[m]] /\ Where[m] = a + (m - i)
    BY <1>3, <2>1 DEF a
  <2> QED BY <2>1, <2>2 DEF m
<1>8. Len(p) = Len(q) /\ \A k \in 1 .. Len(p) : p[k] = q[k]
  <2>1. b - a + 1 = j - i + 1
    BY <1>1, <1>4
  <2> QED BY <1>5, <1>6, <1>7, <2>1
<1>9. p = q
  BY <1>5, <1>6, <1>8, SeqEqual
<1> QED BY <1>9 DEF p, q, a, b

\* A character that is not blank is in a word, and so is what follows it
\* without a blank.
LEMMA WordAround ==
  ASSUME NEW s \in Text, NEW i \in 1 .. Len(s), ~Blank(s[i])
  PROVE  \E w \in Begins(s) :
           /\ w <= i /\ i <= StopOf(s, w)
           /\ \A j \in i .. Len(s) : (\A m \in i .. j : ~Blank(s[m])) => j <= StopOf(s, w)
<1>1. Len(s) \in Nat /\ DOMAIN s = 1 .. Len(s)
  BY LenProperties DEF Text
<1>2. /\ StopOf(s, i) \in Stops(s) /\ i <= StopOf(s, i)
      /\ \A m \in i .. StopOf(s, i) : ~Blank(s[m])
  BY <1>1, WordEnds
<1>3. PICK w \in Begins(s) : StopOf(s, w) = StopOf(s, i)
  BY <1>2, WordsApart
<1> DEFINE e == StopOf(s, w)
<1>4. /\ e \in 1 .. Len(s) /\ (e = Len(s) \/ Blank(s[e + 1])) /\ i <= e
      /\ w \in 1 .. Len(s) /\ (w = 1 \/ Blank(s[w - 1]))
      /\ \A m \in i .. e : ~Blank(s[m])
  BY <1>1, <1>2, <1>3 DEF Begins, Stops
<1>0. e \in Nat /\ w \in Nat /\ i \in Nat /\ i <= e /\ e <= Len(s) /\ w <= Len(s) /\ 1 <= w
  BY <1>1, <1>4
<1> HIDE DEF e
<1>5. w <= i
  <2> SUFFICES ASSUME i < w
               PROVE  FALSE
    BY <1>0
  <2>1. w <= e
    <3>1. w \in DOMAIN s /\ ~Blank(s[w])
      BY DEF Begins
    <3> QED BY <3>1, WordEnds DEF e
  <2>2. w - 1 \in i .. e /\ w # 1
    BY <1>0, <2>1
  <2> QED BY <1>4, <2>2
<1>6. ASSUME NEW j \in i .. Len(s), \A m \in i .. j : ~Blank(s[m])
      PROVE  j <= e
  <2> SUFFICES ASSUME e < j
               PROVE  FALSE
    BY <1>0, <1>1
  <2>1. e + 1 \in i .. j /\ e # Len(s)
    <3>1. j \in Nat /\ i <= j /\ j <= Len(s) /\ e < j
      BY <1>0, <1>1
    <3> QED BY <1>0, <3>1
  <2> QED BY <1>4, <1>6, <2>1
<1> QED BY <1>4, <1>5, <1>6 DEF e

(***************************************************************************)
(* The longest stretches are the trimmed words.                            *)
(***************************************************************************)

\* The characters to keep of the word that begins at w, the first and the last.
Keeps(w) == {m \in w .. StopOf(outside, w) : Kept(outside[m])}
Lo(w) == CHOOSE m \in Keeps(w) : \A n \in Keeps(w) : m <= n
Hi(w) == CHOOSE m \in Keeps(w) : \A n \in Keeps(w) : n <= m
Pair(a, b) == <<a, b>>
Span(w) == Pair(Where[Lo(w)], Where[Hi(w)])
Starts == {w \in Begins(outside) : Keeps(w) # {}}

LEMMA PairIs == \A a, b : Pair(a, b)[1] = a /\ Pair(a, b)[2] = b
BY DEF Pair

LEMMA PairIn ==
  ASSUME NEW S, NEW p \in S \X S
  PROVE  p[1] \in S /\ p[2] \in S /\ p = Pair(p[1], p[2])
BY DEF Pair

LEMMA PairOf ==
  ASSUME NEW S, NEW a \in S, NEW b \in S
  PROVE  Pair(a, b) \in S \X S
BY DEF Pair

LEMMA WordSpan ==
  ASSUME Settled, NEW w \in Begins(outside)
  PROVE  /\ w \in 1 .. Len(outside) /\ StopOf(outside, w) \in 1 .. Len(outside)
         /\ w <= StopOf(outside, w)
         /\ \A m \in w .. StopOf(outside, w) : ~Blank(outside[m])
<1>1. outside \in Text /\ Len(outside) \in Nat /\ DOMAIN outside = 1 .. Len(outside)
  BY Laid DEF Settled
<1>2. w \in DOMAIN outside /\ ~Blank(outside[w])
  BY DEF Begins
<1>3. /\ StopOf(outside, w) \in Stops(outside) /\ w <= StopOf(outside, w)
      /\ \A m \in w .. StopOf(outside, w) : ~Blank(outside[m])
  BY <1>1, <1>2, WordEnds
<1>4. StopOf(outside, w) \in DOMAIN outside
  BY <1>3 DEF Stops
<1> QED BY <1>1, <1>2, <1>3, <1>4

LEMMA KeptSpan ==
  ASSUME Settled, NEW w \in Starts
  PROVE  /\ w \in Begins(outside) /\ w \in 1 .. Len(outside)
         /\ Lo(w) \in 1 .. Len(outside) /\ Hi(w) \in 1 .. Len(outside)
         /\ Lo(w) \in Keeps(w) /\ Hi(w) \in Keeps(w)
         /\ Kept(outside[Lo(w)]) /\ Kept(outside[Hi(w)])
         /\ w <= Lo(w) /\ Lo(w) <= Hi(w) /\ Hi(w) <= StopOf(outside, w)
         /\ \A n \in Keeps(w) : Lo(w) <= n /\ n <= Hi(w)
         /\ \A m \in Lo(w) .. Hi(w) : ~Blank(outside[m])
<1>1. w \in Begins(outside) /\ Keeps(w) # {}
  BY DEF Starts
<1>2. /\ w \in 1 .. Len(outside) /\ StopOf(outside, w) \in 1 .. Len(outside)
      /\ w <= StopOf(outside, w) /\ Len(outside) \in Nat
      /\ \A m \in w .. StopOf(outside, w) : ~Blank(outside[m])
  BY <1>1, WordSpan, Laid
<1>3. Keeps(w) \in SUBSET Nat /\ Keeps(w) \in SUBSET (0 .. StopOf(outside, w))
      /\ StopOf(outside, w) \in Nat
  BY <1>2 DEF Keeps
<1>4. Lo(w) \in Keeps(w) /\ \A n \in Keeps(w) : Lo(w) <= n
  <2>1. \E m \in Keeps(w) : \A n \in Keeps(w) : m <= n
    BY <1>1, <1>3, Flat!Least
  <2> QED BY <2>1 DEF Lo
<1>5. Hi(w) \in Keeps(w) /\ \A n \in Keeps(w) : n <= Hi(w)
  <2>1. \E m \in Keeps(w) : \A n \in Keeps(w) : m >= n
    BY <1>1, <1>3, Flat!Greatest
  <2>2. \E m \in Keeps(w) : \A n \in Keeps(w) : n <= m
    BY <1>3, <2>1
  <2> QED BY <2>2 DEF Hi
<1>6. \A m \in Keeps(w) : m \in w .. StopOf(outside, w) /\ Kept(outside[m])
  BY DEF Keeps
<1>7. /\ Lo(w) \in 1 .. Len(outside) /\ Hi(w) \in 1 .. Len(outside)
      /\ w <= Lo(w) /\ Lo(w) <= Hi(w) /\ Hi(w) <= StopOf(outside, w)
  BY <1>2, <1>4, <1>5, <1>6
<1>8. \A m \in Lo(w) .. Hi(w) : m \in w .. StopOf(outside, w)
  BY <1>2, <1>7
<1> QED BY <1>1, <1>2, <1>4, <1>5, <1>6, <1>7, <1>8

\* Words that share a position are one.
LEMMA WordsMeet ==
  ASSUME Settled, NEW v \in Begins(outside), NEW w \in Begins(outside),
         v <= StopOf(outside, w), w <= StopOf(outside, v)
  PROVE  v = w
<1>1. /\ v \in 1 .. Len(outside) /\ StopOf(outside, v) \in 1 .. Len(outside)
      /\ w \in 1 .. Len(outside) /\ StopOf(outside, w) \in 1 .. Len(outside)
  BY WordSpan
<1>2. (v < w => StopOf(outside, v) < w) /\ (w < v => StopOf(outside, w) < v)
  BY WordsApart DEF Settled
<1> QED BY <1>1, <1>2

\* Positions of the loose text and places in the query are in one order.
LEMMA WhereUp ==
  ASSUME Settled, NEW i \in 1 .. Len(outside), NEW j \in 1 .. Len(outside)
  PROVE  /\ Where[i] \in 1 .. Len(query) /\ Where[j] \in 1 .. Len(query)
         /\ Where[i] <= Where[j] <=> i <= j
         /\ Where[i] = Where[j] <=> i = j
         /\ Where[i] < Where[j] <=> i < j
<1>1. /\ Len(outside) \in Nat /\ Len(query) \in Nat
      /\ Where[i] \in 1 .. Len(query) /\ Where[j] \in 1 .. Len(query)
      /\ (i < j => Where[i] < Where[j]) /\ (j < i => Where[j] < Where[i])
  BY Laid
<1> QED BY <1>1

KeptLoose == {i \in Loose : Kept(query[i])}

LEMMA InsideIs ==
  Inside = {p \in KeptLoose \X KeptLoose : p[1] <= p[2] /\ p[1] .. p[2] \subseteq Loose}
BY DEF Inside, KeptLoose

\* The kept part of a word is a stretch.
LEMMA SpanInside ==
  ASSUME Settled, NEW w \in Starts
  PROVE  Span(w) \in Inside
<1> DEFINE a == Where[Lo(w)]
           b == Where[Hi(w)]
<1>1. /\ Lo(w) \in 1 .. Len(outside) /\ Hi(w) \in 1 .. Len(outside) /\ Lo(w) <= Hi(w)
      /\ Kept(outside[Lo(w)]) /\ Kept(outside[Hi(w)])
      /\ \A m \in Lo(w) .. Hi(w) : ~Blank(outside[m])
  BY KeptSpan
<1>2. a .. b \subseteq Loose
  BY <1>1, LooseStretch
<1>3. a <= b
  BY <1>1, WhereUp
<1>4. ~Blank(outside[Lo(w)]) /\ ~Blank(outside[Hi(w)])
  <2>1. Lo(w) \in Lo(w) .. Hi(w) /\ Hi(w) \in Lo(w) .. Hi(w)
    BY <1>1
  <2> QED BY <1>1, <2>1
<1>5. a \in KeptLoose /\ b \in KeptLoose
  BY <1>1, <1>4, LooseIndex DEF KeptLoose
<1> HIDE DEF a, b
<1>6. Pair(a, b) \in KeptLoose \X KeptLoose /\ Pair(a, b)[1] = a /\ Pair(a, b)[2] = b
  BY <1>5, PairOf, PairIs
<1>7. Pair(a, b) \in Inside
  <2> DEFINE p == Pair(a, b)
  <2>1. p \in KeptLoose \X KeptLoose /\ p[1] <= p[2] /\ p[1] .. p[2] \subseteq Loose
    BY <1>2, <1>3, <1>6
  <2> HIDE DEF p
  <2>2. p \in Inside
    BY <2>1, InsideIs
  <2> QED BY <2>2 DEF p
<1> QED BY <1>7 DEF Span, a, b

\* And each stretch lies in one.
LEMMA InsideSpan ==
  ASSUME Settled, NEW p \in Inside
  PROVE  /\ p = Pair(p[1], p[2]) /\ p[1] \in Int /\ p[2] \in Int /\ p[1] <= p[2]
         /\ \E w \in Starts : Where[Lo(w)] <= p[1] /\ p[2] <= Where[Hi(w)]
<1> DEFINE a == p[1]
           b == p[2]
<1>1. p \in KeptLoose \X KeptLoose /\ a <= b /\ a .. b \subseteq Loose
  BY InsideIs
<1>2. a \in KeptLoose /\ b \in KeptLoose /\ p = Pair(a, b)
  BY <1>1, PairIn
<1> HIDE DEF a, b
<1>3. a \in Loose /\ b \in Loose /\ Kept(query[a]) /\ Kept(query[b])
  BY <1>2 DEF KeptLoose
<1>4. PICK i \in 1 .. Len(outside) : Where[i] = a
  BY <1>3, LooseIndex
<1>5. PICK j \in 1 .. Len(outside) : Where[j] = b
  BY <1>3, LooseIndex
<1>6. i <= j /\ a \in Int /\ b \in Int
  BY <1>1, <1>4, <1>5, WhereUp
<1>7. \A m \in i .. j : ~Blank(outside[m])
  BY <1>1, <1>4, <1>5, <1>6, LooseStretch
<1>8. i \in i .. j /\ j \in i .. j /\ j \in i .. Len(outside)
  BY <1>6, Laid
<1>9. PICK w \in Begins(outside) : w <= i /\ i <= StopOf(outside, w) /\ j <= StopOf(outside, w)
  <2>1. outside \in Text /\ ~Blank(outside[i])
    BY <1>7, <1>8 DEF Settled
  <2>2. PICK w \in Begins(outside) :
          /\ w <= i /\ i <= StopOf(outside, w)
          /\ \A k \in i .. Len(outside) : (\A m \in i .. k : ~Blank(outside[m])) => k <= StopOf(outside, w)
    BY <2>1, WordAround
  <2>3. j <= StopOf(outside, w)
    BY <1>7, <1>8, <2>2
  <2> QED BY <2>2, <2>3
<1>10. i \in Keeps(w) /\ j \in Keeps(w)
  <2>1. w \in 1 .. Len(outside) /\ StopOf(outside, w) \in 1 .. Len(outside)
    BY WordSpan
  <2>2. i \in w .. StopOf(outside, w) /\ j \in w .. StopOf(outside, w)
    BY <1>6, <1>9, <2>1
  <2>3. outside[i] = query[a] /\ outside[j] = query[b]
    BY <1>4, <1>5, <1>7, <1>8, LooseIndex
  <2> QED BY <1>3, <2>2, <2>3 DEF Keeps
<1>11. w \in Starts
  BY <1>10 DEF Starts
<1>12. Lo(w) <= i /\ j <= Hi(w) /\ Lo(w) \in 1 .. Len(outside) /\ Hi(w) \in 1 .. Len(outside)
  BY <1>10, <1>11, KeptSpan
<1>13. Where[Lo(w)] <= Where[i] /\ Where[j] <= Where[Hi(w)]
  BY <1>12, WhereUp
<1> QED BY <1>1, <1>2, <1>4, <1>5, <1>6, <1>11, <1>13 DEF a, b

\* A stretch around the kept part of a word is that part.
LEMMA SpanLongest ==
  ASSUME Settled, NEW w \in Starts, NEW p \in Inside,
         Span(w)[1] .. Span(w)[2] \subseteq p[1] .. p[2]
  PROVE  Span(w) = p
<1> DEFINE a == Where[Lo(w)]
           b == Where[Hi(w)]
<1>1. /\ w \in Begins(outside) /\ Lo(w) \in 1 .. Len(outside) /\ Hi(w) \in 1 .. Len(outside)
      /\ w <= Lo(w) /\ Lo(w) <= Hi(w) /\ Hi(w) <= StopOf(outside, w) /\ w \in 1 .. Len(outside)
  BY KeptSpan
<1>2. a \in Int /\ b \in Int /\ a <= b
  BY <1>1, WhereUp
<1>3. Span(w)[1] = a /\ Span(w)[2] = b /\ Span(w) = Pair(a, b)
  BY PairIs DEF Span
<1> HIDE DEF a, b
<1>4. p = Pair(p[1], p[2]) /\ p[1] \in Int /\ p[2] \in Int /\ p[1] <= p[2]
  BY InsideSpan
<1>5. PICK v \in Starts : Where[Lo(v)] <= p[1] /\ p[2] <= Where[Hi(v)]
  BY InsideSpan
<1>6. p[1] <= a /\ b <= p[2]
  <2>1. a \in a .. b /\ b \in a .. b
    BY <1>2
  <2>2. a \in p[1] .. p[2] /\ b \in p[1] .. p[2]
    BY <1>3, <2>1
  <2> QED BY <1>4, <2>2
<1>7. /\ v \in Begins(outside) /\ Lo(v) \in 1 .. Len(outside) /\ Hi(v) \in 1 .. Len(outside)
      /\ v <= Lo(v) /\ Lo(v) <= Hi(v) /\ Hi(v) <= StopOf(outside, v) /\ v \in 1 .. Len(outside)
  BY KeptSpan
<1>8. Lo(v) <= Lo(w) /\ Hi(w) <= Hi(v)
  <2>1. Where[Lo(v)] \in Int /\ Where[Hi(v)] \in Int
    BY <1>7, WhereUp
  <2>2. Where[Lo(v)] <= Where[Lo(w)] /\ Where[Hi(w)] <= Where[Hi(v)]
    BY <1>2, <1>4, <1>5, <1>6, <2>1 DEF a, b
  <2> QED BY <1>1, <1>7, <2>2, WhereUp
<1>9. v = w
  <2>1. StopOf(outside, v) \in 1 .. Len(outside) /\ StopOf(outside, w) \in 1 .. Len(outside)
    BY <1>1, <1>7, WordSpan
  <2>2. v <= StopOf(outside, w) /\ w <= StopOf(outside, v)
    BY <1>1, <1>7, <1>8, <2>1
  <2> QED BY <1>1, <1>7, <2>2, WordsMeet
<1>10. a = p[1] /\ b = p[2]
  <2>1. a <= p[1] /\ p[2] <= b
    BY <1>5, <1>9 DEF a, b
  <2> QED BY <1>2, <1>4, <1>6, <2>1
<1> QED BY <1>3, <1>4, <1>10

LEMMA LongestIs ==
  Longest = {p \in Inside : \A q \in Inside : p[1] .. p[2] \subseteq q[1] .. q[2] => p = q}
BY DEF Longest

LEMMA LongestAre ==
  ASSUME Settled
  PROVE  /\ \A w \in Starts : Span(w) \in Longest
         /\ \A p \in Longest : \E w \in Starts : p = Span(w)
<1>1. ASSUME NEW w \in Starts
      PROVE  Span(w) \in Longest
  <2>1. Span(w) \in Inside
    BY SpanInside
  <2>2. \A q \in Inside : Span(w)[1] .. Span(w)[2] \subseteq q[1] .. q[2] => Span(w) = q
    BY SpanLongest
  <2> QED BY <2>1, <2>2, LongestIs
<1>2. ASSUME NEW p \in Longest
      PROVE  \E w \in Starts : p = Span(w)
  <2>1. p \in Inside /\ \A q \in Inside : p[1] .. p[2] \subseteq q[1] .. q[2] => p = q
    BY LongestIs
  <2>2. p[1] \in Int /\ p[2] \in Int
    BY <2>1, InsideSpan
  <2>3. PICK w \in Starts : Where[Lo(w)] <= p[1] /\ p[2] <= Where[Hi(w)]
    BY <2>1, InsideSpan
  <2>4. Span(w) \in Inside
    BY SpanInside
  <2>5. Span(w)[1] = Where[Lo(w)] /\ Span(w)[2] = Where[Hi(w)]
    BY PairIs DEF Span
  <2>6. Span(w)[1] \in Int /\ Span(w)[2] \in Int
    BY <2>4, InsideSpan
  <2>7. p[1] .. p[2] \subseteq Span(w)[1] .. Span(w)[2]
    BY <2>2, <2>3, <2>5, <2>6
  <2> QED BY <2>1, <2>4, <2>7
<1> QED BY <1>1, <1>2

\* Where in the query the stretches begin.
Froms == {p[1] : p \in Longest}

LEMMA FromsAre ==
  ASSUME Settled
  PROVE  /\ \A x : x \in Froms <=> \E w \in Starts : x = Where[Lo(w)]
         /\ Froms \in SUBSET (1 .. Len(query)) /\ ListsUp(From, Froms) /\ Len(From) \in Nat
         /\ \A k \in 1 .. Len(From) : From[k] \in Froms
<1>1. \A w \in Starts : Span(w)[1] = Where[Lo(w)]
  BY PairIs DEF Span
<1>2. \A x : x \in Froms <=> \E w \in Starts : x = Where[Lo(w)]
  <2>1. \A x : x \in Froms <=> \E p \in Longest : x = p[1]
    BY DEF Froms
  <2> QED BY <1>1, <2>1, LongestAre
<1>3. \A w \in Starts : Where[Lo(w)] \in 1 .. Len(query)
  BY KeptSpan, Laid
<1>4. Froms \in SUBSET (1 .. Len(query))
  BY <1>2, <1>3
<1>5. IsFiniteSet(Froms) /\ Froms \in SUBSET Int
  <2>1. Len(query) \in Nat
    BY Laid
  <2>2. IsFiniteSet(1 .. Len(query))
    BY <2>1, FS_Interval
  <2>3. IsFiniteSet(Froms)
    BY <1>4, <2>2, FS_Subset
  <2>4. Froms \in SUBSET Int
    BY <1>4
  <2> QED BY <2>3, <2>4
<1>6. ListsUp(From, Froms)
  BY <1>5, AscendingIsListing DEF From, Froms
<1>7. Len(From) \in Nat /\ \A k \in 1 .. Len(From) : From[k] \in Froms
  BY <1>6, LenProperties, ElementOfSeq DEF ListsUp
<1> QED BY <1>2, <1>4, <1>6, <1>7

\* The stretches, word by word.
LEMMA StretchIs ==
  ASSUME Settled
  PROVE  /\ Len(Stretches) = Len(From) /\ DOMAIN Stretches = 1 .. Len(From)
         /\ \A k \in 1 .. Len(From) : \A w \in Starts :
              From[k] = Where[Lo(w)] => Stretches[k] = SubSeq(outside, Lo(w), Hi(w))
<1>1. Len(From) \in Nat /\ DOMAIN From = 1 .. Len(From)
  <2>1. ListsUp(From, Froms)
    BY FromsAre
  <2> QED BY <2>1, LenProperties DEF ListsUp
<1> DEFINE end(k) == (CHOOSE p \in Longest : p[1] = From[k])[2]
<1>2. Stretches = [k \in 1 .. Len(From) |-> SubSeq(query, From[k], end(k))]
  BY <1>1 DEF Stretches, From
<1> HIDE DEF end
<1>3. DOMAIN Stretches = 1 .. Len(From)
  BY <1>2
<1>4. Len(Stretches) = Len(From)
  <2>1. \A k \in 1 .. Len(From) : SubSeq(query, From[k], end(k)) \in {SubSeq(query, From[j], end(j)) : j \in 1 .. Len(From)}
    OBVIOUS
  <2> DEFINE R == {SubSeq(query, From[j], end(j)) : j \in 1 .. Len(From)}
  <2>2. Stretches \in Seq(R)
    <3> HIDE DEF R
    <3>1. \A k \in 1 .. Len(From) : SubSeq(query, From[k], end(k)) \in R
      BY <2>1 DEF R
    <3> QED BY <1>1, <1>2, <3>1, IsASeq
  <2> HIDE DEF R
  <2> QED BY <1>1, <1>3, <2>2, LenProperties
<1>5. ASSUME NEW k \in 1 .. Len(From), NEW w \in Starts, From[k] = Where[Lo(w)]
      PROVE  Stretches[k] = SubSeq(outside, Lo(w), Hi(w))
  <2>1. /\ w \in Begins(outside) /\ Lo(w) \in 1 .. Len(outside) /\ Hi(w) \in 1 .. Len(outside)
        /\ Lo(w) <= Hi(w) /\ \A m \in Lo(w) .. Hi(w) : ~Blank(outside[m])
    BY KeptSpan
  <2>2. Span(w) \in Longest /\ Span(w)[1] = From[k] /\ Span(w)[2] = Where[Hi(w)]
    BY <1>5, LongestAre, PairIs DEF Span
  <2>3. ASSUME NEW p \in Longest, p[1] = From[k]
        PROVE  p = Span(w)
    <3>1. PICK v \in Starts : p = Span(v)
      BY LongestAre
    <3>2. Span(v)[1] = Where[Lo(v)]
      BY PairIs DEF Span
    <3>3. /\ v \in Begins(outside) /\ Lo(v) \in 1 .. Len(outside)
          /\ v <= Lo(v) /\ Lo(v) <= Hi(v) /\ Hi(v) <= StopOf(outside, v)
          /\ v \in 1 .. Len(outside) /\ Hi(v) \in 1 .. Len(outside)
          /\ w <= Lo(w) /\ Lo(w) <= Hi(w) /\ Hi(w) <= StopOf(outside, w) /\ w \in 1 .. Len(outside)
      BY KeptSpan
    <3>4. Lo(v) = Lo(w)
      BY <1>5, <2>1, <2>3, <3>1, <3>2, <3>3, WhereUp
    <3>5. StopOf(outside, v) \in 1 .. Len(outside) /\ StopOf(outside, w) \in 1 .. Len(outside)
      BY <2>1, <3>3, WordSpan
    <3>6. v <= StopOf(outside, w) /\ w <= StopOf(outside, v)
      BY <2>1, <3>3, <3>4, <3>5
    <3>7. v = w
      BY <2>1, <3>3, <3>6, WordsMeet
    <3> QED BY <3>1, <3>7
  <2>4. (CHOOSE p \in Longest : p[1] = From[k]) = Span(w)
    BY <2>2, <2>3
  <2>5. end(k) = Where[Hi(w)]
    BY <2>2, <2>4 DEF end
  <2>6. Stretches[k] = SubSeq(query, Where[Lo(w)], Where[Hi(w)])
    BY <1>2, <1>5, <2>5
  <2> QED BY <2>1, <2>6, SameText
<1> QED BY <1>3, <1>4, <1>5

\* A word trimmed is what it keeps.
LEMMA TrimmedWord ==
  ASSUME Settled, NEW w \in Begins(outside)
  PROVE  LET word == SubSeq(outside, w, StopOf(outside, w))
         IN  /\ w \notin Starts => Trimmed(word) = <<>>
             /\ w \in Starts => /\ Trimmed(word) = SubSeq(outside, Lo(w), Hi(w))
                                /\ Trimmed(word) # <<>>
<1> DEFINE e == StopOf(outside, w)
           word == SubSeq(outside, w, e)
           kept == {i \in DOMAIN word : Kept(word[i])}
           first == CHOOSE i \in kept : \A j \in kept : i <= j
           last  == CHOOSE i \in kept : \A j \in kept : i >= j
<1>1. w \in 1 .. Len(outside) /\ e \in 1 .. Len(outside) /\ w <= e /\ Len(outside) \in Nat
  BY WordSpan, Laid
<1>2. outside \in Seq(Nat)
  BY DEF Settled, Text
<1>3. Trimmed(word) = IF kept = {} THEN <<>> ELSE SubSeq(word, first, last)
  BY DEF Trimmed
<1> HIDE DEF e
<1>4. /\ word \in Seq(Nat) /\ Len(word) = e - w + 1
      /\ \A k \in 1 .. e - w + 1 : word[k] = outside[w + k - 1]
  <2>1. w \in 1 .. Len(outside) + 1 /\ e \in w - 1 .. Len(outside)
    BY <1>1
  <2>2. /\ word \in Seq(Nat) /\ Len(word) = IF w <= e THEN e - w + 1 ELSE 0
        /\ \A k \in 1 .. e - w + 1 : word[k] = outside[w + k - 1]
    BY <1>2, <2>1, SubSeqProperties
  <2> QED BY <1>1, <2>2
<1>5. DOMAIN word = 1 .. e - w + 1
  BY <1>4, LenProperties
<1> HIDE DEF word
<1>6. \A k \in 1 .. e - w + 1 : k \in kept <=> w + k - 1 \in Keeps(w)
  <2> TAKE k \in 1 .. e - w + 1
  <2>1. w + k - 1 \in w .. StopOf(outside, w)
    BY <1>1 DEF e
  <2> QED BY <1>4, <1>5, <2>1 DEF Keeps
<1>7. kept \in SUBSET (1 .. e - w + 1)
  BY <1>5
<1> HIDE DEF kept
<1>8. \A m \in Keeps(w) : m - w + 1 \in kept /\ w + (m - w + 1) - 1 = m
  <2> TAKE m \in Keeps(w)
  <2>1. m \in w .. e
    BY DEF Keeps, e
  <2>2. m - w + 1 \in 1 .. e - w + 1 /\ w + (m - w + 1) - 1 = m
    BY <1>1, <2>1
  <2> QED BY <1>6, <2>2
<1>9. ASSUME w \notin Starts
      PROVE  Trimmed(word) = <<>>
  <2>1. Keeps(w) = {}
    BY <1>9 DEF Starts
  <2>2. kept = {}
    BY <1>6, <1>7, <2>1
  <2> QED BY <1>3, <2>2
<1>10. ASSUME w \in Starts
       PROVE  /\ Trimmed(word) = SubSeq(outside, Lo(w), Hi(w))
              /\ Trimmed(word) # <<>>
  <2>1. /\ Lo(w) \in 1 .. Len(outside) /\ Hi(w) \in 1 .. Len(outside)
        /\ Lo(w) \in Keeps(w) /\ Hi(w) \in Keeps(w)
        /\ w <= Lo(w) /\ Lo(w) <= Hi(w) /\ Hi(w) <= e
        /\ \A n \in Keeps(w) : Lo(w) <= n /\ n <= Hi(w)
    BY <1>10, KeptSpan DEF e
  <2> DEFINE f == Lo(w) - w + 1
             l == Hi(w) - w + 1
  <2>2. /\ f \in kept /\ l \in kept /\ f \in 1 .. e - w + 1 /\ l \in 1 .. e - w + 1 /\ f <= l
        /\ w + f - 1 = Lo(w) /\ w + l - 1 = Hi(w)
    <3>1. f \in kept /\ l \in kept
      BY <1>8, <2>1
    <3>2. f \in 1 .. e - w + 1 /\ l \in 1 .. e - w + 1 /\ f <= l
          /\ w + f - 1 = Lo(w) /\ w + l - 1 = Hi(w)
      BY <1>1, <2>1
    <3> QED BY <3>1, <3>2
  <2>3. \A k \in kept : f <= k /\ k <= l
    <3> TAKE k \in kept
    <3>1. k \in 1 .. e - w + 1 /\ w + k - 1 \in Keeps(w)
      BY <1>6, <1>7
    <3>2. Lo(w) <= w + k - 1 /\ w + k - 1 <= Hi(w)
      BY <2>1, <3>1
    <3> QED BY <1>1, <2>1, <3>1, <3>2
  <2> HIDE DEF f, l
  <2>4. first = f
    <3>1. \A i \in kept : (\A j \in kept : i <= j) => i = f
      <4> SUFFICES ASSUME NEW i \in kept, \A j \in kept : i <= j
                   PROVE  i = f
        OBVIOUS
      <4>1. i <= f /\ f <= i /\ i \in Int /\ f \in Int
        BY <1>7, <2>2, <2>3
      <4> QED BY <4>1
    <3>2. f \in kept /\ \A j \in kept : f <= j
      BY <2>2, <2>3
    <3> QED BY <3>1, <3>2
  <2>5. last = l
    <3>1. \A i \in kept : (\A j \in kept : i >= j) => i = l
      <4> SUFFICES ASSUME NEW i \in kept, \A j \in kept : i >= j
                   PROVE  i = l
        OBVIOUS
      <4>1. i >= l /\ i <= l /\ i \in Int /\ l \in Int
        BY <1>7, <2>2, <2>3
      <4> QED BY <4>1
    <3>2. l \in kept /\ \A j \in kept : l >= j
      <4>1. \A j \in kept : j \in Int /\ l \in Int
        BY <1>7, <2>2
      <4> QED BY <2>2, <2>3, <4>1
    <3> QED BY <3>1, <3>2
  <2>6. Trimmed(word) = SubSeq(word, f, l)
    BY <1>3, <2>2, <2>4, <2>5
  <2>7. SubSeq(word, f, l) = SubSeq(outside, Lo(w), Hi(w))
    <3>1. SubSeq(SubSeq(outside, w, e), f, l) = SubSeq(outside, w + f - 1, w + l - 1)
      BY <1>1, <1>2, <2>2, SubSeqOfSubSeq
    <3> QED BY <2>2, <3>1 DEF word
  <2>8. SubSeq(outside, Lo(w), Hi(w)) # <<>>
    <3>1. Lo(w) \in 1 .. Len(outside) + 1 /\ Hi(w) \in Lo(w) - 1 .. Len(outside)
      BY <1>1, <2>1
    <3>2. Len(SubSeq(outside, Lo(w), Hi(w))) = IF Lo(w) <= Hi(w) THEN Hi(w) - Lo(w) + 1 ELSE 0
      BY <1>2, <3>1, SubSeqProperties
    <3>3. Len(SubSeq(outside, Lo(w), Hi(w))) # 0
      BY <2>1, <3>2
    <3>4. Len(<<>>) = 0
      OBVIOUS
    <3> QED BY <3>3, <3>4
  <2> QED BY <2>6, <2>7, <2>8
<1> QED BY <1>9, <1>10 DEF word, e

\* From the begin of a word to the begin of the next one at most one stretch
\* begins: that of the word.
LEMMA WordMark ==
  ASSUME Settled, NEW k \in 1 .. Len(First(outside))
  PROVE  LET w == First(outside)[k]
         IN  /\ w \in Begins(outside)
             /\ Mark(k) \in Int /\ Mark(k + 1) \in Int /\ Mark(k) <= Mark(k + 1)
             /\ \A x \in Froms : Mark(k) <= x /\ x < Mark(k + 1) => w \in Starts /\ x = Where[Lo(w)]
             /\ w \in Starts => /\ Where[Lo(w)] \in Froms /\ Mark(k) <= Where[Lo(w)]
                                /\ Where[Lo(w)] < Mark(k + 1)
<1> DEFINE n == Len(First(outside))
           first == First(outside)
           w == first[k]
<1>1. outside \in Text /\ Len(outside) \in Nat /\ Len(query) \in Nat
  BY Laid DEF Settled
<1>2. /\ n \in Nat /\ \A i \in 1 .. n : first[i] \in Begins(outside)
      /\ \A v \in Begins(outside) : \E i \in 1 .. n : first[i] = v
      /\ \A i, j \in 1 .. n : i < j => first[i] < first[j]
  <2>1. ListsUp(first, Begins(outside))
    BY <1>1, WordsAreSlices
  <2> QED BY <2>1, LenProperties, ElementOfSeq DEF ListsUp
<1>3. k \in 1 .. n
  OBVIOUS
<1> HIDE DEF first, n
<1>4. \A i \in 1 .. n : /\ first[i] \in 1 .. Len(outside) /\ StopOf(outside, first[i]) \in 1 .. Len(outside)
                        /\ first[i] <= StopOf(outside, first[i])
  BY <1>2, WordSpan
<1>5. \A i, j \in 1 .. n : i < j => StopOf(outside, first[i]) < first[j]
  BY <1>1, <1>2, WordsApart
<1>6. Mark(k) = Where[w] /\ Mark(k + 1) = IF k + 1 <= n THEN Where[first[k + 1]] ELSE Len(query) + 1
  BY <1>2, <1>3 DEF Mark, first, n
<1>7. w \in Begins(outside) /\ w \in 1 .. Len(outside)
  BY <1>2, <1>3, <1>4
<1>8. Where[w] \in 1 .. Len(query)
  BY <1>7, WhereUp
<1>9. ASSUME NEW m \in 1 .. Len(outside), m <= StopOf(outside, w)
      PROVE  Where[m] < Mark(k + 1)
  <2>1. CASE k + 1 <= n
    <3>1. k + 1 \in 1 .. n /\ k < k + 1
      BY <1>2, <1>3, <2>1
    <3>2. StopOf(outside, w) < first[k + 1] /\ first[k + 1] \in 1 .. Len(outside)
          /\ StopOf(outside, w) \in 1 .. Len(outside)
      BY <1>3, <1>4, <1>5, <3>1
    <3>3. m < first[k + 1]
      BY <1>9, <3>2
    <3> QED BY <1>6, <2>1, <3>2, <3>3, WhereUp
  <2>2. CASE ~(k + 1 <= n)
    <3>1. Where[m] \in 1 .. Len(query)
      BY WhereUp
    <3> QED BY <1>1, <1>6, <2>2, <3>1
  <2> QED BY <2>1, <2>2
<1>10. Mark(k) \in Int /\ Mark(k + 1) \in Int
  <2>1. CASE k + 1 <= n
    <3>1. first[k + 1] \in 1 .. Len(outside)
      BY <1>2, <1>3, <1>4, <2>1
    <3>2. Where[first[k + 1]] \in Int
      BY <3>1, WhereUp
    <3> QED BY <1>6, <1>8, <2>1, <3>2
  <2>2. CASE ~(k + 1 <= n)
    BY <1>1, <1>6, <1>8, <2>2
  <2> QED BY <2>1, <2>2
<1>11. Mark(k) <= Mark(k + 1)
  <2>1. Where[w] < Mark(k + 1)
    BY <1>3, <1>4, <1>7, <1>9
  <2> QED BY <1>6, <1>10, <2>1
<1>12. ASSUME NEW x \in Froms, Mark(k) <= x, x < Mark(k + 1)
       PROVE  w \in Starts /\ x = Where[Lo(w)]
  <2>1. PICK v \in Starts : x = Where[Lo(v)]
    BY FromsAre
  <2>2. /\ v \in Begins(outside) /\ Lo(v) \in 1 .. Len(outside) /\ v <= Lo(v)
        /\ Lo(v) <= Hi(v) /\ Hi(v) <= StopOf(outside, v) /\ Hi(v) \in 1 .. Len(outside)
        /\ v \in 1 .. Len(outside)
    BY KeptSpan
  <2>3. PICK i \in 1 .. n : first[i] = v
    BY <1>2, <2>2
  <2>4. Lo(v) <= StopOf(outside, v) /\ StopOf(outside, v) \in 1 .. Len(outside)
    BY <1>4, <2>2, <2>3
  <2>5. ~(i < k)
    <3> SUFFICES ASSUME i < k
                 PROVE  FALSE
      OBVIOUS
    <3>1. StopOf(outside, v) < w
      BY <1>3, <1>5, <2>3
    <3>2. Lo(v) < w
      BY <1>7, <2>2, <2>4, <3>1
    <3>3. x < Where[w] /\ Where[w] \in Int /\ x \in Int
      BY <1>7, <2>1, <2>2, <3>2, WhereUp
    <3> QED BY <1>6, <1>12, <3>3
  <2>6. ~(k < i)
    <3> SUFFICES ASSUME k < i
                 PROVE  FALSE
      OBVIOUS
    <3>1. k + 1 <= n /\ k + 1 \in 1 .. n /\ (k + 1 < i \/ k + 1 = i)
      BY <1>2, <1>3
    <3>2. first[k + 1] <= v /\ first[k + 1] \in 1 .. Len(outside)
      BY <1>2, <1>4, <2>2, <2>3, <3>1, SMTT(30)
    <3>3. first[k + 1] <= Lo(v)
      BY <2>2, <3>2
    <3>4. Where[first[k + 1]] <= x /\ Where[first[k + 1]] \in Int /\ x \in Int
      BY <2>1, <2>2, <3>2, <3>3, WhereUp
    <3> QED BY <1>6, <1>12, <3>1, <3>4
  <2>7. i = k
    BY <1>2, <1>3, <2>5, <2>6
  <2> QED BY <2>1, <2>3, <2>7
<1>13. ASSUME w \in Starts
       PROVE  /\ Where[Lo(w)] \in Froms /\ Mark(k) <= Where[Lo(w)]
              /\ Where[Lo(w)] < Mark(k + 1)
  <2>1. /\ Lo(w) \in 1 .. Len(outside) /\ w <= Lo(w) /\ Lo(w) <= StopOf(outside, w)
    <3>1. /\ Lo(w) \in 1 .. Len(outside) /\ w <= Lo(w) /\ Lo(w) <= Hi(w)
          /\ Hi(w) \in 1 .. Len(outside) /\ Hi(w) <= StopOf(outside, w)
      BY <1>13, KeptSpan
    <3>2. StopOf(outside, w) \in 1 .. Len(outside)
      BY <1>3, <1>4
    <3> QED BY <3>1, <3>2
  <2>2. Where[w] <= Where[Lo(w)]
    BY <1>7, <2>1, WhereUp
  <2> QED BY <1>6, <1>9, <1>13, <2>1, <2>2, FromsAre
<1> QED BY <1>7, <1>10, <1>11, <1>12, <1>13 DEF first

\* How many phrases and stretches a query has.
LEMMA Counts ==
  ASSUME query \in Text
  PROVE  /\ Len(Quotes) \in Nat /\ Len(Quotes) \div 2 \in Nat
         /\ Len(Phrases) = Len(Quotes) \div 2 /\ DOMAIN Phrases = 1 .. Len(Quotes) \div 2
         /\ \A k \in 1 .. Len(Quotes) \div 2 :
              Phrases[k] = SubSeq(query, Quotes[2 * k - 1] + 1, Quotes[2 * k] - 1)
         /\ Len(Stretches) \in Nat /\ DOMAIN Stretches = 1 .. Len(Stretches)
<1>1. Len(Quotes) \in Nat
  BY Listings
<1>2. Len(Quotes) \div 2 \in Nat
  BY <1>1
<1> DEFINE n == Len(Quotes) \div 2
           phrase_at(k) == SubSeq(query, Quotes[2 * k - 1] + 1, Quotes[2 * k] - 1)
<1>3. Phrases = [k \in 1 .. n |-> phrase_at(k)]
  BY DEF Phrases, Pairs
<1> HIDE DEF n, phrase_at
<1>4. DOMAIN Phrases = 1 .. n /\ \A k \in 1 .. n : Phrases[k] = phrase_at(k)
  BY <1>3
<1>5. \A f, m : m \in Nat /\ f = [k \in 1 .. m |-> f[k]] => Len(f) = m
  <2> TAKE f, m
  <2> HAVE m \in Nat /\ f = [k \in 1 .. m |-> f[k]]
  <2> DEFINE R == {f[k] : k \in 1 .. m}
  <2>1. \A k \in 1 .. m : f[k] \in R
    OBVIOUS
  <2> HIDE DEF R
  <2>2. [k \in 1 .. m |-> f[k]] \in Seq(R)
    BY <2>1, IsASeq
  <2>3. f \in Seq(R) /\ DOMAIN f = 1 .. m
    BY <2>2
  <2> QED BY <2>3, LenProperties
<1>6. Len(Phrases) = n
  <2>1. Phrases = [k \in 1 .. n |-> Phrases[k]]
    BY <1>3
  <2>2. n \in Nat
    BY <1>2 DEF n
  <2> QED BY <1>5, <2>1, <2>2
<1>7. Len(From) \in Nat /\ DOMAIN From = 1 .. Len(From)
  <2>1. Froms \in SUBSET Loose
    <3>1. ASSUME NEW p \in Longest
          PROVE  p[1] \in Loose
      <4>1. p \in KeptLoose \X KeptLoose
        BY LongestIs, InsideIs
      <4>2. p[1] \in KeptLoose
        BY <4>1, PairIn
      <4> QED BY <4>2 DEF KeptLoose
    <3> QED BY <3>1 DEF Froms
  <2>2. Loose \in SUBSET (1 .. Len(query)) /\ Len(query) \in Nat
    BY Listings DEF Loose
  <2>3. IsFiniteSet(1 .. Len(query))
    BY <2>2, FS_Interval
  <2>4. Froms \in SUBSET (1 .. Len(query))
    BY <2>1, <2>2
  <2>5. IsFiniteSet(Froms)
    BY <2>3, <2>4, FS_Subset
  <2>6. Froms \in SUBSET Int
    BY <2>4
  <2>7. ListsUp(From, Froms)
    BY <2>5, <2>6, AscendingIsListing DEF From, Froms
  <2> QED BY <2>7, LenProperties DEF ListsUp
<1>8. Len(Stretches) \in Nat /\ DOMAIN Stretches = 1 .. Len(Stretches)
  <2> DEFINE stretch_at(k) == SubSeq(query, From[k], (CHOOSE p \in Longest : p[1] = From[k])[2])
  <2>1. Stretches = [k \in 1 .. Len(From) |-> stretch_at(k)]
    BY <1>7 DEF Stretches, From
  <2> HIDE DEF stretch_at
  <2>2. Stretches = [k \in 1 .. Len(From) |-> Stretches[k]] /\ DOMAIN Stretches = 1 .. Len(From)
    BY <2>1
  <2>3. Len(Stretches) = Len(From)
    BY <1>5, <1>7, <2>2
  <2> QED BY <1>7, <2>2, <2>3
<1> QED BY <1>1, <1>2, <1>4, <1>6, <1>8 DEF n, phrase_at

\* Which stretches are identifiers, and which are not.
NamedSet(named) == {k \in 1 .. Len(Stretches) : is_identifier(Stretches[k]) <=> named}

LEMMA NamedLists ==
  ASSUME query \in Text, NEW named \in BOOLEAN
  PROVE  /\ ListsUp(NamedAt(named), NamedSet(named)) /\ NamedSet(named) \in SUBSET Int
         /\ NamedSet(named) \in SUBSET (1 .. Len(Stretches))
         /\ Len(NamedAt(named)) \in Nat
         /\ Those(Stretches, named)
              = [k \in 1 .. Len(NamedAt(named)) |-> Stretches[NamedAt(named)[k]]]
<1>1. Len(Stretches) \in Nat /\ DOMAIN Stretches = 1 .. Len(Stretches)
  BY Counts
<1>2. NamedSet(named) \in SUBSET (1 .. Len(Stretches)) /\ NamedSet(named) \in SUBSET Int
  BY DEF NamedSet
<1>3. IsFiniteSet(NamedSet(named))
  <2>1. IsFiniteSet(1 .. Len(Stretches))
    BY <1>1, FS_Interval
  <2> QED BY <1>2, <2>1, FS_Subset
<1>4. NamedAt(named) = Ascending(NamedSet(named))
  BY <1>1 DEF NamedAt, NamedSet
<1>5. ListsUp(NamedAt(named), NamedSet(named))
  BY <1>2, <1>3, <1>4, AscendingIsListing
<1>6. Len(NamedAt(named)) \in Nat /\ DOMAIN NamedAt(named) = 1 .. Len(NamedAt(named))
  BY <1>5, LenProperties DEF ListsUp
<1>7. Those(Stretches, named) = [k \in DOMAIN NamedAt(named) |-> Stretches[NamedAt(named)[k]]]
  BY DEF Those, NamedAt
<1> QED BY <1>2, <1>5, <1>6, <1>7

\* A stretch is on one of the two lists.
LEMMA NamedSplit ==
  ASSUME NEW k \in 1 .. Len(Stretches)
  PROVE  /\ is_identifier(Stretches[k]) => k \in NamedSet(TRUE) /\ k \notin NamedSet(FALSE)
         /\ ~is_identifier(Stretches[k]) => k \notin NamedSet(TRUE) /\ k \in NamedSet(FALSE)
BY DEF NamedSet

LEMMA SameMarks ==
  ASSUME query' = query, outside' = outside
  PROVE  \A k : Mark(k)' = Mark(k)
<1>1. Where' = Where
  BY SameQuery
<1> QED BY <1>1 DEF Mark

LEMMA HeardSettles ==
  ASSUME TypeInv, Heard
  PROVE  Settled
<1>1. query \in Text /\ outside \in Text /\ Len(quoted) \in Nat
  BY LenProperties DEF TypeInv
<1> QED BY <1>1 DEF Settled, Heard

LEMMA MarkPasses ==
  ASSUME NEW S \in SUBSET Int, NEW s, ListsUp(s, S), NEW c,
         NEW m \in Int, NEW n \in Int, m <= n, Marked(s, c, m),
         NEW x \in S, m <= x, x < n, \A y \in S : m <= y /\ y < n => y = x
  PROVE  c + 1 <= Len(s) /\ s[c + 1] = x /\ Marked(s, c + 1, n)
BY MarkMoves

\* The next word, and where the stretches are behind it.
LEMMA WordRead ==
  ASSUME PlanInv, TokenInv, AtToken
  PROVE  /\ Settled /\ Heard /\ Len(identifiers) \in Nat /\ Len(terms) \in Nat
         /\ identifiers \in Seq(Text) /\ terms \in Seq(Text)
         /\ Literal = <<>> => Marked(From, Len(identifiers) + Len(terms), Mark(next + 1))
         /\ Literal # <<>> =>
              /\ Len(identifiers) + Len(terms) + 1 \in 1 .. Len(Stretches)
              /\ Stretches[Len(identifiers) + Len(terms) + 1] = Literal
              /\ Marked(From, Len(identifiers) + Len(terms) + 1, Mark(next + 1))
<1> DEFINE c == Len(identifiers) + Len(terms)
           w == First(outside)[next]
<1>1. pc = "tokens" /\ next <= Len(Words(outside)) /\ next \in Nat \ {0}
      /\ identifiers \in Seq(Text) /\ terms \in Seq(Text) /\ TypeInv
  BY DEF AtToken, PlanInv, TypeInv
<1>2. Heard /\ Marked(From, c, Mark(next))
  BY <1>1 DEF TokenInv
<1>3. Settled
  BY <1>1, <1>2, HeardSettles
<1>4. Len(identifiers) \in Nat /\ Len(terms) \in Nat /\ c \in Nat
  BY <1>1, LenProperties
<1>5. /\ Len(Words(outside)) = Len(First(outside)) /\ ListsUp(First(outside), Begins(outside))
      /\ \A k \in 1 .. Len(Words(outside)) :
              Words(outside)[k] = SubSeq(outside, First(outside)[k], StopOf(outside, First(outside)[k]))
  BY <1>3, WordsAreSlices DEF Settled
<1>6. Len(First(outside)) \in Nat
  BY <1>5, LenProperties DEF ListsUp
<1>7. next \in 1 .. Len(First(outside))
  BY <1>1, <1>5, <1>6
<1>8. Literal = Trimmed(SubSeq(outside, w, StopOf(outside, w)))
  BY <1>5, <1>7 DEF Literal
<1>9. /\ w \in Begins(outside)
      /\ Mark(next) \in Int /\ Mark(next + 1) \in Int /\ Mark(next) <= Mark(next + 1)
      /\ \A x \in Froms : Mark(next) <= x /\ x < Mark(next + 1) => w \in Starts /\ x = Where[Lo(w)]
      /\ w \in Starts => /\ Where[Lo(w)] \in Froms /\ Mark(next) <= Where[Lo(w)]
                         /\ Where[Lo(w)] < Mark(next + 1)
  BY <1>3, <1>7, WordMark
<1> HIDE DEF c, w
<1>10. ListsUp(From, Froms) /\ Froms \in SUBSET Int /\ Len(Stretches) = Len(From) /\ Len(From) \in Nat
  BY <1>3, FromsAre, StretchIs
<1>11. ASSUME Literal = <<>>
       PROVE  Marked(From, c, Mark(next + 1))
  <2>1. w \notin Starts
    BY <1>3, <1>8, <1>9, <1>11, TrimmedWord
  <2>2. \A x \in Froms : ~(Mark(next) <= x /\ x < Mark(next + 1))
    BY <1>9, <2>1
  <2>3. Marked(From, c, Mark(next))
    BY <1>2 DEF c
  <2> QED BY <1>9, <1>10, <2>2, <2>3, MarkMoves
<1>12. ASSUME Literal # <<>>
       PROVE  c + 1 \in 1 .. Len(Stretches) /\ Stretches[c + 1] = Literal /\ Marked(From, c + 1, Mark(next + 1))
  <2>1. w \in Starts /\ Literal = SubSeq(outside, Lo(w), Hi(w))
    BY <1>3, <1>8, <1>9, <1>12, TrimmedWord
  <2> DEFINE x == Where[Lo(w)]
  <2>2. /\ x \in Froms /\ Mark(next) <= x /\ x < Mark(next + 1)
        /\ \A y \in Froms : Mark(next) <= y /\ y < Mark(next + 1) => y = x
    BY <1>9, <2>1
  <2> HIDE DEF x
  <2>3. Marked(From, c, Mark(next))
    BY <1>2 DEF c
  <2>4. c + 1 <= Len(From) /\ From[c + 1] = x /\ Marked(From, c + 1, Mark(next + 1))
    <3>1. /\ ListsUp(From, Froms) /\ Froms \in SUBSET Int
          /\ Mark(next) \in Int /\ Mark(next + 1) \in Int /\ Mark(next) <= Mark(next + 1)
          /\ x \in Froms /\ Mark(next) <= x /\ x < Mark(next + 1)
      BY <1>9, <1>10, <2>2
    <3>2. \A y \in Froms : Mark(next) <= y /\ y < Mark(next + 1) => y = x
      BY <2>2
    <3> QED BY <2>3, <3>1, <3>2, MarkPasses
  <2>5. c + 1 \in 1 .. Len(From) /\ c + 1 \in 1 .. Len(Stretches)
    BY <1>4, <1>10, <2>4
  <2>6. From[c + 1] = Where[Lo(w)]
    BY <2>4 DEF x
  <2>7. Stretches[c + 1] = SubSeq(outside, Lo(w), Hi(w))
    BY <1>3, <2>1, <2>5, <2>6, StretchIs
  <2> QED BY <2>1, <2>4, <2>5, <2>7
<1> QED BY <1>1, <1>2, <1>3, <1>4, <1>11, <1>12 DEF c

\* What has to hold of a query that parses.
Parses ==
  /\ Len(UTF8(query)) <= MAX_QUERY_BYTES
  /\ (Len(Quotes) % 2) = 0 /\ <<>> \notin ToSet(Phrases)
  /\ Len(Phrases) + Len(Stretches) \in 1 .. MAX_QUERY_LITERALS

ReadInv == PlanInv /\ HeardInv /\ LooseInv /\ TokenInv /\ ParsedExactly

LEMMA SameParses ==
  ASSUME query' = query
  PROVE  Parses' = Parses
<1>1. query' = query /\ Quotes' = Quotes /\ Phrases' = Phrases /\ Stretches' = Stretches
  BY SameQuery
<1> QED BY <1>1 DEF Parses

LEMMA StopReads ==
  ASSUME PlanInv, NEW result, result # "parsed", Stop(result), ~Parses
  PROVE  ReadInv'
<1>1. pc' = "done" /\ outcome' = result /\ query' = query
  BY DEF Stop
<1>2. PlanInv'
  BY StopKeeps
<1>3. HeardInv' /\ LooseInv' /\ TokenInv'
  BY <1>1 DEF HeardInv, LooseInv, TokenInv
<1>4. Parses' = Parses
  BY <1>1, SameParses
<1>5. ParsedExactly'
  BY <1>1, <1>4 DEF ParsedExactly, Parses
<1> QED BY <1>2, <1>3, <1>5 DEF ReadInv

LEMMA ReadInit == Init => ReadInv
<1> SUFFICES ASSUME Init
             PROVE  ReadInv
  OBVIOUS
<1>1. PlanInv
  BY PlanInit
<1>2. query \in Text
  BY <1>1 DEF PlanInv, TypeInv
<1>3. /\ ListsUp(Quotes, QuotesAt) /\ ListsUp(Where, Bare)
      /\ QuotesAt \in SUBSET Int /\ Bare \in SUBSET Int
      /\ (\A x \in QuotesAt : 1 <= x) /\ (\A x \in Bare : 1 <= x)
  BY <1>2, Listings DEF QuotesAt, Bare
<1>4. Marked(Quotes, 0, 1) /\ Marked(Where, 0, 1)
  BY <1>3, MarkEnds
<1>5. pc = "bytes" /\ next = 1 /\ in_quote = FALSE /\ outside = <<>> /\ phrase = <<>> /\ quoted = <<>>
  BY DEF Init
<1>6. Len(<<>>) = 0 /\ 2 * Len(<<>>) + (IF FALSE THEN 1 ELSE 0) = 0
  OBVIOUS
<1>7. \A k \in 1 .. Len(<<>>) : FALSE
  OBVIOUS
<1>8. HeardInv
  BY <1>4, <1>5, <1>6, <1>7 DEF HeardInv
<1>9. LooseInv
  BY <1>4, <1>5, <1>6, <1>7 DEF LooseInv
<1> QED BY <1>1, <1>5, <1>8, <1>9 DEF ReadInv, TokenInv, ParsedExactly

LEMMA ReadBytes ==
  ASSUME ReadInv, CheckBytes
  PROVE  ReadInv'
<1>0. PlanInv /\ HeardInv /\ LooseInv /\ query \in Text
  BY DEF ReadInv, PlanInv, TypeInv
<1>1. CASE Len(UTF8(query)) > MAX_QUERY_BYTES
  <2>1. Len(UTF8(query)) \in Nat /\ MAX_QUERY_BYTES \in Nat
    BY <1>0, UTF8Type, QueryLimitsAssumption DEF Size
  <2>2. ~(Len(UTF8(query)) <= MAX_QUERY_BYTES)
    BY <1>1, <2>1
  <2> QED BY <1>0, <1>1, <2>2, StopReads DEF CheckBytes, Parses
<1>2. CASE ~(Len(UTF8(query)) > MAX_QUERY_BYTES)
  <2>1. /\ pc = "bytes" /\ pc' = "chars" /\ query' = query /\ next' = next
        /\ in_quote' = in_quote /\ outside' = outside /\ phrase' = phrase /\ quoted' = quoted
    BY <1>2 DEF CheckBytes, text, literals
  <2>2. Quotes' = Quotes /\ Where' = Where
    BY <2>1, SameQuery
  <2>3. PlanInv'
    BY <1>0, PlanTurns
  <2>4. HeardInv'
    BY <1>0, <2>1, <2>2 DEF HeardInv, Marked
  <2>5. LooseInv'
    BY <1>0, <2>1, <2>2 DEF LooseInv, Marked
  <2> QED BY <2>1, <2>3, <2>4, <2>5 DEF ReadInv, TokenInv, ParsedExactly
<1> QED BY <1>1, <1>2

\* A closing quote ends the next phrase.
LEMMA QuoteEnds ==
  ASSUME PlanInv, HeardInv, LooseInv, AtCharacter, Character = Quote, in_quote
  PROVE  /\ Len(quoted) + 1 \in 1 .. Len(Phrases) /\ DOMAIN Phrases = 1 .. Len(Phrases)
         /\ Len(Phrases) \in Nat /\ Len(quoted) \in Nat
         /\ Phrases[Len(quoted) + 1] = phrase
<1>1. /\ query \in Text /\ next \in 1 .. Len(query) /\ Len(quoted) \in Nat
      /\ Marked(Quotes, 2 * Len(quoted) + 1, next)
      /\ phrase = SubSeq(query, Quotes[2 * Len(quoted) + 1] + 1, next - 1)
  BY CharacterHeard
<1>2. ListsUp(Quotes, QuotesAt) /\ QuotesAt \in SUBSET Int /\ next \in Int /\ next \in QuotesAt
  BY <1>1, Listings DEF QuotesAt, Character
<1>3. /\ (2 * Len(quoted) + 1) + 1 <= Len(Quotes)
      /\ Quotes[(2 * Len(quoted) + 1) + 1] = next
  BY <1>1, <1>2, MarkSteps
<1>4. /\ Len(Quotes) \in Nat /\ Len(Phrases) = Len(Quotes) \div 2
      /\ DOMAIN Phrases = 1 .. Len(Quotes) \div 2
      /\ \A k \in 1 .. Len(Quotes) \div 2 :
           Phrases[k] = SubSeq(query, Quotes[2 * k - 1] + 1, Quotes[2 * k] - 1)
  BY <1>1, Counts
<1> DEFINE l == Len(quoted) + 1
<1>5. /\ (2 * Len(quoted) + 1) + 1 = 2 * l /\ 2 * Len(quoted) + 1 = 2 * l - 1
      /\ l \in Nat \ {0}
  BY <1>1
<1> HIDE DEF l
<1>6. l \in 1 .. Len(Quotes) \div 2 /\ Len(Quotes) \div 2 \in Nat
  BY <1>3, <1>4, <1>5
<1>7. Phrases[l] = phrase
  BY <1>1, <1>3, <1>4, <1>5, <1>6
<1> QED BY <1>1, <1>4, <1>6, <1>7 DEF l

LEMMA ReadChars ==
  ASSUME ReadInv, OpenQuote \/ EmptyPhrase \/ CloseQuote \/ TakeCharacter
  PROVE  ReadInv'
<1>0. PlanInv /\ HeardInv /\ LooseInv
  BY DEF ReadInv
<1>1. PlanInv'
  BY <1>0, PlanChars
<1>2. ASSUME pc' = "chars", HeardInv', LooseInv'
      PROVE  ReadInv'
  BY <1>1, <1>2 DEF ReadInv, TokenInv, ParsedExactly
<1>3. CASE OpenQuote
  <2>1. pc' = "chars"
    BY <1>3 DEF OpenQuote, AtCharacter
  <2> QED BY <1>0, <1>2, <1>3, <2>1, QuoteOpens
<1>4. CASE TakeCharacter
  <2>1. pc' = "chars"
    BY <1>4 DEF TakeCharacter, AtCharacter
  <2> QED BY <1>0, <1>2, <1>4, <2>1, CharacterTaken
<1>5. CASE EmptyPhrase
  <2>1. AtCharacter /\ Character = Quote /\ in_quote /\ phrase = <<>> /\ Stop("empty_query")
    BY <1>5 DEF EmptyPhrase
  <2>2. /\ Len(quoted) + 1 \in DOMAIN Phrases
        /\ Phrases[Len(quoted) + 1] = <<>>
    BY <1>0, <2>1, QuoteEnds
  <2>3. <<>> \in ToSet(Phrases)
    BY <2>2 DEF ToSet
  <2> QED BY <1>0, <2>1, <2>3, StopReads DEF Parses
<1>6. CASE CloseQuote
  <2>1. AtCharacter /\ Character = Quote /\ in_quote
    BY <1>6 DEF CloseQuote
  <2>2. CASE Full /\ Stop("query_limit")
    <3>1. literal_count = Len(quoted)
      <4>1. /\ literal_count = Len(quoted) + Len(identifiers) + Len(terms)
            /\ identifiers = <<>> /\ terms = <<>>
        BY <1>0, <2>1 DEF PlanInv, CountInv, ReadingInv, AtCharacter
      <4>2. Len(quoted) \in Nat /\ Len(<<>>) = 0
        BY <1>0, <2>1, QuoteEnds
      <4> QED BY <4>1, <4>2
    <3>2. Len(quoted) + 1 > MAX_QUERY_LITERALS
      BY <2>2, <3>1 DEF Full
    <3>3. Len(quoted) + 1 <= Len(Phrases) /\ Len(Phrases) \in Nat /\ Len(quoted) \in Nat
      BY <1>0, <2>1, QuoteEnds
    <3>4. Len(Stretches) \in Nat /\ MAX_QUERY_LITERALS \in Nat
      BY <1>0, Counts, QueryLimitsAssumption DEF PlanInv, TypeInv
    <3>5. ~(Len(Phrases) + Len(Stretches) \in 1 .. MAX_QUERY_LITERALS)
      BY <3>2, <3>3, <3>4
    <3> QED BY <1>0, <2>2, <3>5, StopReads DEF Parses
  <2>3. CASE ~(Full /\ Stop("query_limit"))
    <3>1. /\ quoted' = Append(quoted, phrase) /\ phrase' = <<>> /\ in_quote' = FALSE
          /\ next' = next + 1 /\ query' = query /\ outside' = outside /\ pc' = "chars"
      BY <1>6, <2>3 DEF CloseQuote, AtCharacter
    <3>2. HeardInv' /\ LooseInv'
      BY <1>0, <2>1, <3>1, QuoteCloses
    <3> QED BY <1>2, <3>1, <3>2
  <2> QED BY <2>2, <2>3
<1> QED BY <1>3, <1>4, <1>5, <1>6

\* No stretch begins before the first word, and none behind the text.
LEMMA FirstMark ==
  ASSUME Settled
  PROVE  Mark(1) \in Int /\ \A x \in Froms : Mark(1) <= x
<1>1. /\ query \in Text /\ outside \in Text /\ Len(query) \in Nat
      /\ ListsUp(First(outside), Begins(outside))
  BY Laid, WordsAreSlices DEF Settled
<1>2. /\ Len(First(outside)) \in Nat
      /\ \A k \in 1 .. Len(First(outside)) : First(outside)[k] \in Begins(outside)
      /\ \A w \in Begins(outside) : \E k \in 1 .. Len(First(outside)) : First(outside)[k] = w
      /\ \A j, k \in 1 .. Len(First(outside)) : j < k => First(outside)[j] < First(outside)[k]
  BY <1>1, LenProperties, ElementOfSeq DEF ListsUp
<1>3. CASE 1 <= Len(First(outside))
  <2> DEFINE v == First(outside)[1]
  <2>1. v \in Begins(outside) /\ Mark(1) = Where[v]
    <3>1. 1 \in 1 .. Len(First(outside))
      BY <1>2, <1>3
    <3> QED BY <1>2, <1>3, <3>1 DEF Mark
  <2>2. \A w \in Begins(outside) : v <= w
    <3> TAKE w \in Begins(outside)
    <3>1. PICK k \in 1 .. Len(First(outside)) : First(outside)[k] = w
      BY <1>2
    <3>2. 1 \in 1 .. Len(First(outside)) /\ (k = 1 \/ 1 < k)
      BY <1>2, <1>3
    <3>3. v \in Int /\ w \in Int
      <4>1. Begins(outside) \in SUBSET (1 .. Len(outside))
        BY WordSpan
      <4> QED BY <2>1, <4>1
    <3>4. k = 1 => w = v
      BY <3>1
    <3>5. 1 < k => v < w
      BY <1>2, <3>1, <3>2
    <3> QED BY <3>2, <3>3, <3>4, <3>5
  <2> HIDE DEF v
  <2>3. v \in 1 .. Len(outside)
    BY <2>1, WordSpan
  <2>4. Where[v] \in 1 .. Len(query)
    BY <2>3, WhereUp
  <2>5. ASSUME NEW x \in Froms
        PROVE  Where[v] <= x
    <3>1. PICK w \in Starts : x = Where[Lo(w)]
      BY FromsAre
    <3>2. w \in Begins(outside) /\ w \in 1 .. Len(outside) /\ Lo(w) \in 1 .. Len(outside) /\ w <= Lo(w)
      BY KeptSpan
    <3>3. v <= w
      BY <2>2, <3>2
    <3>4. v <= Lo(w)
      BY <2>3, <3>2, <3>3
    <3> QED BY <2>3, <3>1, <3>2, <3>4, WhereUp
  <2> QED BY <2>1, <2>4, <2>5
<1>4. CASE ~(1 <= Len(First(outside)))
  <2>1. Mark(1) = Len(query) + 1
    BY <1>4 DEF Mark
  <2>2. Begins(outside) = {}
    BY <1>2, <1>4
  <2>3. Froms = {}
    <3>1. ASSUME NEW x \in Froms
          PROVE  FALSE
      <4>1. \E w \in Starts : x = Where[Lo(w)]
        BY FromsAre
      <4> QED BY <2>2, <4>1 DEF Starts
    <3> QED BY <3>1
  <2> QED BY <1>1, <2>1, <2>3
<1> QED BY <1>3, <1>4

\* What the words are read from once all characters are.
LEMMA HeardAll ==
  ASSUME PlanInv, HeardInv, LooseInv, pc = "chars", next > Len(query), ~in_quote
  PROVE  Heard
<1>1. /\ query \in Text /\ next \in Int /\ quoted \in Seq(Text) /\ outside \in Text
      /\ Len(quoted) \in Nat /\ Len(outside) \in Nat
  BY LenProperties DEF PlanInv, TypeInv, Text
<1>2. /\ Len(query) \in Nat /\ ListsUp(Quotes, QuotesAt) /\ ListsUp(Where, Bare)
      /\ QuotesAt \in SUBSET Int /\ Bare \in SUBSET Int
      /\ Len(Quotes) \in Nat
  BY <1>1, Listings DEF QuotesAt, Bare
<1>3. (\A x \in QuotesAt : x < next) /\ (\A x \in Bare : x < next)
  BY <1>1, <1>2 DEF QuotesAt, Bare
<1>4. /\ Marked(Quotes, 2 * Len(quoted), next)
      /\ \A k \in 1 .. Len(quoted) :
              quoted[k] = SubSeq(query, Quotes[2 * k - 1] + 1, Quotes[2 * k] - 1)
  <2>1. 2 * Len(quoted) + (IF in_quote THEN 1 ELSE 0) = 2 * Len(quoted)
    BY <1>1
  <2> QED BY <2>1 DEF HeardInv
<1>5. /\ Marked(Where, Len(outside), next)
      /\ \A j \in 1 .. Len(outside) : outside[j] = Seen(query[Where[j]])
  BY DEF LooseInv
<1>6. 2 * Len(quoted) = Len(Quotes)
  BY <1>1, <1>2, <1>3, <1>4, MarkEnds
<1>7. Len(outside) = Len(Where)
  BY <1>1, <1>2, <1>3, <1>5, MarkEnds
<1>8. quoted = Phrases
  <2>1. Len(Quotes) \div 2 = Len(quoted)
    BY <1>1, <1>6
  <2>2. /\ Phrases = [k \in 1 .. Len(quoted) |->
                        SubSeq(query, Quotes[2 * k - 1] + 1, Quotes[2 * k] - 1)]
    BY <2>1 DEF Phrases, Pairs
  <2>3. quoted = [k \in 1 .. Len(quoted) |-> quoted[k]]
    BY <1>1
  <2> QED BY <1>4, <2>2, <2>3
<1>9. outside = [j \in 1 .. Len(Where) |-> Seen(query[Where[j]])]
  <2>1. outside = [j \in 1 .. Len(outside) |-> outside[j]]
    BY <1>1 DEF Text
  <2> QED BY <1>5, <1>7, <2>1
<1> QED BY <1>6, <1>8, <1>9 DEF Heard

LEMMA ReadTurns ==
  ASSUME ReadInv, CharactersEnd
  PROVE  ReadInv'
<1>0. PlanInv /\ HeardInv /\ LooseInv /\ PlanInv'
  BY PlanTurns DEF ReadInv
<1>1. pc = "chars" /\ next > Len(query)
  BY DEF CharactersEnd
<1>2. query \in Text /\ next \in Int /\ Len(quoted) \in Nat
  BY <1>0, LenProperties DEF PlanInv, TypeInv
<1>3. CASE in_quote
  <2>1. /\ ListsUp(Quotes, QuotesAt) /\ QuotesAt \in SUBSET Int /\ Len(query) \in Nat
        /\ \A x \in QuotesAt : x \in 1 .. Len(query)
    BY <1>2, Listings DEF QuotesAt
  <2>2. \A x \in QuotesAt : x < next
    BY <1>1, <1>2, <2>1
  <2>3. Marked(Quotes, 2 * Len(quoted) + 1, next)
    <3>1. 2 * Len(quoted) + (IF in_quote THEN 1 ELSE 0) = 2 * Len(quoted) + 1
      BY <1>2, <1>3
    <3> QED BY <1>0, <1>1, <3>1 DEF HeardInv
  <2>4. 2 * Len(quoted) + 1 = Len(Quotes)
    BY <1>2, <2>1, <2>2, <2>3, MarkEnds
  <2>5. (Len(Quotes) % 2) # 0
    <3>1. (2 * Len(quoted) + 1) % 2 # 0
      BY <1>2
    <3> QED BY <2>4, <3>1
  <2> QED BY <1>0, <1>3, <2>5, StopReads DEF CharactersEnd, Parses
<1>4. CASE ~in_quote
  <2>1. /\ pc' = "tokens" /\ next' = 1 /\ query' = query /\ outside' = outside /\ quoted' = quoted
        /\ identifiers' = identifiers /\ terms' = terms
    BY <1>4 DEF CharactersEnd, text, literals
  <2>2. identifiers = <<>> /\ terms = <<>>
    BY <1>0, <1>1 DEF PlanInv, ReadingInv
  <2>3. Heard
    BY <1>0, <1>1, <1>4, HeardAll
  <2>4. Settled
    BY <1>0, <2>3, HeardSettles DEF PlanInv
  <2>5. Marked(From, 0, Mark(1))
    <3>1. ListsUp(From, Froms) /\ Froms \in SUBSET Int
      BY <2>4, FromsAre
    <3> QED BY <2>4, <3>1, FirstMark, MarkEnds
  <2>6. \A b \in BOOLEAN : Marked(NamedAt(b), 0, 1)
    <3> TAKE b \in BOOLEAN
    <3>1. /\ ListsUp(NamedAt(b), NamedSet(b)) /\ NamedSet(b) \in SUBSET Int
          /\ NamedSet(b) \in SUBSET (1 .. Len(Stretches))
      BY <1>2, NamedLists
    <3>2. \A x \in NamedSet(b) : 1 <= x
      BY <3>1
    <3> QED BY <3>1, <3>2, MarkEnds
  <2>7. /\ Quotes' = Quotes /\ Where' = Where /\ Phrases' = Phrases /\ Stretches' = Stretches
        /\ From' = From /\ NamedAt(TRUE)' = NamedAt(TRUE) /\ NamedAt(FALSE)' = NamedAt(FALSE)
        /\ Mark(1)' = Mark(1)
    BY <2>1, SameQuery, SameMarks
  <2>8. Heard'
    BY <2>1, <2>3, <2>7 DEF Heard
  <2>9. Len(identifiers') = 0 /\ Len(terms') = 0
        /\ Len(identifiers') + Len(terms') = 0 /\ Len(identifiers') + Len(terms') + 1 = 1
    BY <2>1, <2>2
  <2>10. /\ Marked(From', Len(identifiers') + Len(terms'), Mark(next)')
         /\ Marked(NamedAt(TRUE)', Len(identifiers'), Len(identifiers') + Len(terms') + 1)
         /\ Marked(NamedAt(FALSE)', Len(terms'), Len(identifiers') + Len(terms') + 1)
    <3>1. Mark(next)' = Mark(1)
      BY <2>1, <2>7 DEF Mark
    <3> QED BY <2>5, <2>6, <2>7, <2>9, <3>1
  <2>11. TokenInv'
    <3>1. (\A k \in 1 .. Len(identifiers') : FALSE) /\ (\A k \in 1 .. Len(terms') : FALSE)
      BY <2>9
    <3>2. /\ \A k \in 1 .. Len(identifiers') : identifiers'[k] = Stretches'[NamedAt(TRUE)'[k]]
          /\ \A k \in 1 .. Len(terms') : terms'[k] = Stretches'[NamedAt(FALSE)'[k]]
      BY <3>1, Zenon
    <3> QED BY <2>8, <2>10, <3>2 DEF TokenInv, Listed, Marked
  <2>12. HeardInv' /\ LooseInv' /\ ParsedExactly'
    BY <2>1 DEF HeardInv, LooseInv, ParsedExactly
  <2> QED BY <1>0, <2>11, <2>12 DEF ReadInv
<1> QED BY <1>3, <1>4

\* A stretch joins the list that it is named for.
LEMMA NamedTaken ==
  ASSUME query \in Text, NEW b \in BOOLEAN, NEW list \in Seq(Text), NEW literal \in Text,
         NEW n \in 1 .. Len(Stretches), Stretches[n] = literal, Listed(b, list, n),
         NEW more, more = Append(list, literal)
  PROVE  /\ n \in NamedSet(b) => Listed(b, more, n + 1)
         /\ n \notin NamedSet(b) => Listed(b, list, n + 1)
<1>1. /\ ListsUp(NamedAt(b), NamedSet(b)) /\ NamedSet(b) \in SUBSET Int
      /\ Len(Stretches) \in Nat
  BY NamedLists, Counts
<1>2. n \in Int /\ Len(list) \in Nat
  BY <1>1, LenProperties
<1>3. /\ Marked(NamedAt(b), Len(list), n)
      /\ \A k \in 1 .. Len(list) : list[k] = Stretches[NamedAt(b)[k]]
  BY DEF Listed
<1>4. n \notin NamedSet(b) => Listed(b, list, n + 1)
  <2>1. n \notin NamedSet(b) => Marked(NamedAt(b), Len(list), n + 1)
    BY <1>1, <1>2, <1>3, MarkSteps
  <2> QED BY <1>3, <2>1 DEF Listed
<1>5. ASSUME n \in NamedSet(b)
      PROVE  Listed(b, more, n + 1)
  <2>1. NamedAt(b)[Len(list) + 1] = n /\ Marked(NamedAt(b), Len(list) + 1, n + 1)
    BY <1>1, <1>2, <1>3, <1>5, MarkSteps
  <2>2. /\ Len(more) = Len(list) + 1 /\ more[Len(list) + 1] = literal
        /\ \A k \in 1 .. Len(list) : more[k] = list[k]
    <3>1. list \in Seq(Text) /\ literal \in Text /\ more = Append(list, literal)
      OBVIOUS
    <3> QED BY ONLY <3>1, Appended
  <2>3. \A k \in 1 .. Len(more) : k \in 1 .. Len(list) \/ k = Len(list) + 1
    BY <1>2, <2>2
  <2>4. more[Len(list) + 1] = Stretches[NamedAt(b)[Len(list) + 1]]
    BY <2>1, <2>2
  <2>5. \A k \in 1 .. Len(list) : more[k] = Stretches[NamedAt(b)[k]]
    BY <1>3, <2>2
  <2>6. \A k \in 1 .. Len(more) : more[k] = Stretches[NamedAt(b)[k]]
    BY <2>3, <2>4, <2>5, Zenon
  <2> QED BY <2>1, <2>2, <2>6 DEF Listed
<1> QED BY <1>4, <1>5

LEMMA ReadTokens ==
  ASSUME ReadInv, SkipToken \/ TakeToken
  PROVE  ReadInv'
<1> DEFINE c == Len(identifiers) + Len(terms)
<1>0. PlanInv /\ TokenInv /\ PlanInv' /\ AtToken /\ pc = "tokens" /\ query \in Text
  BY PlanTokens DEF ReadInv, SkipToken, TakeToken, AtToken, PlanInv, TypeInv
<1>1. /\ Settled /\ Heard /\ Len(identifiers) \in Nat /\ Len(terms) \in Nat
      /\ identifiers \in Seq(Text) /\ terms \in Seq(Text)
      /\ Literal = <<>> => Marked(From, c, Mark(next + 1))
      /\ Literal # <<>> => /\ c + 1 \in 1 .. Len(Stretches) /\ Stretches[c + 1] = Literal
                           /\ Marked(From, c + 1, Mark(next + 1))
  BY <1>0, WordRead
<1>2. Listed(TRUE, identifiers, c + 1) /\ Listed(FALSE, terms, c + 1)
  BY <1>0 DEF TokenInv
<1>3. c \in Nat
  BY <1>1
<1>4. ASSUME query' = query, pc' = pc, next' = next + 1, outside' = outside, quoted' = quoted,
             Marked(From, Len(identifiers') + Len(terms'), Mark(next + 1)),
             Listed(TRUE, identifiers', Len(identifiers') + Len(terms') + 1),
             Listed(FALSE, terms', Len(identifiers') + Len(terms') + 1)
      PROVE  ReadInv'
  <2>1. /\ Quotes' = Quotes /\ Where' = Where /\ Phrases' = Phrases /\ Stretches' = Stretches
        /\ From' = From /\ NamedAt(TRUE)' = NamedAt(TRUE) /\ NamedAt(FALSE)' = NamedAt(FALSE)
    BY <1>4, SameQuery
  <2>2. Mark(next)' = Mark(next + 1)
    BY <1>4, <2>1 DEF Mark
  <2>3. Heard'
    BY <1>1, <1>4, <2>1 DEF Heard
  <2>4. TokenInv'
    BY <1>4, <2>1, <2>2, <2>3 DEF TokenInv, Listed, Marked
  <2>5. HeardInv' /\ LooseInv' /\ ParsedExactly'
    BY <1>0, <1>4 DEF HeardInv, LooseInv, ParsedExactly
  <2> QED BY <1>0, <2>4, <2>5 DEF ReadInv
<1>5. CASE SkipToken
  <2>1. /\ Literal = <<>> /\ query' = query /\ pc' = pc /\ next' = next + 1
        /\ outside' = outside /\ quoted' = quoted
        /\ identifiers' = identifiers /\ terms' = terms
    BY <1>5 DEF SkipToken, text, literals
  <2> QED BY <1>1, <1>2, <1>4, <2>1
<1>6. CASE TakeToken
  <2>1. Literal # <<>>
    BY <1>6 DEF TakeToken
  <2>2. c + 1 \in 1 .. Len(Stretches) /\ Stretches[c + 1] = Literal
        /\ Marked(From, c + 1, Mark(next + 1))
    BY <1>1, <2>1
  <2>3. CASE Full /\ Stop("query_limit")
    <3>1. Len(quoted) \in Nat /\ Len(quoted) = Len(Phrases) /\ Len(Stretches) \in Nat
          /\ MAX_QUERY_LITERALS \in Nat
      BY <1>0, <1>1, Counts, LenProperties, QueryLimitsAssumption DEF Heard, PlanInv, TypeInv
    <3>2. literal_count = Len(quoted) + Len(identifiers) + Len(terms)
      BY <1>0 DEF PlanInv, CountInv
    <3>3. literal_count = Len(quoted) + c
      BY <1>1, <3>1, <3>2
    <3>4. Len(quoted) + c + 1 > MAX_QUERY_LITERALS
      BY <2>3, <3>3 DEF Full
    <3> HIDE DEF c
    <3>5. ~(Len(Phrases) + Len(Stretches) \in 1 .. MAX_QUERY_LITERALS)
      BY <1>3, <2>2, <3>1, <3>4
    <3> QED BY <1>0, <2>3, <3>5, StopReads DEF Parses
  <2>4. CASE ~(Full /\ Stop("query_limit"))
    <3>1. /\ query' = query /\ pc' = pc /\ next' = next + 1
          /\ outside' = outside /\ quoted' = quoted
          /\ is_identifier(Literal) =>
               identifiers' = Append(identifiers, Literal) /\ terms' = terms
          /\ ~is_identifier(Literal) =>
               terms' = Append(terms, Literal) /\ identifiers' = identifiers
      BY <1>6, <2>4 DEF TakeToken, text
    <3>2. Literal \in Text
      BY <1>0, TokenRead
    <3>3. TRUE \in BOOLEAN /\ FALSE \in BOOLEAN
      OBVIOUS
    <3>4. CASE is_identifier(Literal)
      <4>1. identifiers' = Append(identifiers, Literal) /\ terms' = terms
        BY <3>1, <3>4
      <4>2. c + 1 \in NamedSet(TRUE) /\ c + 1 \notin NamedSet(FALSE)
        BY <2>2, <3>4, NamedSplit
      <4>3. Len(identifiers') = Len(identifiers) + 1
        BY <1>1, <3>2, <4>1
      <4>4. Len(identifiers') + Len(terms') = c + 1
        BY <1>1, <4>1, <4>3
      <4> HIDE DEF c
      <4>5. Listed(TRUE, identifiers', (c + 1) + 1) /\ Listed(FALSE, terms, (c + 1) + 1)
        BY <1>0, <1>1, <1>2, <2>2, <3>2, <3>3, <4>1, <4>2, NamedTaken
      <4> QED BY <1>4, <2>2, <3>1, <4>1, <4>4, <4>5
    <3>5. CASE ~is_identifier(Literal)
      <4>1. terms' = Append(terms, Literal) /\ identifiers' = identifiers
        BY <3>1, <3>5
      <4>2. c + 1 \in NamedSet(FALSE) /\ c + 1 \notin NamedSet(TRUE)
        BY <2>2, <3>5, NamedSplit
      <4>3. Len(terms') = Len(terms) + 1
        BY <1>1, <3>2, <4>1
      <4>4. Len(identifiers') + Len(terms') = c + 1
        BY <1>1, <4>1, <4>3
      <4> HIDE DEF c
      <4>5. Listed(FALSE, terms', (c + 1) + 1) /\ Listed(TRUE, identifiers, (c + 1) + 1)
        BY <1>0, <1>1, <1>2, <2>2, <3>2, <3>3, <4>1, <4>2, NamedTaken
      <4> QED BY <1>4, <2>2, <3>1, <4>1, <4>4, <4>5
    <3> QED BY <3>4, <3>5
  <2> QED BY <2>3, <2>4
<1> QED BY <1>5, <1>6

\* Behind the last word, the lists hold all stretches.
LEMMA AllTaken ==
  ASSUME PlanInv, TokenInv, pc = "tokens", next > Len(Words(outside))
  PROVE  /\ Len(identifiers) \in Nat /\ Len(terms) \in Nat
         /\ Len(identifiers) + Len(terms) = Len(Stretches)
         /\ identifiers = Those(Stretches, TRUE) /\ terms = Those(Stretches, FALSE)
<1> DEFINE c == Len(identifiers) + Len(terms)
<1>1. /\ query \in Text /\ outside \in Text /\ next \in Nat
      /\ identifiers \in Seq(Text) /\ terms \in Seq(Text)
      /\ Len(identifiers) \in Nat /\ Len(terms) \in Nat /\ c \in Nat /\ TypeInv
  BY LenProperties DEF PlanInv, TypeInv
<1>2. /\ Heard /\ Marked(From, c, Mark(next))
      /\ Listed(TRUE, identifiers, c + 1) /\ Listed(FALSE, terms, c + 1)
  BY DEF TokenInv
<1> HIDE DEF c
<1>3. Settled
  BY <1>1, <1>2, HeardSettles
<1>4. Mark(next) = Len(query) + 1
  <2>1. Len(Words(outside)) = Len(First(outside)) /\ Len(Words(outside)) \in Nat
    BY <1>1, WordsAreSlices, WordsFit, LenProperties
  <2>2. ~(next <= Len(First(outside)))
    BY <1>1, <2>1
  <2> QED BY <2>2 DEF Mark
<1>5. c = Len(Stretches)
  <2>1. /\ ListsUp(From, Froms) /\ Froms \in SUBSET Int /\ Len(query) + 1 \in Int
        /\ Len(Stretches) = Len(From)
    BY <1>3, FromsAre, StretchIs, Laid
  <2>2. \A x \in Froms : x < Len(query) + 1
    BY <1>3, FromsAre, Laid
  <2>3. Marked(From, c, Len(query) + 1)
    BY <1>2, <1>4
  <2> QED BY <2>1, <2>2, <2>3, MarkEnds
<1>6. ASSUME NEW b \in BOOLEAN, NEW list \in Seq(Text), Listed(b, list, c + 1)
      PROVE  list = Those(Stretches, b)
  <2>1. /\ ListsUp(NamedAt(b), NamedSet(b)) /\ NamedSet(b) \in SUBSET Int
        /\ NamedSet(b) \in SUBSET (1 .. Len(Stretches))
        /\ Those(Stretches, b) = [k \in 1 .. Len(NamedAt(b)) |-> Stretches[NamedAt(b)[k]]]
    BY <1>1, NamedLists
  <2>2. \A x \in NamedSet(b) : x < c + 1
    BY <1>1, <1>5, <2>1
  <2>3. Len(list) = Len(NamedAt(b))
    <3>1. Marked(NamedAt(b), Len(list), c + 1) /\ c + 1 \in Int
      BY <1>1, <1>6 DEF Listed
    <3> QED BY <2>1, <2>2, <3>1, MarkEnds
  <2>4. list = [k \in 1 .. Len(list) |-> list[k]]
    OBVIOUS
  <2> QED BY <1>6, <2>1, <2>3, <2>4 DEF Listed
<1> QED BY <1>1, <1>2, <1>5, <1>6 DEF c

LEMMA ReadEnds ==
  ASSUME ReadInv, TokensEnd
  PROVE  ReadInv'
<1>0. /\ PlanInv /\ TokenInv /\ PlanInv' /\ pc = "tokens" /\ next > Len(Words(outside))
      /\ query \in Text
  BY PlanEnds DEF ReadInv, TokensEnd, PlanInv, TypeInv
<1> DEFINE all == (quoted \o identifiers) \o terms
           c == Len(identifiers) + Len(terms)
<1>1. /\ identifiers = Those(Stretches, TRUE) /\ terms = Those(Stretches, FALSE)
      /\ c = Len(Stretches)
  BY <1>0, AllTaken
<1>2. Heard
  BY <1>0 DEF TokenInv
<1>3. /\ quoted \in Seq(Text) /\ identifiers \in Seq(Text) /\ terms \in Seq(Text)
      /\ Len(quoted) \in Nat /\ Len(identifiers) \in Nat /\ Len(terms) \in Nat /\ c \in Nat
      /\ Len(quoted) + Len(identifiers) + Len(terms) = Len(quoted) + c
  <2>1. quoted \in Seq(Text) /\ identifiers \in Seq(Text) /\ terms \in Seq(Text)
    BY <1>0 DEF PlanInv, TypeInv
  <2>2. Len(quoted) \in Nat /\ Len(identifiers) \in Nat /\ Len(terms) \in Nat
    BY <2>1, LenProperties
  <2> QED BY <2>1, <2>2
<1>4. all = <<>> <=> Len(quoted) + c = 0
  <2>1. quoted \o identifiers \in Seq(Text)
        /\ Len(quoted \o identifiers) = Len(quoted) + Len(identifiers)
    BY <1>3, ConcatProperties
  <2> DEFINE front == quoted \o identifiers
  <2>2. front \in Seq(Text)
    BY <2>1
  <2> HIDE DEF front
  <2>3. front \o terms \in Seq(Text) /\ Len(front \o terms) = Len(front) + Len(terms)
    BY <1>3, <2>2, ConcatProperties
  <2>4. all \in Seq(Text) /\ Len(all) = Len(quoted) + Len(identifiers) + Len(terms)
    BY <2>1, <2>3 DEF front
  <2>5. all = <<>> <=> Len(all) = 0
    <3> HIDE DEF all
    <3> QED BY <2>4, EmptySeq
  <2> QED BY <1>3, <2>4, <2>5
<1> HIDE DEF c
<1>5. /\ pc' = "done" /\ query' = query
      /\ outcome' = "parsed" <=> all # <<>>
      /\ quoted' = quoted /\ identifiers' = identifiers /\ terms' = terms
  BY DEF TokensEnd, Stop, literals
<1> HIDE DEF all
<1>6. quoted = Phrases /\ Len(Quotes) = 2 * Len(quoted)
  BY <1>2 DEF Heard
<1>7. Len(UTF8(query)) <= MAX_QUERY_BYTES
  BY <1>0 DEF PlanInv, Size
<1>8. (Len(Quotes) % 2) = 0
  <2>1. (2 * Len(quoted)) % 2 = 0
    BY <1>3
  <2> QED BY <1>6, <2>1
<1>9. <<>> \notin ToSet(Phrases)
  <2>1. \A k \in 1 .. Len(quoted) : quoted[k] # <<>>
    BY <1>0 DEF PlanInv, CountInv, Filled
  <2>2. DOMAIN quoted = 1 .. Len(quoted)
    BY <1>3
  <2>3. <<>> \notin ToSet(quoted)
    BY <2>1, <2>2 DEF ToSet
  <2> QED BY <1>6, <2>3
<1>10. Parses <=> all # <<>>
  <2>1. Len(quoted) + c <= MAX_QUERY_LITERALS /\ MAX_QUERY_LITERALS \in Nat
    <3>1. literal_count = Len(quoted) + Len(identifiers) + Len(terms)
          /\ literal_count <= MAX_QUERY_LITERALS
      BY <1>0 DEF PlanInv, CountInv
    <3>2. literal_count = Len(quoted) + c
      BY <1>3, <3>1
    <3> QED BY <3>1, <3>2, QueryLimitsAssumption
  <2>2. Len(Phrases) + Len(Stretches) = Len(quoted) + c
    BY <1>1, <1>6
  <2>3. Len(Phrases) + Len(Stretches) \in 1 .. MAX_QUERY_LITERALS <=> Len(quoted) + c # 0
    BY <1>3, <2>1, <2>2
  <2> QED BY <1>4, <1>7, <1>8, <1>9, <2>3 DEF Parses
<1>11. ParsedExactly'
  <2>1. Parses' = Parses /\ Phrases' = Phrases /\ Stretches' = Stretches
    BY <1>5, SameParses, SameQuery
  <2>2. Parses' <=> outcome' = "parsed"
    BY <1>5, <1>10, <2>1
  <2>3. /\ quoted' = Phrases'
        /\ identifiers' = Those(Stretches, TRUE)' /\ terms' = Those(Stretches, FALSE)'
    BY <1>1, <1>5, <1>6, <2>1 DEF Those
  <2> QED BY <2>2, <2>3 DEF ParsedExactly, Parses
<1>12. HeardInv' /\ LooseInv' /\ TokenInv'
  BY <1>5 DEF HeardInv, LooseInv, TokenInv
<1> QED BY <1>0, <1>11, <1>12 DEF ReadInv

LEMMA ReadSame ==
  ASSUME ReadInv, UNCHANGED vars
  PROVE  ReadInv'
<1>1. /\ query' = query /\ pc' = pc /\ next' = next
      /\ in_quote' = in_quote /\ outside' = outside /\ phrase' = phrase /\ quoted' = quoted
      /\ identifiers' = identifiers /\ terms' = terms /\ outcome' = outcome
  BY DEF vars, text, literals
<1>2. /\ Quotes' = Quotes /\ Where' = Where /\ Phrases' = Phrases /\ Stretches' = Stretches
      /\ From' = From /\ NamedAt(TRUE)' = NamedAt(TRUE) /\ NamedAt(FALSE)' = NamedAt(FALSE)
      /\ Mark(next)' = Mark(next)
  <2>1. Where' = Where
    BY <1>1, SameQuery
  <2>2. Mark(next)' = Mark(next)
    BY <1>1, <2>1 DEF Mark
  <2> QED BY <1>1, <2>2, SameQuery
<1>3. PlanInv'
  BY PlanSame DEF ReadInv
<1>4. HeardInv' /\ LooseInv'
  BY <1>1, <1>2 DEF ReadInv, HeardInv, LooseInv, Marked
<1>5. TokenInv'
  BY <1>1, <1>2 DEF ReadInv, TokenInv, Heard, Listed, Marked
<1>6. ParsedExactly'
  BY <1>1, <1>2 DEF ReadInv, ParsedExactly, Those
<1> QED BY <1>3, <1>4, <1>5, <1>6 DEF ReadInv

LEMMA ReadNext == ReadInv /\ [Next]_vars => ReadInv'
<1> SUFFICES ASSUME ReadInv, [Next]_vars
             PROVE  ReadInv'
  OBVIOUS
<1>1. CASE CheckBytes
  BY <1>1, ReadBytes
<1>2. CASE OpenQuote \/ EmptyPhrase \/ CloseQuote \/ TakeCharacter
  BY <1>2, ReadChars
<1>3. CASE CharactersEnd
  BY <1>3, ReadTurns
<1>4. CASE SkipToken \/ TakeToken
  BY <1>4, ReadTokens
<1>5. CASE TokensEnd
  BY <1>5, ReadEnds
<1>6. CASE Done \/ UNCHANGED vars
  BY <1>6, ReadSame DEF Done
<1> QED BY <1>1, <1>2, <1>3, <1>4, <1>5, <1>6 DEF Next

\* Whatever the query and the limits, parse_query accepts the query exactly
\* when it is within the limits and its quotes are closed and not empty, and
\* then its phrases are what the quotes enclose, its identifiers and terms all
\* longest stretches between two characters that are kept, in order.
THEOREM QueriesParsedExactly == Spec => []ParsedExactly
<1>1. ReadInv => ParsedExactly
  BY DEF ReadInv
<1> QED BY <1>1, ReadInit, ReadNext, PTL DEF Spec

=============================================================================
