-------------------------- MODULE FormatsProofs --------------------------
(***************************************************************************)
(* Theorems about what a search reports of one file, for any plan, path    *)
(* and bytes, and about digests, for any two bundles; and hence for the    *)
(* machine of MCFormats.                                                   *)
(***************************************************************************)
EXTENDS MCFormats, BlockProofs

(***************************************************************************)
(* Blocks that were built from a file verify against that file.            *)
(***************************************************************************)

\* The lines of a source follow each other.
LEMMA LinesFollow ==
  ASSUME NEW bytes \in ByteString,
         NEW j \in DOMAIN ParseLines(bytes), NEW k \in DOMAIN ParseLines(bytes), j <= k
  PROVE  ParseLines(bytes)[j].byte_start <= ParseLines(bytes)[k].byte_end
<1> DEFINE ends == Ascending(ChunkEnds(bytes))
           start(i) == IF i = 1 THEN 0 ELSE ends[i - 1]
           length(i) == TerminatedContentLength(Slice(bytes, start(i), ends[i]))
           n == Cardinality(ChunkEnds(bytes))
<1>0. Len(bytes) \in Nat
  BY LenProperties DEF ByteString
<1>1. ChunkEnds(bytes) \in SUBSET Int /\ ChunkEnds(bytes) \in SUBSET (1 .. Len(bytes))
  BY <1>0, ChunkEndsFinite
<1>2. /\ ends \in Seq(ChunkEnds(bytes)) /\ Len(ends) = n /\ n \in Nat
      /\ \A i, h \in 1 .. n : i < h => ends[i] < ends[h]
  BY <1>1, ChunkEndsFinite, AscendingLists
<1>3. DOMAIN ends = 1 .. n /\ \A i \in 1 .. n : ends[i] \in Nat
  BY <1>1, <1>2
<1>4. /\ DOMAIN ParseLines(bytes) = 1 .. n
      /\ ParseLines(bytes)[j].byte_start = start(j)
      /\ ParseLines(bytes)[k].byte_start = start(k)
      /\ ParseLines(bytes)[k].byte_end = start(k) + length(k)
  BY <1>3 DEF ParseLines
<1>5. start(j) <= start(k) /\ start(j) \in Nat /\ start(k) \in Nat
  <2>1. \A i \in 1 .. n : i = 1 \/ i - 1 \in 1 .. n
    BY <1>2
  <2>2. j = k \/ (j < k /\ (j = 1 \/ j - 1 < k - 1))
    BY <1>2, <1>4
  <2> HIDE DEF ends, n
  <2> QED BY <1>2, <1>3, <1>4, <2>1, <2>2, SMTT(30)
<1>6. length(k) >= 0 /\ length(k) \in Int
  <2>1. ends[k] \in Nat /\ ends[k] <= Len(bytes) /\ start(k) <= ends[k]
    <3>1. ends[k] \in 1 .. Len(bytes)
      BY <1>1, <1>2, <1>4
    <3>2. k = 1 \/ (k - 1 \in 1 .. n /\ k - 1 < k)
      BY <1>2, <1>4
    <3>3. k \in 1 .. n
      BY <1>4
    <3> HIDE DEF n, ends
    <3> QED BY <1>0, <1>2, <1>3, <3>1, <3>2, <3>3
  <2>2. Slice(bytes, start(k), ends[k]) \in ByteString
    <3> HIDE DEF start, ends
    <3> QED BY <1>5, <2>1, SliceType
  <2>3. length(k) \in 0 .. Len(Slice(bytes, start(k), ends[k]))
    BY <2>2, TerminatorLength
  <2>4. Len(Slice(bytes, start(k), ends[k])) \in Nat
    BY <2>2, LenProperties DEF ByteString
  <2> HIDE DEF length, start, ends
  <2> QED BY <2>3, <2>4
<1> HIDE DEF length, start
<1> QED BY <1>4, <1>5, <1>6

\* What search reports of a file, verification confirms of the same file,
\* for every plan, path and file: the two sides compute lines, offsets, scores
\* and identifiers independently (build_block against preflight_status and
\* live_status).
THEOREM BuiltBlocksVerify ==
  ASSUME NEW plan, IsPlan(plan), NEW path, NEW bytes \in ByteString,
         NEW block \in ToSet(blocks_for_file(plan, path, bytes))
  PROVE  PreflightStatus(block) = "verified" /\ LiveStatus(block, bytes) = "verified"
<1> DEFINE lines == ParseLines(bytes)
           ranges == matching_ranges(plan, lines)
<1>1. lines \in Seq(Line) /\ Len(lines) \in Nat /\ DOMAIN lines = 1 .. Len(lines)
  BY LinesType, LenProperties
<1>2. ranges \in Seq(RangesOf(lines)) /\ DOMAIN ranges = 1 .. Len(ranges)
  BY <1>1, MatchingRangesType, LenProperties
<1>3. PICK k \in DOMAIN ranges : block = build_block(plan, path, bytes, lines, ranges[k])
  BY DEF ToSet, blocks_for_file
<1> DEFINE range == ranges[k]
           canonical == CanonicalBlock(lines, range)
           selected == Selected(lines, range)
<1>4. /\ range \in [start : Nat, end : Nat] /\ range.start <= range.end
      /\ range.end < Len(lines)
  BY <1>2, ElementOfSeq DEF RangesOf
<1>5. selected \in Seq(Line)
  <2>1. \A i \in range.start + 1 .. range.end + 1 : lines[i] \in Line
    BY <1>1, <1>4, ElementOfSeq
  <2> HIDE DEF lines, range
  <2> QED BY <1>1, <1>4, <2>1, SubSeqProperties DEF Selected
<1>6. canonical.byte_start <= canonical.byte_end
  <2>1. range.start + 1 \in DOMAIN lines /\ range.end + 1 \in DOMAIN lines
        /\ range.start + 1 <= range.end + 1
    BY <1>1, <1>4
  <2>2. lines[range.start + 1].byte_start <= lines[range.end + 1].byte_end
    BY <2>1, LinesFollow
  <2> QED BY <2>2 DEF CanonicalBlock
<1> HIDE DEF lines, range, ranges, selected
<1>7. PreflightStatus(block) = "verified"
  <2>1. Decodable(block.path) /\ Decodable(block.content)
    BY <1>3 DEF build_block, Encoded, Decodable
  <2>2. /\ block.line_start = range.start + 1 /\ block.line_end = range.end + 1
        /\ block.byte_start = canonical.byte_start /\ block.byte_end = canonical.byte_end
        /\ block.score = ScoreSum(block.score_components)
        /\ block.score_components = score(plan, selected, canonical.content)
        /\ block.path.bytes = path /\ block.content.bytes = canonical.content
        /\ block.block_id = block_id(path, range.start + 1, range.end + 1, canonical.content)
    BY <1>3 DEF build_block, Encoded, range, selected
  <2>3. block.line_start <= block.line_end
    BY <1>4, <2>2
  <2>4. HasTotal(block.score_components)
    BY <1>5, <2>2, ScoresFit
  <2> HIDE DEF canonical
  <2> QED BY <1>6, <2>1, <2>2, <2>3, <2>4 DEF PreflightStatus
<1>8. LiveStatus(block, bytes) = "verified"
  <2>1. /\ block.line_start - 1 = range.start /\ block.line_end - 1 = range.end
        /\ block.path.bytes = path
        /\ block.byte_start = canonical.byte_start /\ block.byte_end = canonical.byte_end
        /\ block.content.bytes = canonical.content
        /\ block.block_id = block_id(path, block.line_start, block.line_end, canonical.content)
        /\ block.source_sha256 = source_sha256(bytes)
    BY <1>3, <1>4 DEF build_block, Encoded, range
  <2>2. LineRange(range.start, range.end) = range
    BY <1>4 DEF LineRange
  <2>3. IsRangeOf(lines, range)
    BY <1>4 DEF IsRangeOf
  <2>4. Reproduces(block, block.path.bytes, canonical)
    BY <2>1 DEF Reproduces
  <2> HIDE DEF canonical
  <2> QED BY <2>1, <2>2, <2>3, <2>4 DEF LiveStatus, lines, canonical
<1> QED BY <1>7, <1>8

(***************************************************************************)
(* The cited ranges are the maximal runs of the lines wanted.              *)
(***************************************************************************)

Heading(lines, h) == IsHeading(lines[h + 1].content)

\* h is the heading of the section that line i is in.
InSection(lines, h, i) == /\ h <= i /\ Heading(lines, h)
                          /\ \A g \in h + 1 .. i : ~Heading(lines, g)

\* The lines of a range, and of ranges.
Covers(range, j) == range.start <= j /\ j <= range.end
Cover(ranges) == {j \in Nat : \E k \in DOMAIN ranges : Covers(ranges[k], j)}

\* Ranges in file order that neither overlap nor touch.
Apart(ranges) == \A i, j \in DOMAIN ranges : i < j => ranges[i].end + 1 < ranges[j].start

\* The longest runs of numbers in a set.
RunsOf(W) == {run \in {LineRange(s, e) : s, e \in W} :
                /\ run.start .. run.end \subseteq W /\ run.start <= run.end
                /\ {run.start - 1, run.end + 1} \cap W = {}}

Span == {r \in [start : Nat, end : Nat] : r.start <= r.end}

\* Ranges apart are the longest runs of what they cover.
LEMMA ApartAreRuns ==
  ASSUME NEW ranges \in Seq(Span), Apart(ranges)
  PROVE  ToSet(ranges) = RunsOf(Cover(ranges))
<1> DEFINE W == Cover(ranges)
<1>1. Len(ranges) \in Nat /\ DOMAIN ranges = 1 .. Len(ranges)
  BY LenProperties
<1>2. \A k \in DOMAIN ranges :
        /\ ranges[k].start \in Nat /\ ranges[k].end \in Nat /\ ranges[k].start <= ranges[k].end
        /\ ranges[k] = LineRange(ranges[k].start, ranges[k].end)
  <2> TAKE k \in DOMAIN ranges
  <2>1. ranges[k] \in Span
    <3> HIDE DEF Span
    <3> QED BY <1>1, ElementOfSeq
  <2> QED BY <2>1 DEF Span, LineRange
<1>3. ASSUME NEW k \in DOMAIN ranges
      PROVE  ranges[k].start - 1 \notin W /\ ranges[k].end + 1 \notin W
  <2> SUFFICES ASSUME NEW j \in W, j = ranges[k].start - 1 \/ j = ranges[k].end + 1
               PROVE  FALSE
    OBVIOUS
  <2>1. PICK i \in DOMAIN ranges : ranges[i].start <= j /\ j <= ranges[i].end
    BY DEF Cover, Covers
  <2>2. i # k
    BY <1>2, <2>1
  <2>3. i < k \/ k < i
    BY <1>1, <2>2
  <2>4. j \in Nat
    BY DEF Cover
  <2> HIDE DEF W
  <2> QED BY <1>2, <2>1, <2>3, <2>4, SMTT(30) DEF Apart
<1>4. ASSUME NEW k \in DOMAIN ranges
      PROVE  ranges[k] \in RunsOf(W)
  <2> DEFINE s == ranges[k].start
             e == ranges[k].end
  <2>1. s \in Nat /\ e \in Nat /\ s <= e /\ ranges[k] = LineRange(s, e)
    BY <1>2
  <2>2. \A j \in s .. e : j \in W
    BY <2>1 DEF Cover, Covers
  <2>3. s \in W /\ e \in W /\ s .. e \subseteq W
    <3>1. s \in s .. e /\ e \in s .. e
      BY <2>1
    <3> QED BY <2>2, <3>1
  <2>4. {s - 1, e + 1} \cap W = {}
    BY <1>3
  <2> HIDE DEF W
  <2> QED BY <2>1, <2>3, <2>4 DEF RunsOf
<1>5. ASSUME NEW run \in RunsOf(W)
      PROVE  \E k \in DOMAIN ranges : run = ranges[k]
  <2>1. PICK s \in W, e \in W : run = LineRange(s, e)
    BY DEF RunsOf
  <2>2. /\ s .. e \subseteq W /\ s <= e /\ s - 1 \notin W /\ e + 1 \notin W
        /\ s \in Nat /\ e \in Nat
    <3>1. run.start = s /\ run.end = e
      BY <2>1 DEF LineRange
    <3>2. /\ run.start .. run.end \subseteq W /\ run.start <= run.end
          /\ {run.start - 1, run.end + 1} \cap W = {}
      <4> HIDE DEF W
      <4> QED BY DEF RunsOf
    <3>3. s \in Nat /\ e \in Nat
      BY DEF Cover
    <3> HIDE DEF W
    <3> QED BY <3>1, <3>2, <3>3
  <2>3. PICK k \in DOMAIN ranges : ranges[k].start <= s /\ s <= ranges[k].end
    BY DEF Cover, Covers
  <2>4. ranges[k].start \in Nat /\ ranges[k].end \in Nat
    BY <1>2
  <2>5. ranges[k].start = s
    <3> SUFFICES ASSUME ranges[k].start # s
                 PROVE  FALSE
      OBVIOUS
    <3>1. s - 1 \in Nat /\ ranges[k].start <= s - 1 /\ s - 1 <= ranges[k].end
      BY <2>2, <2>3, <2>4
    <3> QED BY <2>2, <3>1 DEF Cover, Covers
  <2>6. ~(ranges[k].end < e)
    <3> SUFFICES ASSUME ranges[k].end < e
                 PROVE  FALSE
      OBVIOUS
    <3>1. ranges[k].end + 1 \in s .. e
      BY <2>2, <2>3, <2>4
    <3> QED BY <1>3, <2>2, <3>1
  <2>7. ~(e < ranges[k].end)
    <3> SUFFICES ASSUME e < ranges[k].end
                 PROVE  FALSE
      OBVIOUS
    <3>1. e + 1 \in Nat /\ ranges[k].start <= e + 1 /\ e + 1 <= ranges[k].end
      BY <2>2, <2>4, <2>5
    <3> QED BY <2>2, <3>1 DEF Cover, Covers
  <2>8. ranges[k].end = e
    BY <2>2, <2>4, <2>6, <2>7
  <2> QED BY <1>2, <2>1, <2>5, <2>8
<1> QED BY <1>4, <1>5 DEF ToSet

\* Of two places the earlier is not the last.
LEMMA EarlierPlace ==
  \A m \in Nat : \A i, j \in 1 .. m + 1 :
    i < j => i \in 1 .. m /\ (j = m + 1 \/ j \in 1 .. m)
OBVIOUS

\* Merging sorted ranges keeps what they cover, and leaves them apart.
LEMMA MergeCovers ==
  ASSUME NEW ranges \in Seq(Span),
         \A i, j \in DOMAIN ranges : i < j => ranges[i].start <= ranges[j].start
  PROVE  /\ merge_ranges(ranges) \in Seq(Span)
         /\ Apart(merge_ranges(ranges))
         /\ Cover(merge_ranges(ranges)) = Cover(ranges)
<1> DEFINE n == Len(ranges)
           CoverTo(k) == {l \in Nat : \E i \in 1 .. k : Covers(ranges[i], l)}
           Good(k, merged) ==
             /\ merged \in Seq(Span) /\ Apart(merged) /\ Cover(merged) = CoverTo(k)
             /\ merged = <<>> \/ (k \in 1 .. n /\ Last(merged).start <= ranges[k].start)
<1>1. n \in Nat /\ DOMAIN ranges = 1 .. n /\ \A k \in 1 .. n : ranges[k] \in Span
  <2> HIDE DEF Span
  <2> QED BY LenProperties, ElementOfSeq
<1>2. Good(0, <<>>)
  <2>1. <<>> \in Seq(Span) /\ DOMAIN <<>> = {}
    BY EmptySeq
  <2>2. CoverTo(0) = {} /\ Cover(<<>>) = {}
    BY <2>1 DEF Cover
  <2> QED BY <2>1, <2>2 DEF Apart
<1>3. ASSUME NEW k \in 1 .. n, NEW merged, Good(k - 1, merged)
      PROVE  Good(k, MergeRange(merged, ranges[k]))
  <2> DEFINE range == ranges[k]
             last == Last(merged)
             m == Len(merged)
  <2>1. range \in Span /\ merged \in Seq(Span) /\ m \in Nat /\ DOMAIN merged = 1 .. m
    BY <1>1, <1>3, LenProperties
  <2>2. range.start \in Nat /\ range.end \in Nat /\ range.start <= range.end
    BY <2>1 DEF Span
  <2>3. \A l \in Nat : l \in CoverTo(k) <=> l \in CoverTo(k - 1) \/ Covers(range, l)
    BY <1>1
  <2>4. \A i \in 1 .. m : merged[i] \in Span
    <3> HIDE DEF Span
    <3> QED BY <2>1, ElementOfSeq
  <2>5. \A i \in 1 .. m : /\ merged[i].start \in Nat /\ merged[i].end \in Nat
                          /\ merged[i].start <= merged[i].end
    BY <2>4 DEF Span
  <2>6. merged # <<>> => /\ m \in Nat \ {0} /\ last = merged[m]
                         /\ last.start <= range.start
    <3> SUFFICES ASSUME merged # <<>>
                 PROVE  /\ m \in Nat \ {0} /\ last = merged[m] /\ last.start <= range.start
      OBVIOUS
    <3>1. m \in Nat \ {0} /\ last = merged[m]
      <4> HIDE DEF Span
      <4> QED BY <2>1, FrontType
    <3>2. k - 1 \in 1 .. n /\ last.start <= ranges[k - 1].start
      BY <1>3
    <3>3. ranges[k - 1].start <= range.start /\ ranges[k - 1].start \in Nat
      <4>1. k - 1 < k /\ k - 1 \in DOMAIN ranges /\ k \in DOMAIN ranges
        BY <1>1, <3>2
      <4>2. ranges[k - 1] \in Span
        BY <1>1, <3>2
      <4> QED BY <4>1, <4>2 DEF Span
    <3> QED BY <2>2, <2>5, <3>1, <3>2, <3>3
  <2> HIDE DEF range, last, m, CoverTo
  <2>7. CASE merged # <<>> /\ range.start <= last.end + 1
    <3> DEFINE joined == [last EXCEPT !.end = Larger(@, range.end)]
               front == Front(merged)
               all == Append(front, joined)
    <3>1. m \in Nat \ {0} /\ last = merged[m] /\ last.start <= range.start /\ m \in 1 .. m
      BY <2>6, <2>7
    <3>2. last \in Span /\ last.start \in Nat /\ last.end \in Nat /\ last.start <= last.end
      BY <2>4, <2>5, <3>1
    <3>3. /\ joined = [start |-> last.start, end |-> Larger(last.end, range.end)]
          /\ joined.start = last.start /\ joined.end = Larger(last.end, range.end)
      BY <3>2 DEF Span
    <3>4. /\ Larger(last.end, range.end) \in Nat
          /\ last.end <= Larger(last.end, range.end) /\ range.end <= Larger(last.end, range.end)
          /\ Larger(last.end, range.end) \in {last.end, range.end}
      BY <2>2, <3>2 DEF Larger
    <3>5. joined \in Span
      BY <3>2, <3>3, <3>4 DEF Span
    <3>6. /\ front \in Seq(Span) /\ Len(front) = m - 1
          /\ \A i \in 1 .. m - 1 : front[i] = merged[i]
      <4> HIDE DEF Span
      <4> QED BY <2>1, <2>7, FrontType DEF m
    <3> HIDE DEF joined, front
    <3>7. /\ all \in Seq(Span) /\ Len(all) = m /\ DOMAIN all = 1 .. m /\ all[m] = joined
          /\ \A i \in 1 .. m - 1 : all[i] = merged[i]
      <4>1. /\ all \in Seq(Span) /\ Len(all) = Len(front) + 1 /\ all[Len(front) + 1] = joined
            /\ \A i \in 1 .. Len(front) : all[i] = front[i]
        <5> HIDE DEF Span
        <5> QED BY <3>5, <3>6, AppendProperties
      <4>2. DOMAIN all = 1 .. Len(all)
        <5> HIDE DEF Span, all
        <5> QED BY <4>1, LenProperties
      <4>3. Len(front) + 1 = m
        BY <3>1, <3>6
      <4> HIDE DEF all, Span
      <4> QED BY <3>6, <4>1, <4>2, <4>3
    <3>8. MergeRange(merged, range) = all
      BY <2>7 DEF MergeRange, all, front, joined, last
    <3> HIDE DEF all
    <3>9. \A i \in 1 .. m - 1 : i \in 1 .. m /\ i < m
      BY <3>1
    <3>10. Apart(all)
      <4> SUFFICES ASSUME NEW i \in 1 .. m, NEW j \in 1 .. m, i < j
                   PROVE  all[i].end + 1 < all[j].start
        BY <3>7 DEF Apart
      <4>1. i \in 1 .. m - 1 /\ all[i] = merged[i] /\ (j = m \/ j \in 1 .. m - 1)
        BY <3>1, <3>7
      <4>2. merged[i].end + 1 < merged[j].start
        BY <1>3, <2>1 DEF Apart
      <4>3. all[j].start = merged[j].start
        BY <3>1, <3>3, <3>7, <4>1
      <4> QED BY <4>1, <4>2, <4>3
    <3>11. Cover(all) = CoverTo(k)
      <4>1. ASSUME NEW l \in Nat
            PROVE  Covers(joined, l) <=> Covers(last, l) \/ Covers(range, l)
        BY <2>2, <2>7, <3>1, <3>2, <3>3, <3>4 DEF Covers
      <4>2. ASSUME NEW l \in Nat
            PROVE  l \in Cover(all) <=> l \in Cover(merged) \/ Covers(range, l)
        <5>1. l \in Cover(all) <=> (\E i \in 1 .. m - 1 : Covers(merged[i], l)) \/ Covers(joined, l)
          BY <3>1, <3>7, <3>9 DEF Cover
        <5>2. l \in Cover(merged)
                <=> (\E i \in 1 .. m - 1 : Covers(merged[i], l)) \/ Covers(last, l)
          BY <2>1, <3>1, <3>9 DEF Cover
        <5> QED BY <4>1, <5>1, <5>2
      <4>3. Cover(all) \subseteq Nat /\ CoverTo(k) \subseteq Nat
        BY DEF Cover, CoverTo
      <4>4. Cover(merged) = CoverTo(k - 1)
        BY <1>3
      <4> QED BY <2>3, <4>2, <4>3, <4>4
    <3>12. all # <<>> /\ Last(all).start <= ranges[k].start
      BY <3>1, <3>3, <3>7 DEF Last, range
    <3> QED BY <3>7, <3>8, <3>10, <3>11, <3>12 DEF range
  <2>8. CASE ~(merged # <<>> /\ range.start <= last.end + 1)
    <3> DEFINE all == Append(merged, range)
    <3>1. /\ all \in Seq(Span) /\ Len(all) = m + 1 /\ DOMAIN all = 1 .. m + 1
          /\ all[m + 1] = range /\ \A i \in 1 .. m : all[i] = merged[i]
      <4>1. /\ all \in Seq(Span) /\ Len(all) = m + 1 /\ all[m + 1] = range
            /\ \A i \in 1 .. m : all[i] = merged[i]
        <5> HIDE DEF Span
        <5> QED BY <2>1, AppendProperties DEF m
      <4>2. DOMAIN all = 1 .. Len(all)
        <5> HIDE DEF Span, all
        <5> QED BY <4>1, LenProperties
      <4> QED BY <4>1, <4>2
    <3>2. MergeRange(merged, range) = all
      BY <2>8 DEF MergeRange, last
    <3> HIDE DEF all
    <3>3. ASSUME NEW i \in 1 .. m
          PROVE  merged[i].end + 1 < range.start
      <4>1. merged # <<>> /\ m \in Nat \ {0} /\ last = merged[m] /\ last.end + 1 < range.start
        <5>1. merged # <<>>
          BY <2>1, EmptySeq DEF m
        <5>2. m \in 1 .. m
          BY <2>6, <5>1
        <5> QED BY <2>2, <2>5, <2>6, <2>8, <5>1, <5>2
      <4>2. CASE i = m
        BY <4>1, <4>2
      <4>3. CASE i # m
        <5>1. i < m /\ m \in 1 .. m
          BY <4>1, <4>3
        <5>2. merged[i].end + 1 < merged[m].start
          BY <1>3, <2>1, <5>1 DEF Apart
        <5> QED BY <2>2, <2>5, <4>1, <5>1, <5>2, SMTT(30)
      <4> QED BY <4>2, <4>3
    <3>4. Apart(all)
      <4> SUFFICES ASSUME NEW i \in 1 .. m + 1, NEW j \in 1 .. m + 1, i < j
                   PROVE  all[i].end + 1 < all[j].start
        BY <3>1 DEF Apart
      <4>1. i \in 1 .. m /\ (j = m + 1 \/ j \in 1 .. m)
        BY <2>1, EarlierPlace
      <4> QED BY <1>3, <2>1, <3>1, <3>3, <4>1 DEF Apart
    <3>5. Cover(all) = CoverTo(k)
      <4>1. ASSUME NEW l \in Nat
            PROVE  l \in Cover(all) <=> l \in Cover(merged) \/ Covers(range, l)
        <5>1. \A i \in 1 .. m + 1 : i \in 1 .. m \/ i = m + 1
          BY <2>1
        <5>2. m + 1 \in 1 .. m + 1 /\ \A i \in 1 .. m : i \in 1 .. m + 1
          BY <2>1
        <5> QED BY <2>1, <3>1, <5>1, <5>2 DEF Cover
      <4>2. Cover(all) \subseteq Nat /\ CoverTo(k) \subseteq Nat
        BY DEF Cover, CoverTo
      <4>3. Cover(merged) = CoverTo(k - 1)
        BY <1>3
      <4> QED BY <2>3, <4>1, <4>2, <4>3
    <3>6. all # <<>> /\ Last(all).start <= ranges[k].start
      BY <2>1, <2>2, <3>1 DEF Last, range
    <3> QED BY <3>1, <3>2, <3>4, <3>5, <3>6 DEF range
  <2> QED BY <2>7, <2>8 DEF range
<1> HIDE DEF Good
<1>4. PICK trace : Merging!IsTrace(0, ranges, trace) /\ Merging!Fold(0, ranges) = trace[n]
  BY Merging!FoldHasTrace
<1>5. merge_ranges(ranges) = Merging!Fold(0, ranges)
  BY DEF merge_ranges, FoldLeft, MapThenFoldSet, Max, Nothing, Merged,
         Merging!Fold, Merging!FoldLeft, Merging!MapThenFoldSet, Merging!Max
<1>6. /\ trace[0] = <<>>
      /\ \A k \in 1 .. n : trace[k] = MergeRange(trace[k - 1], ranges[k])
  BY <1>4 DEF Merging!IsTrace, Nothing, Merged
<1> DEFINE Bad == {k \in 0 .. n : ~Good(k, trace[k])}
<1>7. Bad = {}
  <2> SUFFICES ASSUME Bad # {}
               PROVE  FALSE
    OBVIOUS
  <2>1. Bad \in SUBSET Nat
    BY <1>1
  <2>2. PICK k \in Bad : \A j \in Bad : k <= j
    BY <2>1, Merging!Least
  <2>3. k # 0
    BY <1>2, <1>6
  <2>4. k \in 1 .. n /\ k - 1 \in 0 .. n /\ ~(k <= k - 1)
    BY <1>1, <2>3
  <2>5. Good(k - 1, trace[k - 1])
    BY <2>2, <2>4
  <2> QED BY <1>3, <1>6, <2>4, <2>5
<1>8. Good(n, trace[n])
  BY <1>1, <1>7
<1>9. Cover(ranges) = CoverTo(n)
  BY <1>1 DEF Cover
<1>10. \A merged : Good(n, merged) =>
          /\ merged \in Seq(Span) /\ Apart(merged) /\ Cover(merged) = CoverTo(n)
  <2> HIDE DEF CoverTo, Span
  <2> QED BY DEF Good
<1> HIDE DEF CoverTo
<1> QED BY <1>4, <1>5, <1>8, <1>9, <1>10

\* The lines that a matching line makes wanted: its context, and what is
\* between it and the heading of its section.
IsWanted(plan, lines, i, j) ==
  \/ j - i \in -plan.budget.context_lines .. plan.budget.context_lines
  \/ \E h \in 0 .. j : j <= i /\ InSection(lines, h, i)

WantedLines(plan, lines) ==
  {j \in 0 .. Len(lines) - 1 : \E i \in MatchingLines(plan, lines) : IsWanted(plan, lines, i, j)}

\* Where the range of a matching line begins and ends.
LEMMA RangeOfParts ==
  ASSUME NEW plan, IsPlan(plan), NEW lines \in Seq(Line), NEW i \in 0 .. Len(lines) - 1
  PROVE  LET ctx      == plan.budget.context_lines
             start    == Larger(i - ctx, 0)
             headings == {h \in 0 .. i : Heading(lines, h)}
             range    == RangeOf(plan, lines, i)
         IN  /\ Len(lines) \in Nat /\ i \in Nat /\ ctx \in Nat
             /\ range = LineRange(range.start, range.end)
             /\ range.end = Smaller(i + ctx, Len(lines) - 1)
             /\ headings = {} => range.start = start
             /\ headings # {} => \E h \in headings : /\ range.start = Smaller(h, start)
                                                    /\ \A g \in headings : g <= h
<1> DEFINE ctx      == plan.budget.context_lines
           start    == Larger(i - ctx, 0)
           headings == {h \in 0 .. i : Heading(lines, h)}
           greatest == CHOOSE h \in headings : \A g \in headings : g <= h
           heading  == IF headings = {} THEN start ELSE greatest
           end      == Smaller(i + ctx, Len(lines) - 1)
<1>1. Len(lines) \in Nat /\ i \in Nat /\ ctx \in Nat
  BY LenProperties DEF IsPlan
<1>2. RangeOf(plan, lines, i) = LineRange(Smaller(heading, start), end)
  BY DEF RangeOf, Heading
<1>3. headings # {} => greatest \in headings /\ \A g \in headings : g <= greatest
  <2> SUFFICES ASSUME headings # {}
               PROVE  greatest \in headings /\ \A g \in headings : g <= greatest
    OBVIOUS
  <2>1. headings \in SUBSET (0 .. i)
    OBVIOUS
  <2> HIDE DEF headings
  <2>2. \E h \in headings : \A g \in headings : h >= g
    BY <1>1, <2>1, Needles!Greatest
  <2>3. \E h \in headings : \A g \in headings : g <= h
    BY <1>1, <2>1, <2>2
  <2> QED BY <2>3
<1>4. start \in Nat
  BY <1>1 DEF Larger
<1> HIDE DEF headings, greatest, start, end
<1>5. /\ RangeOf(plan, lines, i).start = Smaller(heading, start)
      /\ RangeOf(plan, lines, i).end = end
  BY <1>2 DEF LineRange
<1>6. headings = {} => Smaller(heading, start) = start
  BY <1>4 DEF Smaller
<1>7. headings # {} => heading = greatest
  OBVIOUS
<1> HIDE DEF heading
<1> QED BY <1>1, <1>2, <1>3, <1>5, <1>6, <1>7 DEF headings, start, end

\* A matching line's range holds what it makes wanted.
LEMMA RangeIsWanted ==
  ASSUME NEW plan, IsPlan(plan), NEW lines \in Seq(Line), NEW i \in 0 .. Len(lines) - 1,
         NEW j \in Nat
  PROVE  Covers(RangeOf(plan, lines, i), j) <=>
           j \in 0 .. Len(lines) - 1 /\ IsWanted(plan, lines, i, j)
<1> DEFINE ctx      == plan.budget.context_lines
           start    == Larger(i - ctx, 0)
           headings == {h \in 0 .. i : Heading(lines, h)}
           range    == RangeOf(plan, lines, i)
           n        == Len(lines)
<1>1. /\ n \in Nat /\ i \in Nat /\ i < n /\ ctx \in Nat
      /\ range.end = Smaller(i + ctx, n - 1)
      /\ headings = {} => range.start = start
      /\ headings # {} => \E h \in headings : /\ range.start = Smaller(h, start)
                                             /\ \A g \in headings : g <= h
  <2>1. /\ n \in Nat /\ i \in Nat /\ ctx \in Nat
        /\ range.end = Smaller(i + ctx, n - 1)
        /\ headings = {} => range.start = start
        /\ headings # {} => \E h \in headings : /\ range.start = Smaller(h, start)
                                               /\ \A g \in headings : g <= h
    BY RangeOfParts
  <2>2. i < n
    BY <2>1
  <2> QED BY <2>1, <2>2
<1>2. start \in 0 .. i /\ (start <= j <=> i - ctx <= j)
  BY <1>1 DEF Larger
<1>3. j <= range.end <=> j <= i + ctx /\ j <= n - 1
  BY <1>1 DEF Smaller
<1>4. j - i \in -ctx .. ctx <=> i - ctx <= j /\ j <= i + ctx
  BY <1>1
<1>5. ASSUME NEW h \in 0 .. j, j <= i
      PROVE  InSection(lines, h, i) <=> h \in headings /\ \A g \in headings : g <= h
  <2>1. h <= i /\ h \in 0 .. i
    BY <1>1, <1>5
  <2>2. (\A g \in h + 1 .. i : ~Heading(lines, g)) <=> \A g \in headings : g <= h
    <3>1. \A g : g \in h + 1 .. i <=> g \in 0 .. i /\ ~(g <= h)
      BY <1>1, <2>1
    <3> QED BY <3>1
  <2> QED BY <2>1, <2>2 DEF InSection
<1> HIDE DEF start, ctx, n, range
<1>6. CASE headings = {}
  <2>1. ~ \E h \in 0 .. j : j <= i /\ InSection(lines, h, i)
    <3> HIDE DEF headings
    <3> QED BY <1>5, <1>6
  <2> HIDE DEF headings
  <2>2. Covers(range, j) <=> start <= j /\ j <= range.end
    BY <1>1, <1>6 DEF Covers
  <2>3. IsWanted(plan, lines, i, j) <=> j - i \in -ctx .. ctx
    BY <2>1 DEF IsWanted, ctx
  <2> QED BY <1>1, <1>2, <1>3, <1>4, <2>2, <2>3 DEF range, n
<1>7. CASE headings # {}
  <2>1. PICK h \in headings : range.start = Smaller(h, start) /\ \A g \in headings : g <= h
    BY <1>1, <1>7
  <2>2. h \in 0 .. i /\ h \in Nat
    BY <1>1
  <2>3. (\E k \in 0 .. j : j <= i /\ InSection(lines, k, i)) <=> h <= j /\ j <= i
    <3>1. ASSUME NEW k \in 0 .. j, j <= i, InSection(lines, k, i)
          PROVE  h <= j
      <4>1. k \in headings /\ h <= k
        BY <1>5, <3>1
      <4> HIDE DEF headings
      <4> QED BY <2>2, <4>1
    <3>2. ASSUME h <= j, j <= i
          PROVE  h \in 0 .. j /\ InSection(lines, h, i)
      <4>1. h \in 0 .. j
        BY <2>2, <3>2
      <4> QED BY <1>5, <2>1, <3>2, <4>1
    <3> QED BY <3>1, <3>2
  <2> HIDE DEF headings
  <2>4. IsWanted(plan, lines, i, j) <=> j - i \in -ctx .. ctx \/ (h <= j /\ j <= i)
    BY <2>3 DEF IsWanted, ctx
  <2>5. Covers(range, j) <=> (h <= j \/ start <= j) /\ j <= range.end
    <3>1. Smaller(h, start) <= j <=> h <= j \/ start <= j
      BY <1>2, <2>2 DEF Smaller
    <3> QED BY <2>1, <3>1 DEF Covers
  <2>6. start <= i /\ start \in Nat
    BY <1>1, <1>2
  <2> QED BY <1>1, <1>2, <1>3, <1>4, <2>2, <2>4, <2>5, <2>6 DEF range, n
<1> QED BY <1>6, <1>7

\* The ranges of later matching lines do not begin earlier.
LEMMA RangesAscend ==
  ASSUME NEW plan, IsPlan(plan), NEW lines \in Seq(Line),
         NEW i \in 0 .. Len(lines) - 1, NEW k \in 0 .. Len(lines) - 1, i < k
  PROVE  RangeOf(plan, lines, i).start <= RangeOf(plan, lines, k).start
<1> DEFINE ctx      == plan.budget.context_lines
           start(l) == Larger(l - ctx, 0)
           headings(l) == {h \in 0 .. l : Heading(lines, h)}
           first(l) == RangeOf(plan, lines, l).start
<1>1. /\ i \in Nat /\ k \in Nat /\ ctx \in Nat
      /\ headings(i) = {} => first(i) = start(i)
      /\ headings(i) # {} => \E h \in headings(i) : /\ first(i) = Smaller(h, start(i))
                                                   /\ \A g \in headings(i) : g <= h
      /\ headings(k) = {} => first(k) = start(k)
      /\ headings(k) # {} => \E h \in headings(k) : /\ first(k) = Smaller(h, start(k))
                                                   /\ \A g \in headings(k) : g <= h
  BY RangeOfParts
<1>2. start(i) <= start(k) /\ start(i) <= i /\ start(i) \in Nat /\ start(k) \in Nat
  BY <1>1, SMTT(30) DEF Larger
<1>3. \A h \in 0 .. i : h \in 0 .. k
  BY <1>1
<1>4. headings(i) \subseteq headings(k) /\ \A h \in headings(k) : h \in headings(i) \/ i < h
  BY <1>1, <1>3
<1>5. \A h \in headings(k) : h \in Nat
  BY <1>1
<1>6. first(i) <= start(i) /\ first(i) \in Nat
  <2>1. \A h \in headings(i) : h \in Nat
    BY <1>4, <1>5
  <2> HIDE DEF headings, start, first
  <2> QED BY <1>1, <1>2, <2>1 DEF Smaller
<1> HIDE DEF headings, start, first
<1>7. CASE headings(k) = {}
  BY <1>1, <1>2, <1>4, <1>6, <1>7 DEF first
<1>8. CASE headings(k) # {}
  <2>1. PICK h \in headings(k) : first(k) = Smaller(h, start(k)) /\ \A g \in headings(k) : g <= h
    BY <1>1, <1>8
  <2>2. first(i) <= h
    <3>1. CASE i < h
      BY <1>1, <1>2, <1>5, <1>6, <3>1
    <3>2. CASE h \in headings(i)
      <4>1. PICK g \in headings(i) :
                   first(i) = Smaller(g, start(i)) /\ \A f \in headings(i) : f <= g
        BY <1>1, <3>2
      <4>2. g <= h /\ h <= g /\ g \in Nat /\ h \in Nat
        BY <1>4, <1>5, <2>1, <3>2, <4>1
      <4> QED BY <1>2, <4>1, <4>2 DEF Smaller
    <3> QED BY <1>4, <3>1, <3>2
  <2>3. h \in Nat
    BY <1>5
  <2> QED BY <1>2, <1>6, <2>1, <2>2, <2>3 DEF Smaller, first
<1> QED BY <1>7, <1>8

\* For every plan and file the cited ranges are the maximal runs of the lines
\* wanted, in file order (matching_ranges, merge_ranges).
THEOREM RangesAreRuns ==
  ASSUME NEW plan, IsPlan(plan), NEW lines \in Seq(Line)
  PROVE  /\ matching_ranges(plan, lines) \in Seq(Span) /\ Apart(matching_ranges(plan, lines))
         /\ ToSet(matching_ranges(plan, lines)) = RunsOf(WantedLines(plan, lines))
<1> DEFINE M == MatchingLines(plan, lines)
           matching == Ascending(M)
           range(k) == RangeOf(plan, lines, matching[k])
           ranges == [k \in DOMAIN matching |-> range(k)]
           n == Cardinality(M)
           merged == matching_ranges(plan, lines)
<1>1. Len(lines) \in Nat
  BY LenProperties
<1>2. M \in SUBSET (0 .. Len(lines) - 1) /\ IsFiniteSet(0 .. Len(lines) - 1)
  BY <1>1, FS_Interval, SMTT(30) DEF MatchingLines
<1>3. M \in SUBSET Int /\ IsFiniteSet(M)
  <2> HIDE DEF M
  <2>1. IsFiniteSet(M)
    BY <1>2, FS_Subset
  <2> QED BY <1>2, <2>1
<1>4. merged = merge_ranges(ranges)
  BY DEF matching_ranges
<1> HIDE DEF M, merged
<1>5. /\ matching \in Seq(M) /\ Len(matching) = n /\ n \in Nat
      /\ \A i \in M : \E k \in 1 .. n : matching[k] = i
      /\ \A j, k \in 1 .. n : j < k => matching[j] < matching[k]
  BY <1>3, AscendingLists
<1> HIDE DEF matching, n
<1>6. DOMAIN matching = 1 .. n /\ \A k \in 1 .. n : matching[k] \in M
  BY <1>5, LenProperties, ElementOfSeq
<1>7. \A k \in 1 .. n : matching[k] \in 0 .. Len(lines) - 1
  BY <1>2, <1>6
<1>8. \A k \in 1 .. n : range(k) \in Span
  BY <1>7, RangeOfType DEF Span, RangesOf
<1>9. \A j, k \in 1 .. n : j < k => range(j).start <= range(k).start
  BY <1>5, <1>7, RangesAscend
<1>10. \A k \in 1 .. n : \A j \in Nat :
         Covers(range(k), j) <=> j \in 0 .. Len(lines) - 1 /\ IsWanted(plan, lines, matching[k], j)
  BY <1>7, RangeIsWanted
<1> HIDE DEF range
<1>11. /\ DOMAIN ranges = 1 .. n /\ \A k \in 1 .. n : ranges[k] = range(k)
  BY <1>6
<1>12. ranges \in Seq(Span)
  <2> HIDE DEF Span
  <2> QED BY <1>5, <1>6, <1>8
<1> HIDE DEF ranges
<1>13. merged \in Seq(Span) /\ Apart(merged) /\ Cover(merged) = Cover(ranges)
  <2>1. \A j, k \in DOMAIN ranges : j < k => ranges[j].start <= ranges[k].start
    BY <1>9, <1>11
  <2> HIDE DEF Span
  <2> QED BY <1>4, <1>12, <2>1, MergeCovers
<1>14. Cover(ranges) = WantedLines(plan, lines)
  <2>1. ASSUME NEW j \in Cover(ranges)
        PROVE  j \in WantedLines(plan, lines)
    <3>1. PICK k \in 1 .. n : j \in Nat /\ Covers(range(k), j)
      BY <1>11 DEF Cover
    <3> QED BY <1>6, <1>10, <3>1 DEF WantedLines, M
  <2>2. ASSUME NEW j \in WantedLines(plan, lines)
        PROVE  j \in Cover(ranges)
    <3>1. PICK i \in M : j \in 0 .. Len(lines) - 1 /\ IsWanted(plan, lines, i, j)
      BY DEF WantedLines, M
    <3>2. PICK k \in 1 .. n : matching[k] = i
      BY <1>5
    <3>3. j \in Nat
      BY <1>1, <3>1
    <3>4. Covers(range(k), j)
      BY <1>10, <3>1, <3>2, <3>3
    <3> QED BY <1>11, <3>3, <3>4 DEF Cover
  <2> QED BY <2>1, <2>2
<1>15. ToSet(merged) = RunsOf(WantedLines(plan, lines))
  BY <1>13, <1>14, ApartAreRuns
<1> QED BY <1>13, <1>15 DEF merged

(***************************************************************************)
(* Ranking.                                                                *)
(***************************************************************************)

\* Of any two blocks of one search, which reads each path once, one is ranked
\* before the other: the ranking, and what truncation to max_blocks keeps,
\* does not depend on the order in which files were scanned (compare_ranked).
THEOREM BlocksRankTotally ==
  ASSUME NEW plan, IsPlan(plan),
         NEW path1 \in ByteString, NEW bytes1 \in ByteString,
         NEW path2 \in ByteString, NEW bytes2 \in ByteString,
         path1 = path2 => bytes1 = bytes2,
         NEW p \in ToSet(blocks_for_file(plan, path1, bytes1)),
         NEW q \in ToSet(blocks_for_file(plan, path2, bytes2)), p # q
  PROVE  RankedBefore(p, q) <=> ~RankedBefore(q, p)
<1> DEFINE lines1 == ParseLines(bytes1)
           lines2 == ParseLines(bytes2)
           ranges1 == matching_ranges(plan, lines1)
           ranges2 == matching_ranges(plan, lines2)
<1>1. PICK k \in DOMAIN ranges1 :
        /\ p = build_block(plan, path1, bytes1, lines1, ranges1[k])
        /\ p.line_start = ranges1[k].start + 1 /\ ranges1[k].start \in Nat
        /\ p.path.bytes = path1 /\ p.score \in Nat /\ p.byte_start \in Nat
  BY BuiltBlocks
<1>2. PICK l \in DOMAIN ranges2 :
        /\ q = build_block(plan, path2, bytes2, lines2, ranges2[l])
        /\ q.line_start = ranges2[l].start + 1 /\ ranges2[l].start \in Nat
        /\ q.path.bytes = path2 /\ q.score \in Nat /\ q.byte_start \in Nat
  BY BuiltBlocks
<1>3. CASE path1 # path2
  <2>1. /\ BytesBefore(path1, path2) => ~BytesBefore(path2, path1)
        /\ BytesBefore(path1, path2) \/ BytesBefore(path2, path1)
    BY <1>3, BytesOrdered
  <2> HIDE DEF ranges1, ranges2
  <2> QED BY <1>1, <1>2, <1>3, <2>1 DEF RankedBefore
<1>4. CASE path1 = path2
  <2>1. bytes1 = bytes2 /\ ranges1 = ranges2 /\ k # l
    BY <1>1, <1>2, <1>4
  <2>2. ranges1 \in Seq(Span) /\ Apart(ranges1)
    BY LinesType, RangesAreRuns
  <2>3. DOMAIN ranges1 = 1 .. Len(ranges1) /\ Len(ranges1) \in Nat
    BY <2>2, LenProperties
  <2>4. \A i \in DOMAIN ranges1 : /\ ranges1[i].start \in Nat /\ ranges1[i].end \in Nat
                                  /\ ranges1[i].start <= ranges1[i].end
    <3> TAKE i \in DOMAIN ranges1
    <3>1. ranges1[i] \in Span
      <4> HIDE DEF Span, ranges1
      <4> QED BY <2>2, <2>3, ElementOfSeq
    <3> QED BY <3>1 DEF Span
  <2> HIDE DEF ranges1, ranges2
  <2>5. k < l \/ l < k
    BY <2>1, <2>3
  <2>6. ranges1[k].start < ranges1[l].start \/ ranges1[l].start < ranges1[k].start
    BY <2>1, <2>2, <2>4, <2>5 DEF Apart
  <2>7. p.line_start < q.line_start \/ q.line_start < p.line_start
    BY <1>1, <1>2, <2>1, <2>6
  <2>8. ~BytesBefore(path1, path1)
    BY BytesOrdered
  <2> QED BY <1>1, <1>2, <1>4, <2>7, <2>8 DEF RankedBefore
<1> QED BY <1>3, <1>4

(***************************************************************************)
(* Digests.  A preimage is a sequence of numbers; a set of sequences is a  *)
(* code if none of them begins another, so that a preimage which begins    *)
(* with one of them begins with no other.                                  *)
(***************************************************************************)

IsCode(C) ==
  /\ C \subseteq Stream
  /\ \A p, q \in C, r, s \in Stream : Join(p, r) = Join(q, s) => p = q

\* What begins with two elements of a code begins with one.
LEMMA CodeCancels ==
  ASSUME NEW C, IsCode(C), NEW p \in C, NEW q \in C,
         NEW r \in Stream, NEW s \in Stream, Join(p, r) = Join(q, s)
  PROVE  p = q /\ r = s
<1>1. p = q
  BY DEF IsCode
<1>2. p \in Stream
  BY DEF IsCode
<1> QED BY <1>1, <1>2, StreamsConcat

\* An element of one code and then an element of another.
Cat(C, D) == {Join(p, q) : p \in C, q \in D}

\* What is made of two codes is a code.
LEMMA CodesConcat ==
  ASSUME NEW C, NEW D, IsCode(C), IsCode(D)
  PROVE  IsCode(Cat(C, D))
<1>1. \A p \in C, q \in D : p \in Stream /\ q \in Stream
  BY DEF IsCode
<1>2. Cat(C, D) \subseteq Stream
  BY <1>1, StreamsConcat DEF Cat
<1>3. ASSUME NEW p \in C, NEW q \in D, NEW p2 \in C, NEW q2 \in D,
             NEW r \in Stream, NEW s \in Stream, Join(Join(p, q), r) = Join(Join(p2, q2), s)
      PROVE  Join(p, q) = Join(p2, q2)
  <2>1. Join(p, Join(q, r)) = Join(p2, Join(q2, s))
    BY <1>1, <1>3, StreamsConcat
  <2>2. Join(q, r) \in Stream /\ Join(q2, s) \in Stream
    BY <1>1, StreamsConcat
  <2>3. p = p2 /\ Join(q, r) = Join(q2, s)
    BY <2>1, <2>2, CodeCancels
  <2>4. q = q2
    BY <2>3, CodeCancels
  <2> QED BY <2>3, <2>4
<1> QED BY <1>2, <1>3 DEF IsCode, Cat

\* A frame tells where it ends.
LEMMA FramesAreCode ==
  /\ \A f \in Stream : Frame(f) \in Stream
  /\ \A f, g \in Stream : Frame(f) = Frame(g) => f = g
  /\ IsCode({Frame(f) : f \in Stream})
<1>1. \A f \in Stream : Len(f) \in Nat /\ <<Len(f)>> \in Stream
  BY LenProperties DEF Stream
<1>2. \A f \in Stream : Frame(f) = Join(<<Len(f)>>, f)
  BY DEF Frame, Join
<1>3. \A f \in Stream : Frame(f) \in Stream
  <2> TAKE f \in Stream
  <2> DEFINE head == <<Len(f)>>
  <2>1. Frame(f) = Join(head, f) /\ head \in Stream
    BY <1>1, <1>2
  <2> HIDE DEF head
  <2> QED BY <2>1, StreamsConcat
<1>4. ASSUME NEW f \in Stream, NEW g \in Stream, NEW r \in Stream, NEW s \in Stream,
             Join(Frame(f), r) = Join(Frame(g), s)
      PROVE  f = g
  <2>1. Join(<<Len(f)>>, Join(f, r)) = Join(<<Len(g)>>, Join(g, s))
    BY <1>1, <1>2, <1>4, StreamsConcat
  <2>2. Join(f, r) \in Stream /\ Join(g, s) \in Stream
    BY StreamsConcat
  <2>3. Len(f) = Len(g)
    <3>1. ASSUME NEW h \in Stream, NEW t \in Stream
          PROVE  Join(<<Len(h)>>, t)[1] = Len(h)
      BY <1>1, <3>1, ConcatProperties, LenProperties DEF Stream, Join
    <3> QED BY <2>1, <2>2, <3>1
  <2>4. Join(f, r) = Join(g, s)
    BY <1>1, <2>1, <2>2, <2>3, StreamsConcat
  <2>5. \A i \in 1 .. Len(f) : f[i] = g[i]
    <3>1. ASSUME NEW h \in Stream, NEW t \in Stream, NEW i \in 1 .. Len(h)
          PROVE  Join(h, t)[i] = h[i]
      <4>1. Len(h) \in Nat /\ Len(t) \in Nat
        BY LenProperties DEF Stream
      <4>2. i \in 1 .. Len(h) + Len(t) /\ i <= Len(h)
        BY <4>1
      <4> QED BY <4>2, ConcatProperties DEF Stream, Join
    <3> QED BY <2>3, <2>4, <3>1
  <2> QED BY <2>3, <2>5, SeqEqual DEF Stream
<1>5. \A f, g \in Stream : Frame(f) = Frame(g) => f = g
  <2> TAKE f, g \in Stream
  <2> HAVE Frame(f) = Frame(g)
  <2>1. Join(Frame(f), <<>>) = Join(Frame(g), <<>>) /\ <<>> \in Stream
    BY StreamsConcat
  <2> QED BY <1>4, <2>1
<1> QED BY <1>3, <1>4, <1>5 DEF IsCode

\* How a number is written, digit by digit.
DecimalStep(g, n) == IF n < 10 THEN <<48 + n>> ELSE Join(g[n \div 10], <<48 + (n % 10)>>)

Writes(g, m) == \A n \in 0 .. m : g[n] = DecimalStep(g, n)

\* A tenth of a number is less than it, and what is left over is a digit.
LEMMA Tenth ==
  ASSUME NEW n \in Nat
  PROVE  /\ n \div 10 \in Nat /\ n % 10 \in 0 .. 9 /\ n = 10 * (n \div 10) + (n % 10)
         /\ n >= 10 => n \div 10 < n /\ n \div 10 <= n - 1
OBVIOUS

\* The recursion of Decimal has a solution, and Decimal is one.
LEMMA DecimalDefined ==
  \A n \in Nat : Decimal[n] = DecimalStep(Decimal, n)
<1>1. ASSUME NEW m \in Nat, NEW g, NEW h, Writes(g, m), Writes(h, m)
      PROVE  \A n \in 0 .. m : g[n] = h[n]
  <2> DEFINE Bad == {n \in 0 .. m : g[n] # h[n]}
  <2> SUFFICES ASSUME Bad # {}
               PROVE  FALSE
    OBVIOUS
  <2>1. Bad \in SUBSET Nat
    OBVIOUS
  <2>2. PICK n \in Bad : \A k \in Bad : n <= k
    BY <2>1, Flat!Least
  <2>3. n \in Nat /\ n \in 0 .. m /\ g[n] # h[n]
    OBVIOUS
  <2>4. g[n] = DecimalStep(g, n) /\ h[n] = DecimalStep(h, n)
    BY <1>1, <2>3 DEF Writes
  <2>5. n >= 10
    BY <2>3, <2>4 DEF DecimalStep
  <2>6. n \div 10 \in Nat /\ n \div 10 < n /\ n \div 10 \in 0 .. m
    BY <2>3, <2>5, Tenth
  <2>7. g[n \div 10] = h[n \div 10]
    <3>1. n \div 10 \notin Bad
      BY <2>2, <2>3, <2>6
    <3> QED BY <2>6, <3>1
  <2> QED BY <2>3, <2>4, <2>7 DEF DecimalStep
<1> DEFINE Solved(m) == \E g : Writes(g, m)
           Bad == {m \in Nat : ~Solved(m)}
<1>2. Solved(0)
  <2> DEFINE g == [n \in {0} |-> <<48 + n>>]
  <2>1. \A n \in 0 .. 0 : g[n] = DecimalStep(g, n)
    BY DEF DecimalStep
  <2> HIDE DEF g
  <2> QED BY <2>1 DEF Writes
<1>3. ASSUME NEW m \in Nat, Solved(m)
      PROVE  Solved(m + 1)
  <2>1. PICK g : Writes(g, m)
    BY <1>3
  <2> DEFINE h == [n \in 0 .. m + 1 |-> DecimalStep(g, n)]
  <2>2. \A n \in 0 .. m : h[n] = g[n]
    BY <2>1 DEF Writes
  <2>3. \A n \in 0 .. m + 1 : h[n] = DecimalStep(g, n)
    OBVIOUS
  <2> HIDE DEF h
  <2>4. ASSUME NEW n \in 0 .. m + 1
        PROVE  DecimalStep(g, n) = DecimalStep(h, n)
    <3>1. CASE n < 10
      BY <3>1 DEF DecimalStep
    <3>2. CASE n >= 10
      <4>1. n \div 10 \in 0 .. m
        BY <3>2, Tenth
      <4>2. g[n \div 10] = h[n \div 10]
        BY <2>2, <4>1
      <4> QED BY <4>2 DEF DecimalStep
    <3> QED BY <3>1, <3>2
  <2> QED BY <2>3, <2>4 DEF Writes
<1>4. Bad = {}
  <2> SUFFICES ASSUME Bad # {}
               PROVE  FALSE
    OBVIOUS
  <2> HIDE DEF Solved
  <2>1. PICK m \in Bad : \A k \in Bad : m <= k
    BY Flat!Least
  <2>2. m # 0
    BY <1>2
  <2>3. m - 1 \in Nat /\ m - 1 \notin Bad
    BY <2>1, <2>2
  <2>4. Solved(m - 1 + 1)
    BY <1>3, <2>3
  <2> QED BY <2>1, <2>3, <2>4
<1> DEFINE pick(m) == CHOOSE g : Writes(g, m)
           G == [n \in Nat |-> pick(n)[n]]
<1>5. \A m \in Nat : Writes(pick(m), m)
  BY <1>4
<1> HIDE DEF pick
<1>6. ASSUME NEW n \in Nat
      PROVE  DecimalStep(pick(n), n) = DecimalStep(G, n)
  <2>1. CASE n < 10
    BY <2>1 DEF DecimalStep
  <2>2. CASE n >= 10
    <3> DEFINE t == n \div 10
    <3>1. t \in Nat /\ t \in 0 .. t /\ \A k \in 0 .. t : k \in 0 .. n
      BY <2>2, Tenth
    <3> HIDE DEF t
    <3>2. Writes(pick(n), t) /\ Writes(pick(t), t)
      BY <1>5, <3>1 DEF Writes
    <3>3. pick(n)[t] = pick(t)[t]
      BY <1>1, <3>1, <3>2
    <3>4. G[t] = pick(t)[t]
      BY <3>1
    <3> HIDE DEF G
    <3> QED BY <3>3, <3>4 DEF DecimalStep, t
  <2> QED BY <2>1, <2>2
<1>7. G = [n \in Nat |-> DecimalStep(G, n)]
  <2>1. \A n \in Nat : pick(n)[n] = DecimalStep(pick(n), n)
    BY <1>5 DEF Writes
  <2> SUFFICES \A n \in Nat : pick(n)[n] = DecimalStep(G, n)
    OBVIOUS
  <2> HIDE DEF G
  <2> QED BY <1>6, <2>1
<1> HIDE DEF G
<1>8. Decimal = CHOOSE g : g = [n \in Nat |-> DecimalStep(g, n)]
  BY DEF Decimal, DecimalStep, Join
<1>9. Decimal = [n \in Nat |-> DecimalStep(Decimal, n)]
  BY <1>7, <1>8
<1> QED BY <1>9

\* Two numbers are written alike only if they are one number.
LEMMA DecimalTells ==
  \A n \in Nat : /\ Decimal[n] \in Stream /\ Len(Decimal[n]) >= 1
                 /\ \A m \in Nat : Decimal[m] = Decimal[n] => m = n
<1> DEFINE Wide(n) == Decimal[n] \in Stream /\ Len(Decimal[n]) >= 1
           Alike(n) == \A m \in Nat : Decimal[m] = Decimal[n] => m = n
           BadWide == {n \in Nat : ~Wide(n)}
           Bad == {n \in Nat : ~Alike(n)}
<1>1. ASSUME NEW n \in Nat, n < 10
      PROVE  Decimal[n] = <<48 + n>>
  BY <1>1, DecimalDefined DEF DecimalStep
<1>2. ASSUME NEW n \in Nat, n >= 10
      PROVE  Decimal[n] = Join(Decimal[n \div 10], <<48 + (n % 10)>>)
  <2>1. ~(n < 10)
    BY <1>2
  <2>2. DecimalStep(Decimal, n) = Join(Decimal[n \div 10], <<48 + (n % 10)>>)
    BY <2>1, Zenon DEF DecimalStep
  <2> QED BY <2>2, DecimalDefined
<1>3. ASSUME NEW n \in Nat, n < 10
      PROVE  Decimal[n] \in Stream /\ Len(Decimal[n]) = 1
  <2> DEFINE d == 48 + n
  <2>1. d \in Nat /\ Decimal[n] = <<d>>
    BY <1>1, <1>3
  <2> HIDE DEF d
  <2> QED BY <2>1 DEF Stream
<1>4. ASSUME NEW n \in Nat, n >= 10, Wide(n \div 10)
      PROVE  /\ Decimal[n] \in Stream /\ Len(Decimal[n]) = Len(Decimal[n \div 10]) + 1
             /\ Len(Decimal[n]) >= 2
             /\ Decimal[n][Len(Decimal[n])] = 48 + (n % 10)
  <2> DEFINE p == Decimal[n \div 10]
             d == 48 + (n % 10)
  <2>1. d \in Nat
    BY Tenth
  <2>2. p \in Seq(Nat) /\ Len(p) \in Nat /\ Len(p) >= 1
    BY <1>4, LenProperties DEF Stream
  <2> DEFINE q == Join(p, <<d>>)
  <2>3. Decimal[n] = q
    BY <1>2, <1>4
  <2> HIDE DEF p, d
  <2>4. q \in Seq(Nat) /\ Len(q) = Len(p) + 1 /\ q[Len(p) + 1] = d
    BY <2>1, <2>2 DEF Join
  <2> HIDE DEF q
  <2>5. Len(q) >= 2
    BY <2>2, <2>4
  <2>6. /\ Decimal[n] \in Seq(Nat) /\ Len(Decimal[n]) = Len(p) + 1
        /\ Decimal[n][Len(p) + 1] = d /\ Len(Decimal[n]) >= 2
    BY <2>3, <2>4, <2>5
  <2> QED BY <2>4, <2>6 DEF p, d, Stream
<1>5. BadWide = {}
  <2> SUFFICES ASSUME BadWide # {}
               PROVE  FALSE
    OBVIOUS
  <2> HIDE DEF Wide
  <2>1. PICK n \in BadWide : \A k \in BadWide : n <= k
    BY Flat!Least
  <2>2. n >= 10
    <3>1. n \in Nat /\ ~Wide(n)
      OBVIOUS
    <3>2. ASSUME n < 10
          PROVE  Wide(n)
      <4>1. Decimal[n] \in Stream /\ Len(Decimal[n]) = 1
        BY <1>3, <3>1, <3>2
      <4> QED BY <4>1 DEF Wide
    <3> QED BY <3>1, <3>2
  <2>3. n \div 10 \in Nat /\ n \div 10 < n
    BY <2>2, Tenth
  <2>4. Wide(n \div 10)
    BY <2>1, <2>3
  <2>5. Wide(n)
    <3>1. Decimal[n] \in Stream /\ Len(Decimal[n]) >= 2 /\ Len(Decimal[n]) \in Nat
      BY <1>4, <2>2, <2>4, LenProperties DEF Stream
    <3> QED BY <3>1 DEF Wide
  <2> QED BY <2>5
<1>6. \A n \in Nat : Wide(n)
  BY <1>5
<1> HIDE DEF Wide
<1>7. Bad = {}
  <2> SUFFICES ASSUME Bad # {}
               PROVE  FALSE
    OBVIOUS
  <2>1. PICK n \in Bad : \A k \in Bad : n <= k
    BY Flat!Least
  <2>2. PICK m \in Nat : Decimal[m] = Decimal[n] /\ m # n
    BY <2>1
  <2>3. m % 10 \in 0 .. 9 /\ n % 10 \in 0 .. 9 /\ m \div 10 \in Nat /\ n \div 10 \in Nat
    BY Tenth
  <2>4. CASE n < 10 /\ m < 10
    BY <1>1, <2>2, <2>4
  <2>5. CASE n < 10 /\ m >= 10
    <3>1. Len(Decimal[n]) = 1
      BY <1>3, <2>2, <2>5
    <3>2. Len(Decimal[m]) >= 2
      BY <1>4, <1>6, <2>2, <2>3, <2>5
    <3> QED BY <2>2, <3>1, <3>2
  <2>6. CASE n >= 10 /\ m < 10
    <3>1. Len(Decimal[m]) = 1
      BY <1>3, <2>2, <2>6
    <3>2. Len(Decimal[n]) >= 2
      BY <1>4, <1>6, <2>2, <2>3, <2>6
    <3> QED BY <2>2, <3>1, <3>2
  <2>7. CASE n >= 10 /\ m >= 10
    <3>1. m % 10 = n % 10
      <4>1. Decimal[n][Len(Decimal[n])] = 48 + (n % 10)
        BY <1>4, <1>6, <2>3, <2>7
      <4>2. Decimal[m][Len(Decimal[m])] = 48 + (m % 10)
        BY <1>4, <1>6, <2>3, <2>7
      <4> QED BY <2>2, <2>3, <4>1, <4>2
    <3>2. Decimal[m \div 10] = Decimal[n \div 10]
      <4> DEFINE p == Decimal[m \div 10]
                 q == Decimal[n \div 10]
                 d == <<48 + (n % 10)>>
      <4>1. p \in Seq(Nat) /\ q \in Seq(Nat)
        BY <1>6, <2>3 DEF Wide, Stream
      <4>2. d \in Seq(Nat)
        BY <2>3
      <4>3. Join(p, d) = Join(q, d)
        BY <1>2, <2>2, <2>7, <3>1
      <4> HIDE DEF p, q, d
      <4>4. p = q
        BY <4>1, <4>2, <4>3, ConcatSimplifications DEF Join
      <4> QED BY <4>4 DEF p, q
    <3>3. n \div 10 < n
      BY <2>7, Tenth
    <3>4. m \div 10 = n \div 10
      <4>1. n \div 10 \notin Bad
        BY <2>1, <2>3, <3>3
      <4> QED BY <2>3, <3>2, <4>1
    <3> QED BY <2>2, <2>3, <3>1, <3>4, Tenth
  <2> QED BY <2>4, <2>5, <2>6, <2>7
<1> QED BY <1>6, <1>7 DEF Wide

\* A number tells where it ends, and which number it is.
LEMMA NumbersAreCode ==
  /\ \A n \in Nat : Number(n) \in Stream
  /\ \A m, n \in Nat : Number(m) = Number(n) => m = n
  /\ IsCode({Number(n) : n \in Nat})
<1>1. \A n \in Nat : Decimal[n] \in Stream
  BY DecimalTells
<1>2. {Number(n) : n \in Nat} \subseteq {Frame(f) : f \in Stream}
  BY <1>1 DEF Number
<1>3. \A m, n \in Nat : Number(m) = Number(n) => m = n
  BY <1>1, DecimalTells, FramesAreCode DEF Number
<1>4. IsCode({Number(n) : n \in Nat})
  BY <1>2, FramesAreCode DEF IsCode
<1> QED BY <1>1, <1>3, <1>4, FramesAreCode DEF Number

\* A list of elements of a code, of known length, tells where it ends.
LEMMA ListsTell ==
  ASSUME NEW C, IsCode(C), NEW A \in Seq(C), NEW B \in Seq(C), Len(A) = Len(B),
         NEW r \in Stream, NEW s \in Stream,
         Join(FlattenSeq(A), r) = Join(FlattenSeq(B), s)
  PROVE  A = B /\ r = s
<1> DEFINE Tell(n) ==
             \A v, w \in Seq(C), p, q \in Stream :
               /\ Len(v) = n /\ Len(w) = n
               /\ Join(Flat!Fold(0, v), p) = Join(Flat!Fold(0, w), q)
               => v = w /\ p = q
           Bad == {n \in Nat : ~Tell(n)}
<1>1. \A v \in Seq(C) : /\ v \in Seq(Stream) /\ FlattenSeq(v) = Flat!Fold(0, v)
                        /\ Flat!Fold(0, v) \in Stream
  <2>1. \A v \in Seq(C) : v \in Seq(Stream)
    BY SeqMonotonic DEF IsCode
  <2> QED BY <2>1, Flattened
<1>2. Tell(0)
  <2>1. \A v \in Seq(C) : Len(v) = 0 => v = <<>>
    BY EmptySeq
  <2>2. Flat!Fold(0, <<>>) = <<>>
    BY Flat!FoldEmpty DEF Empty
  <2> QED BY <2>1, <2>2, StreamsConcat
<1>3. ASSUME NEW n \in Nat, Tell(n)
      PROVE  Tell(n + 1)
  <2> SUFFICES ASSUME NEW v \in Seq(C), NEW w \in Seq(C), NEW p \in Stream, NEW q \in Stream,
                      Len(v) = n + 1, Len(w) = n + 1,
                      Join(Flat!Fold(0, v), p) = Join(Flat!Fold(0, w), q)
               PROVE  v = w /\ p = q
    OBVIOUS
  <2> HIDE DEF Tell
  <2>1. v # <<>> /\ w # <<>>
    BY EmptySeq
  <2>2. PICK v0 \in Seq(C), a0 \in C : v = Append(v0, a0)
    BY <2>1, SequenceEmptyOrAppend
  <2>3. PICK w0 \in Seq(C), b0 \in C : w = Append(w0, b0)
    BY <2>1, SequenceEmptyOrAppend
  <2>4. Len(v0) = n /\ Len(w0) = n
    <3>1. Len(v) = Len(v0) + 1 /\ Len(w) = Len(w0) + 1
      BY <2>2, <2>3, AppendProperties
    <3>2. Len(v0) \in Nat /\ Len(w0) \in Nat
      BY LenProperties
    <3> QED BY <3>1, <3>2
  <2>5. a0 \in Stream /\ b0 \in Stream
    BY DEF IsCode
  <2>6. /\ Flat!Fold(0, v) = Join(Flat!Fold(0, v0), a0)
        /\ Flat!Fold(0, w) = Join(Flat!Fold(0, w0), b0)
    BY <2>2, <2>3, Flat!FoldAppend DEF Joined
  <2>7. Flat!Fold(0, v0) \in Stream /\ Flat!Fold(0, w0) \in Stream
    BY <1>1
  <2>8. Join(Flat!Fold(0, v0), Join(a0, p)) = Join(Flat!Fold(0, w0), Join(b0, q))
    BY <2>5, <2>6, <2>7, StreamsConcat
  <2>9. Join(a0, p) \in Stream /\ Join(b0, q) \in Stream
    BY <2>5, StreamsConcat
  <2>10. v0 = w0 /\ Join(a0, p) = Join(b0, q)
    BY <1>3, <2>4, <2>8, <2>9 DEF Tell
  <2>11. a0 = b0 /\ p = q
    BY <2>10, CodeCancels
  <2> QED BY <2>2, <2>3, <2>10, <2>11
<1>4. Bad = {}
  <2> SUFFICES ASSUME Bad # {}
               PROVE  FALSE
    OBVIOUS
  <2> HIDE DEF Tell
  <2>1. PICK m \in Bad : \A k \in Bad : m <= k
    BY Flat!Least
  <2>2. m # 0
    BY <1>2
  <2>3. m - 1 \in Nat /\ m - 1 \notin Bad
    BY <2>1, <2>2
  <2>4. Tell(m - 1 + 1)
    BY <1>3, <2>3
  <2> QED BY <2>1, <2>3, <2>4
<1>5. Len(A) \in Nat
  BY LenProperties
<1>6. Tell(Len(A))
  BY <1>4, <1>5
<1> QED BY <1>1, <1>6

FrameCode  == {Frame(f) : f \in Stream}
NumberCode == {Number(n) : n \in Nat}

StringsCode == {Strings(v) : v \in Seq(Stream)}

\* A list of strings tells where it ends, and which strings they are
\* (update_strings).
LEMMA StringsAreCode ==
  /\ IsCode(StringsCode)
  /\ \A v, w \in Seq(Stream) : Strings(v) = Strings(w) => v = w
<1> DEFINE List(v) == [k \in DOMAIN v |-> Frame(v[k])]
<1>1. ASSUME NEW v \in Seq(Stream)
      PROVE  /\ List(v) \in Seq(FrameCode) /\ Len(List(v)) = Len(v)
             /\ \A k \in DOMAIN v : v[k] \in Stream /\ List(v)[k] = Frame(v[k])
             /\ Len(v) \in Nat /\ DOMAIN v = 1 .. Len(v)
  <2>1. Len(v) \in Nat /\ DOMAIN v = 1 .. Len(v) /\ \A k \in DOMAIN v : v[k] \in Stream
    BY LenProperties, ElementOfSeq
  <2>2. \A k \in 1 .. Len(v) : Frame(v[k]) \in FrameCode
    BY <2>1 DEF FrameCode
  <2> QED BY <2>1, <2>2
<1>2. ASSUME NEW v \in Seq(Stream)
      PROVE  /\ Strings(v) = Join(Number(Len(v)), FlattenSeq(List(v)))
             /\ FlattenSeq(List(v)) \in Stream /\ Number(Len(v)) \in Stream
             /\ Strings(v) \in Stream
  <2>1. Strings(v) = Join(Number(Len(v)), FlattenSeq(List(v)))
    BY Zenon DEF Strings, Frames, Join
  <2>2. List(v) \in Seq(Stream)
    <3>1. FrameCode \subseteq Stream
      BY FramesAreCode DEF FrameCode
    <3> HIDE DEF List
    <3> QED BY <1>1, <3>1, SeqMonotonic
  <2> HIDE DEF List
  <2>3. FlattenSeq(List(v)) \in Stream /\ Number(Len(v)) \in Stream
    BY <1>1, <2>2, Flattened, NumbersAreCode
  <2> QED BY <2>1, <2>3, StreamsConcat
<1> HIDE DEF List
<1>3. ASSUME NEW v \in Seq(Stream), NEW w \in Seq(Stream),
             NEW r \in Stream, NEW s \in Stream, Join(Strings(v), r) = Join(Strings(w), s)
      PROVE  v = w
  <2>1. Join(Number(Len(v)), Join(FlattenSeq(List(v)), r))
          = Join(Number(Len(w)), Join(FlattenSeq(List(w)), s))
    BY <1>2, <1>3, StreamsConcat
  <2>2. /\ Number(Len(v)) \in NumberCode /\ Number(Len(w)) \in NumberCode
        /\ IsCode(NumberCode)
    BY <1>1, NumbersAreCode DEF NumberCode
  <2>3. /\ Join(FlattenSeq(List(v)), r) \in Stream
        /\ Join(FlattenSeq(List(w)), s) \in Stream
    BY <1>2, StreamsConcat
  <2>4. /\ Number(Len(v)) = Number(Len(w))
        /\ Join(FlattenSeq(List(v)), r) = Join(FlattenSeq(List(w)), s)
    BY <2>1, <2>2, <2>3, CodeCancels
  <2>5. Len(v) = Len(w)
    BY <1>1, <2>4, NumbersAreCode
  <2>6. List(v) = List(w)
    BY <1>1, <2>4, <2>5, ListsTell, FramesAreCode DEF FrameCode
  <2>7. \A k \in 1 .. Len(v) : v[k] = w[k]
    BY <1>1, <2>5, <2>6, FramesAreCode
  <2> QED BY <2>5, <2>7, SeqEqual
<1>4. \A v, w \in Seq(Stream) : Strings(v) = Strings(w) => v = w
  <2> TAKE v, w \in Seq(Stream)
  <2> HAVE Strings(v) = Strings(w)
  <2>1. Join(Strings(v), <<>>) = Join(Strings(w), <<>>) /\ <<>> \in Stream
    BY StreamsConcat
  <2> QED BY <1>3, <2>1
<1> QED BY <1>2, <1>3, <1>4 DEF IsCode, StringsCode

\* Equal concatenations of elements of a code and what follows have equal parts.
LEMMA PairsTell ==
  ASSUME NEW C, NEW D, IsCode(C), IsCode(D),
         NEW p \in C, NEW p2 \in C, NEW q \in D, NEW q2 \in D
  PROVE  /\ Join(p, q) \in Cat(C, D) /\ IsCode(Cat(C, D))
         /\ Join(p, q) = Join(p2, q2) => p = p2 /\ q = q2
<1>1. q \in Stream /\ q2 \in Stream
  BY DEF IsCode
<1>2. Join(p, q) = Join(p2, q2) => p = p2 /\ q = q2
  BY <1>1, CodeCancels
<1>3. Join(p, q) \in Cat(C, D)
  BY DEF Cat
<1> QED BY <1>2, <1>3, CodesConcat

Scores == [exact_phrase : Nat, identifier : Nat, all_terms : Nat,
           heading : Nat, path : Nat, proximity : Nat]

ScoreCode == {ScoreFrames(s) : s \in Scores}

\* The components of a score tell where they end, and which they are.
LEMMA ScoresAreCode ==
  /\ IsCode(ScoreCode)
  /\ \A v, w \in Scores : ScoreFrames(v) = ScoreFrames(w) => v = w
<1> DEFINE Parts(s) == <<s.exact_phrase, s.identifier, s.all_terms,
                         s.heading, s.path, s.proximity>>
           List(s)  == [k \in DOMAIN Parts(s) |-> Number(Parts(s)[k])]
<1>1. ASSUME NEW s \in Scores
      PROVE  /\ List(s) \in Seq(NumberCode) /\ Len(List(s)) = 6
             /\ \A k \in 1 .. 6 : List(s)[k] = Number(Parts(s)[k]) /\ Parts(s)[k] \in Nat
  <2>1. DOMAIN Parts(s) = 1 .. 6 /\ \A k \in 1 .. 6 : Parts(s)[k] \in Nat
    BY DEF Scores
  <2> HIDE DEF Parts
  <2>2. List(s) = [k \in 1 .. 6 |-> Number(Parts(s)[k])]
    BY <2>1
  <2>3. \A k \in 1 .. 6 : Number(Parts(s)[k]) \in NumberCode
    BY <2>1 DEF NumberCode
  <2> QED BY <2>1, <2>2, <2>3
<1>2. ASSUME NEW s \in Scores
      PROVE  ScoreFrames(s) = FlattenSeq(List(s)) /\ FlattenSeq(List(s)) \in Stream
  <2>1. ScoreFrames(s) = FlattenSeq(List(s))
    BY Zenon DEF ScoreFrames, Frames
  <2>2. NumberCode \subseteq Stream
    BY NumbersAreCode DEF NumberCode
  <2> HIDE DEF List
  <2>3. List(s) \in Seq(Stream)
    BY <1>1, <2>2, SeqMonotonic
  <2> QED BY <2>1, <2>3, Flattened
<1>3. ASSUME NEW v \in Scores, NEW w \in Scores,
             NEW r \in Stream, NEW s \in Stream,
             Join(ScoreFrames(v), r) = Join(ScoreFrames(w), s)
      PROVE  v = w
  <2> HIDE DEF List
  <2>1. List(v) = List(w)
    <3>1. IsCode(NumberCode)
      BY NumbersAreCode DEF NumberCode
    <3>2. /\ List(v) \in Seq(NumberCode) /\ List(w) \in Seq(NumberCode)
          /\ Len(List(v)) = Len(List(w))
      BY <1>1
    <3>3. Join(FlattenSeq(List(v)), r) = Join(FlattenSeq(List(w)), s)
      BY <1>2, <1>3
    <3> HIDE DEF Parts
    <3> QED BY <3>1, <3>2, <3>3, ListsTell
  <2> HIDE DEF Parts
  <2>2. \A k \in 1 .. 6 : Parts(v)[k] = Parts(w)[k]
    BY <1>1, <2>1, NumbersAreCode, SMTT(30)
  <2>3. /\ Parts(v)[1] = Parts(w)[1] /\ Parts(v)[2] = Parts(w)[2]
        /\ Parts(v)[3] = Parts(w)[3] /\ Parts(v)[4] = Parts(w)[4]
        /\ Parts(v)[5] = Parts(w)[5] /\ Parts(v)[6] = Parts(w)[6]
    BY <2>2
  <2> QED BY <2>3 DEF Parts, Scores
<1>4. \A v, w \in Scores : ScoreFrames(v) = ScoreFrames(w) => v = w
  <2> TAKE v, w \in Scores
  <2> HAVE ScoreFrames(v) = ScoreFrames(w)
  <2>1. Join(ScoreFrames(v), <<>>) = Join(ScoreFrames(w), <<>>) /\ <<>> \in Stream
    BY StreamsConcat
  <2> QED BY <1>3, <2>1
<1> HIDE DEF List, Parts
<1> QED BY <1>2, <1>3, <1>4 DEF IsCode, ScoreCode

\* A part of a code is a code.
LEMMA PartOfCode ==
  ASSUME NEW C, NEW D, IsCode(D), C \subseteq D
  PROVE  IsCode(C)
BY DEF IsCode

\* What is hashed of a block: all its fields, path and content decoded.
Attested(block) == [block EXCEPT !.path = @.bytes, !.content = @.bytes]

BlockCode == {BlockFrames(block) : block \in BlockType}

\* The frames of a block tell where they end, and which block they are of
\* (update_block).
LEMMA BlocksAreCode ==
  /\ IsCode(BlockCode)
  /\ \A one, two \in BlockType :
       BlockFrames(one) = BlockFrames(two) => Attested(one) = Attested(two)
<1> DEFINE P1(one)  == Frame(one.path.bytes)
           P2(one)  == Join(P1(one), Number(one.line_start))
           P3(one)  == Join(P2(one), Number(one.line_end))
           P4(one)  == Join(P3(one), Number(one.byte_start))
           P5(one)  == Join(P4(one), Number(one.byte_end))
           P6(one)  == Join(P5(one), Frame(one.content.bytes))
           P7(one)  == Join(P6(one), Strings(one.matched_terms))
           P8(one)  == Join(P7(one), Number(one.score))
           P9(one)  == Join(P8(one), ScoreFrames(one.score_components))
           P10(one) == Join(P9(one), Strings(one.why))
           P11(one) == Join(P10(one), Frame(one.block_id))
           P12(one) == Join(P11(one), Frame(one.source_sha256))
           K1  == FrameCode
           K2  == Cat(K1, NumberCode)
           K3  == Cat(K2, NumberCode)
           K4  == Cat(K3, NumberCode)
           K5  == Cat(K4, NumberCode)
           K6  == Cat(K5, FrameCode)
           K7  == Cat(K6, StringsCode)
           K8  == Cat(K7, NumberCode)
           K9  == Cat(K8, ScoreCode)
           K10 == Cat(K9, StringsCode)
           K11 == Cat(K10, FrameCode)
           K12 == Cat(K11, FrameCode)
<1>1. \A one : BlockFrames(one) = P12(one)
  BY Zenon DEF BlockFrames, Join
<1>2. IsCode(FrameCode) /\ IsCode(NumberCode) /\ IsCode(StringsCode) /\ IsCode(ScoreCode)
  BY FramesAreCode, NumbersAreCode, StringsAreCode, ScoresAreCode DEF FrameCode, NumberCode
<1>3. ASSUME NEW one \in BlockType
      PROVE  /\ Frame(one.path.bytes) \in FrameCode /\ Frame(one.content.bytes) \in FrameCode
             /\ Frame(one.block_id) \in FrameCode /\ Frame(one.source_sha256) \in FrameCode
             /\ Number(one.line_start) \in NumberCode /\ Number(one.line_end) \in NumberCode
             /\ Number(one.byte_start) \in NumberCode /\ Number(one.byte_end) \in NumberCode
             /\ Number(one.score) \in NumberCode
             /\ Strings(one.matched_terms) \in StringsCode /\ Strings(one.why) \in StringsCode
             /\ ScoreFrames(one.score_components) \in ScoreCode
  BY DEF BlockType, Stream, FrameCode, NumberCode, StringsCode, ScoreCode, Scores
<1>4. ASSUME NEW one \in BlockType, NEW two \in BlockType
      PROVE  /\ P12(one) \in K12 /\ IsCode(K12)
             /\ P12(one) = P12(two) => Attested(one) = Attested(two)
  <2>1. P1(one) \in K1 /\ P1(two) \in K1 /\ IsCode(K1)
    BY <1>2, <1>3
  <2> HIDE DEF P1, K1
  <2>2. /\ P2(one) \in K2 /\ P2(two) \in K2 /\ IsCode(K2)
        /\ P2(one) = P2(two) => P1(one) = P1(two) /\ Number(one.line_start) = Number(two.line_start)
    BY <1>2, <1>3, <2>1, PairsTell
  <2> HIDE DEF P2, K2
  <2>3. /\ P3(one) \in K3 /\ P3(two) \in K3 /\ IsCode(K3)
        /\ P3(one) = P3(two) => P2(one) = P2(two) /\ Number(one.line_end) = Number(two.line_end)
    BY <1>2, <1>3, <2>2, PairsTell
  <2> HIDE DEF P3, K3
  <2>4. /\ P4(one) \in K4 /\ P4(two) \in K4 /\ IsCode(K4)
        /\ P4(one) = P4(two) => P3(one) = P3(two) /\ Number(one.byte_start) = Number(two.byte_start)
    BY <1>2, <1>3, <2>3, PairsTell
  <2> HIDE DEF P4, K4
  <2>5. /\ P5(one) \in K5 /\ P5(two) \in K5 /\ IsCode(K5)
        /\ P5(one) = P5(two) => P4(one) = P4(two) /\ Number(one.byte_end) = Number(two.byte_end)
    BY <1>2, <1>3, <2>4, PairsTell
  <2> HIDE DEF P5, K5
  <2>6. /\ P6(one) \in K6 /\ P6(two) \in K6 /\ IsCode(K6)
        /\ P6(one) = P6(two)
             => /\ P5(one) = P5(two)
                /\ Frame(one.content.bytes) = Frame(two.content.bytes)
    BY <1>2, <1>3, <2>5, PairsTell
  <2> HIDE DEF P6, K6
  <2>7. /\ P7(one) \in K7 /\ P7(two) \in K7 /\ IsCode(K7)
        /\ P7(one) = P7(two)
             => /\ P6(one) = P6(two)
                /\ Strings(one.matched_terms) = Strings(two.matched_terms)
    BY <1>2, <1>3, <2>6, PairsTell
  <2> HIDE DEF P7, K7
  <2>8. /\ P8(one) \in K8 /\ P8(two) \in K8 /\ IsCode(K8)
        /\ P8(one) = P8(two) => P7(one) = P7(two) /\ Number(one.score) = Number(two.score)
    BY <1>2, <1>3, <2>7, PairsTell
  <2> HIDE DEF P8, K8
  <2>9. /\ P9(one) \in K9 /\ P9(two) \in K9 /\ IsCode(K9)
        /\ P9(one) = P9(two)
             => /\ P8(one) = P8(two)
                /\ ScoreFrames(one.score_components) = ScoreFrames(two.score_components)
    BY <1>2, <1>3, <2>8, PairsTell
  <2> HIDE DEF P9, K9
  <2>10. /\ P10(one) \in K10 /\ P10(two) \in K10 /\ IsCode(K10)
         /\ P10(one) = P10(two) => P9(one) = P9(two) /\ Strings(one.why) = Strings(two.why)
    BY <1>2, <1>3, <2>9, PairsTell
  <2> HIDE DEF P10, K10
  <2>11. /\ P11(one) \in K11 /\ P11(two) \in K11 /\ IsCode(K11)
         /\ P11(one) = P11(two) => P10(one) = P10(two) /\ Frame(one.block_id) = Frame(two.block_id)
    BY <1>2, <1>3, <2>10, PairsTell
  <2> HIDE DEF P11, K11
  <2>12. /\ P12(one) \in K12 /\ P12(two) \in K12 /\ IsCode(K12)
         /\ P12(one) = P12(two)
              => /\ P11(one) = P11(two)
                 /\ Frame(one.source_sha256) = Frame(two.source_sha256)
    BY <1>2, <1>3, <2>11, PairsTell
  <2> HIDE DEF P12, K12
  <2>13. ASSUME P12(one) = P12(two)
         PROVE  Attested(one) = Attested(two)
    <3>1. /\ Frame(one.path.bytes) = Frame(two.path.bytes)
          /\ Frame(one.content.bytes) = Frame(two.content.bytes)
          /\ Frame(one.block_id) = Frame(two.block_id)
          /\ Frame(one.source_sha256) = Frame(two.source_sha256)
          /\ Number(one.line_start) = Number(two.line_start)
          /\ Number(one.line_end) = Number(two.line_end)
          /\ Number(one.byte_start) = Number(two.byte_start)
          /\ Number(one.byte_end) = Number(two.byte_end)
          /\ Number(one.score) = Number(two.score)
          /\ Strings(one.matched_terms) = Strings(two.matched_terms)
          /\ Strings(one.why) = Strings(two.why)
          /\ ScoreFrames(one.score_components) = ScoreFrames(two.score_components)
      BY <2>2, <2>3, <2>4, <2>5, <2>6, <2>7, <2>8, <2>9, <2>10, <2>11, <2>12, <2>13 DEF P1
    <3>2. /\ one.path.bytes = two.path.bytes /\ one.content.bytes = two.content.bytes
          /\ one.block_id = two.block_id /\ one.source_sha256 = two.source_sha256
      <4>1. /\ one.path.bytes \in Stream /\ two.path.bytes \in Stream
            /\ one.content.bytes \in Stream /\ two.content.bytes \in Stream
            /\ one.block_id \in Stream /\ two.block_id \in Stream
            /\ one.source_sha256 \in Stream /\ two.source_sha256 \in Stream
        BY DEF BlockType, Stream
      <4> QED BY <3>1, <4>1, FramesAreCode
    <3>3. /\ one.line_start = two.line_start /\ one.line_end = two.line_end
          /\ one.byte_start = two.byte_start /\ one.byte_end = two.byte_end /\ one.score = two.score
      <4>1. /\ one.line_start \in Nat /\ two.line_start \in Nat
            /\ one.line_end \in Nat /\ two.line_end \in Nat
            /\ one.byte_start \in Nat /\ two.byte_start \in Nat
            /\ one.byte_end \in Nat /\ two.byte_end \in Nat
            /\ one.score \in Nat /\ two.score \in Nat
        BY DEF BlockType
      <4> QED BY <3>1, <4>1, NumbersAreCode
    <3>4. one.matched_terms = two.matched_terms /\ one.why = two.why
      <4>1. /\ one.matched_terms \in Seq(Stream) /\ two.matched_terms \in Seq(Stream)
            /\ one.why \in Seq(Stream) /\ two.why \in Seq(Stream)
        BY DEF BlockType, Stream
      <4> QED BY <3>1, <4>1, StringsAreCode
    <3>5. one.score_components = two.score_components
      <4>1. one.score_components \in Scores /\ two.score_components \in Scores
        BY DEF BlockType, Scores
      <4> QED BY <3>1, <4>1, ScoresAreCode
    <3> QED BY <3>2, <3>3, <3>4, <3>5 DEF Attested, BlockType
  <2> QED BY <2>12, <2>13
<1> HIDE DEF P12, K12
<1>5. IsCode(BlockCode)
  <2>1. CASE BlockType = {}
    BY <2>1 DEF BlockCode, IsCode
  <2>2. CASE BlockType # {}
    <3>1. BlockCode \subseteq K12 /\ IsCode(K12)
      BY <1>1, <1>4, <2>2 DEF BlockCode
    <3> QED BY <3>1, PartOfCode
  <2> QED BY <2>1, <2>2
<1> QED BY <1>1, <1>4, <1>5

SkipType == [path : [encoding : Encodings, bytes : Stream], reason : ToSet(SkipReasons)]

AttestedSkip(skip) == [skip EXCEPT !.path = @.bytes]

SkipCode == {SkipFrames(skip) : skip \in SkipType}

\* A reason is hashed as its place in the declaration, which tells it (skip_reason).
LEMMA ReasonsTell ==
  \A p, q \in ToSet(SkipReasons) : /\ ReasonOrder(p) \in Nat
                                   /\ ReasonOrder(p) = ReasonOrder(q) => p = q
<1>1. \A p \in ToSet(SkipReasons) : /\ ReasonOrder(p) \in DOMAIN SkipReasons
                                    /\ SkipReasons[ReasonOrder(p)] = p
  BY DEF ToSet, ReasonOrder
<1>2. DOMAIN SkipReasons \subseteq Nat
  BY DEF SkipReasons
<1> QED BY <1>1, <1>2

\* The frames of a gap tell where they end, and which gap they are of.
LEMMA SkipsAreCode ==
  /\ IsCode(SkipCode)
  /\ \A p, q \in SkipType : SkipFrames(p) = SkipFrames(q) => AttestedSkip(p) = AttestedSkip(q)
<1>1. \A p : SkipFrames(p) = Join(Frame(p.path.bytes), ReasonFrame(p.reason))
  BY Zenon DEF SkipFrames, Join
<1>2. IsCode(FrameCode)
  BY FramesAreCode DEF FrameCode
<1>3. ASSUME NEW p \in SkipType
      PROVE  Frame(p.path.bytes) \in FrameCode /\ ReasonFrame(p.reason) \in FrameCode
  <2>1. p.path.bytes \in Stream /\ p.reason \in ToSet(SkipReasons)
    BY DEF SkipType
  <2>2. ReasonOrder(p.reason) \in Nat
    BY <2>1, ReasonsTell
  <2>3. <<1100 + ReasonOrder(p.reason)>> \in Stream
    BY <2>2 DEF Stream
  <2> QED BY <2>1, <2>2, <2>3 DEF FrameCode, ReasonFrame
<1>4. SkipCode \subseteq Cat(FrameCode, FrameCode)
  <2> SUFFICES ASSUME NEW p \in SkipType
               PROVE  SkipFrames(p) \in Cat(FrameCode, FrameCode)
    BY DEF SkipCode
  <2> QED BY <1>1, <1>3 DEF Cat
<1>5. IsCode(SkipCode)
  BY <1>2, <1>4, CodesConcat, PartOfCode
<1>6. ASSUME NEW p \in SkipType, NEW q \in SkipType, SkipFrames(p) = SkipFrames(q)
      PROVE  AttestedSkip(p) = AttestedSkip(q)
  <2>1. /\ Frame(p.path.bytes) = Frame(q.path.bytes)
        /\ ReasonFrame(p.reason) = ReasonFrame(q.reason)
    <3>1. Join(Frame(p.path.bytes), ReasonFrame(p.reason))
            = Join(Frame(q.path.bytes), ReasonFrame(q.reason))
      BY <1>1, <1>6
    <3> QED BY <1>2, <1>3, <3>1, PairsTell
  <2>2. p.path.bytes = q.path.bytes
    <3>1. p.path.bytes \in Stream /\ q.path.bytes \in Stream
      BY DEF SkipType
    <3> QED BY <2>1, <3>1, FramesAreCode
  <2>3. /\ p.reason \in ToSet(SkipReasons) /\ q.reason \in ToSet(SkipReasons)
        /\ ReasonOrder(p.reason) \in Nat /\ ReasonOrder(q.reason) \in Nat
    BY ReasonsTell DEF SkipType
  <2>4. ReasonOrder(p.reason) = ReasonOrder(q.reason)
    <3> DEFINE mark(k) == 1100 + ReasonOrder(k.reason)
    <3>1. <<mark(p)>> \in Stream /\ <<mark(q)>> \in Stream
      BY <2>3 DEF Stream
    <3>2. Frame(<<mark(p)>>) = Frame(<<mark(q)>>)
      BY <2>1 DEF ReasonFrame
    <3>3. <<mark(p)>> = <<mark(q)>>
      BY <3>1, <3>2, FramesAreCode
    <3>4. mark(p) = mark(q)
      <4> HIDE DEF mark
      <4> QED BY <3>3
    <3> QED BY <2>3, <3>4
  <2>5. p.reason = q.reason
    BY <2>3, <2>4, ReasonsTell
  <2> QED BY <2>2, <2>5 DEF AttestedSkip, SkipType
<1> QED BY <1>5, <1>6

CriticType ==
  [verdict : {"accepted", "rejected"}, covered_quoted_phrases : Seq(Stream),
   covered_identifiers : Seq(Stream), uncovered : Seq(Stream)]

\* The frames of a critic tell which critic they are of.
LEMMA CriticsTell ==
  \A c, d \in CriticType : /\ CriticFrames(c) \in Stream
                           /\ CriticFrames(c) = CriticFrames(d) => c = d
<1> DEFINE P1(c) == VerdictFrame(c.verdict)
           P2(c) == Join(P1(c), Strings(c.covered_quoted_phrases))
           P3(c) == Join(P2(c), Strings(c.covered_identifiers))
           P4(c) == Join(P3(c), Strings(c.uncovered))
           K1 == FrameCode
           K2 == Cat(K1, StringsCode)
           K3 == Cat(K2, StringsCode)
           K4 == Cat(K3, StringsCode)
           Mark(c) == <<IF c.verdict = "accepted" THEN 1201 ELSE 1202>>
<1>1. \A c : CriticFrames(c) = P4(c)
  BY Zenon DEF CriticFrames, Join
<1>2. IsCode(FrameCode) /\ IsCode(StringsCode)
  BY FramesAreCode, StringsAreCode DEF FrameCode
<1>3. ASSUME NEW c \in CriticType
      PROVE  /\ P1(c) \in K1
             /\ Strings(c.covered_quoted_phrases) \in StringsCode
             /\ Strings(c.covered_identifiers) \in StringsCode
             /\ Strings(c.uncovered) \in StringsCode
  <2>1. Mark(c) \in Stream
    BY DEF Stream
  <2>2. P1(c) \in K1
    BY <2>1 DEF FrameCode, VerdictFrame
  <2> HIDE DEF P1
  <2> QED BY <2>2 DEF CriticType, StringsCode
<1>4. \A c : P1(c) = Frame(Mark(c)) /\ Mark(c) \in Stream
  <2>1. \A c : Mark(c) \in Stream
    BY DEF Stream
  <2>2. \A c : P1(c) = Frame(Mark(c))
    BY Zenon DEF VerdictFrame
  <2> HIDE DEF P1, Mark
  <2> QED BY <2>1, <2>2
<1>5. ASSUME NEW c \in CriticType, NEW d \in CriticType
      PROVE  /\ P4(c) \in Stream
             /\ P4(c) = P4(d) => c = d
  <2> HIDE DEF Mark, P1
  <2>2. /\ P2(c) \in K2 /\ P2(d) \in K2 /\ IsCode(K2)
        /\ P2(c) = P2(d) => /\ P1(c) = P1(d)
                            /\ Strings(c.covered_quoted_phrases) = Strings(d.covered_quoted_phrases)
    BY <1>2, <1>3, PairsTell
  <2> HIDE DEF P2, K2
  <2>3. /\ P3(c) \in K3 /\ P3(d) \in K3 /\ IsCode(K3)
        /\ P3(c) = P3(d) => /\ P2(c) = P2(d)
                            /\ Strings(c.covered_identifiers) = Strings(d.covered_identifiers)
    BY <1>2, <1>3, <2>2, PairsTell
  <2> HIDE DEF P3, K3
  <2>4. /\ P4(c) \in K4 /\ P4(d) \in K4 /\ IsCode(K4)
        /\ P4(c) = P4(d) => /\ P3(c) = P3(d)
                            /\ Strings(c.uncovered) = Strings(d.uncovered)
    BY <1>2, <1>3, <2>3, PairsTell
  <2> HIDE DEF P4, K4
  <2>5. ASSUME P4(c) = P4(d)
        PROVE  c = d
    <3>1. Mark(c) = Mark(d)
      BY <1>4, <2>2, <2>3, <2>4, <2>5, FramesAreCode
    <3>2. c.verdict = d.verdict
      BY <3>1 DEF Mark, CriticType
    <3>3. /\ c.covered_quoted_phrases = d.covered_quoted_phrases
          /\ c.covered_identifiers = d.covered_identifiers /\ c.uncovered = d.uncovered
      <4>1. /\ c.covered_quoted_phrases \in Seq(Stream) /\ d.covered_quoted_phrases \in Seq(Stream)
            /\ c.covered_identifiers \in Seq(Stream) /\ d.covered_identifiers \in Seq(Stream)
            /\ c.uncovered \in Seq(Stream) /\ d.uncovered \in Seq(Stream)
        BY DEF CriticType
      <4> QED BY <2>2, <2>3, <2>4, <2>5, <4>1, StringsAreCode
    <3> QED BY <3>2, <3>3 DEF CriticType
  <2> QED BY <2>4, <2>5 DEF IsCode
<1> HIDE DEF P4
<1> QED BY <1>1, <1>5

\* Two blocks have one identifier exactly when they show the same bytes on the
\* same lines of the same path (identity.rs::block_id).
THEOREM IdentifiersBind ==
  ASSUME NEW path1 \in Stream, NEW start1 \in Nat, NEW end1 \in Nat, NEW content1 \in Stream,
         NEW path2 \in Stream, NEW start2 \in Nat, NEW end2 \in Nat, NEW content2 \in Stream
  PROVE  block_id(path1, start1, end1, content1) = block_id(path2, start2, end2, content2)
           <=> <<path1, start1, end1, content1>> = <<path2, start2, end2, content2>>
<1> DEFINE P1(path) == Join(BlockDomain, Frame(path))
           P2(path, start) == Join(P1(path), Number(start))
           P3(path, start, end) == Join(P2(path, start), Number(end))
           P4(path, start, end, content) == Join(P3(path, start, end), Frame(content))
           K0 == {BlockDomain}
           K1 == Cat(K0, FrameCode)
           K2 == Cat(K1, NumberCode)
           K3 == Cat(K2, NumberCode)
<1>1. \A path, start, end, content :
        block_id(path, start, end, content) = P4(path, start, end, content)
  BY Zenon DEF block_id, SHA256, Join
<1>2. IsCode(FrameCode) /\ IsCode(NumberCode) /\ IsCode(K0)
  <2>1. BlockDomain \in Stream
    BY DEF BlockDomain, Stream
  <2> QED BY <2>1, FramesAreCode, NumbersAreCode DEF FrameCode, NumberCode, IsCode
<1>3. /\ Frame(path1) \in FrameCode /\ Frame(path2) \in FrameCode
      /\ Number(start1) \in NumberCode /\ Number(start2) \in NumberCode
      /\ Number(end1) \in NumberCode /\ Number(end2) \in NumberCode
      /\ Frame(content1) \in FrameCode /\ Frame(content2) \in FrameCode
      /\ BlockDomain \in K0
  BY DEF FrameCode, NumberCode
<1> HIDE DEF K0
<1>4. /\ P1(path1) \in K1 /\ P1(path2) \in K1 /\ IsCode(K1)
      /\ P1(path1) = P1(path2) => Frame(path1) = Frame(path2)
  BY <1>2, <1>3, PairsTell
<1> HIDE DEF P1, K1
<1>5. /\ P2(path1, start1) \in K2 /\ P2(path2, start2) \in K2 /\ IsCode(K2)
      /\ P2(path1, start1) = P2(path2, start2)
           => P1(path1) = P1(path2) /\ Number(start1) = Number(start2)
  BY <1>2, <1>3, <1>4, PairsTell
<1> HIDE DEF P2, K2
<1>6. /\ P3(path1, start1, end1) \in K3 /\ P3(path2, start2, end2) \in K3 /\ IsCode(K3)
      /\ P3(path1, start1, end1) = P3(path2, start2, end2)
           => P2(path1, start1) = P2(path2, start2) /\ Number(end1) = Number(end2)
  BY <1>2, <1>3, <1>5, PairsTell
<1> HIDE DEF P3, K3
<1>7. /\ P4(path1, start1, end1, content1) \in Cat(K3, FrameCode)
      /\ P4(path1, start1, end1, content1) = P4(path2, start2, end2, content2)
           => /\ P3(path1, start1, end1) = P3(path2, start2, end2)
              /\ Frame(content1) = Frame(content2)
  BY <1>2, <1>3, <1>6, PairsTell
<1> HIDE DEF P4
<1>8. P4(path1, start1, end1, content1) = P4(path2, start2, end2, content2)
        => path1 = path2 /\ start1 = start2 /\ end1 = end2 /\ content1 = content2
  <2>1. /\ Frame(path1) = Frame(path2) => path1 = path2
        /\ Frame(content1) = Frame(content2) => content1 = content2
        /\ Number(start1) = Number(start2) => start1 = start2
        /\ Number(end1) = Number(end2) => end1 = end2
    BY FramesAreCode, NumbersAreCode
  <2> QED BY <1>4, <1>5, <1>6, <1>7, <2>1
<1>9. <<path1, start1, end1, content1>> = <<path2, start2, end2, content2>>
        <=> path1 = path2 /\ start1 = start2 /\ end1 = end2 /\ content1 = content2
  OBVIOUS
<1> QED BY <1>1, <1>8, <1>9

\* The fields of a bundle that are hashed; root, budget and digest are any.
IsBundle(bundle) ==
  /\ bundle.schema_version \in Stream /\ bundle.query \in Stream
  /\ bundle.blocks \in Seq(BlockType) /\ bundle.skipped \in Seq(SkipType)
  /\ bundle.critic \in CriticType

\* What is equal when decoded has equal frames.
LEMMA AttestedFrames ==
  /\ \A one, two \in BlockType :
       Attested(one) = Attested(two) => BlockFrames(one) = BlockFrames(two)
  /\ \A p, q \in SkipType : AttestedSkip(p) = AttestedSkip(q) => SkipFrames(p) = SkipFrames(q)
<1>1. ASSUME NEW one \in BlockType, NEW two \in BlockType, Attested(one) = Attested(two)
      PROVE  BlockFrames(one) = BlockFrames(two)
  <2>1. \A d \in BlockType :
          /\ Attested(d).path = d.path.bytes /\ Attested(d).content = d.content.bytes
          /\ Attested(d).line_start = d.line_start /\ Attested(d).line_end = d.line_end
          /\ Attested(d).byte_start = d.byte_start /\ Attested(d).byte_end = d.byte_end
          /\ Attested(d).matched_terms = d.matched_terms /\ Attested(d).why = d.why
          /\ Attested(d).score = d.score /\ Attested(d).score_components = d.score_components
          /\ Attested(d).block_id = d.block_id /\ Attested(d).source_sha256 = d.source_sha256
    BY DEF Attested, BlockType
  <2>2. /\ one.path.bytes = two.path.bytes /\ one.content.bytes = two.content.bytes
        /\ one.line_start = two.line_start /\ one.line_end = two.line_end
        /\ one.byte_start = two.byte_start /\ one.byte_end = two.byte_end
        /\ one.matched_terms = two.matched_terms /\ one.why = two.why
        /\ one.score = two.score /\ one.score_components = two.score_components
        /\ one.block_id = two.block_id /\ one.source_sha256 = two.source_sha256
    BY <1>1, <2>1
  <2> QED BY <2>2, Zenon DEF BlockFrames
<1>2. ASSUME NEW p \in SkipType, NEW q \in SkipType, AttestedSkip(p) = AttestedSkip(q)
      PROVE  SkipFrames(p) = SkipFrames(q)
  <2>1. \A r \in SkipType : AttestedSkip(r).path = r.path.bytes /\ AttestedSkip(r).reason = r.reason
    BY DEF AttestedSkip, SkipType
  <2>2. p.path.bytes = q.path.bytes /\ p.reason = q.reason
    BY <1>2, <2>1
  <2> QED BY <2>2, Zenon DEF SkipFrames
<1> QED BY <1>1, <1>2

BlockList(bundle) == [k \in DOMAIN bundle.blocks |-> BlockFrames(bundle.blocks[k])]
SkipList(bundle)  == [k \in DOMAIN bundle.skipped |-> SkipFrames(bundle.skipped[k])]

\* The lists hashed are lists of elements of codes.
LEMMA ListsOfBundle ==
  ASSUME NEW bundle, IsBundle(bundle)
  PROVE  /\ BlockList(bundle) \in Seq(BlockCode) /\ SkipList(bundle) \in Seq(SkipCode)
         /\ Len(BlockList(bundle)) = Len(bundle.blocks)
         /\ Len(SkipList(bundle)) = Len(bundle.skipped)
         /\ Len(bundle.blocks) \in Nat /\ DOMAIN bundle.blocks = 1 .. Len(bundle.blocks)
         /\ Len(bundle.skipped) \in Nat /\ DOMAIN bundle.skipped = 1 .. Len(bundle.skipped)
         /\ \A k \in DOMAIN bundle.blocks : /\ bundle.blocks[k] \in BlockType
                                       /\ BlockList(bundle)[k] = BlockFrames(bundle.blocks[k])
         /\ \A k \in DOMAIN bundle.skipped : /\ bundle.skipped[k] \in SkipType
                                        /\ SkipList(bundle)[k] = SkipFrames(bundle.skipped[k])
         /\ FlattenSeq(BlockList(bundle)) \in Stream /\ FlattenSeq(SkipList(bundle)) \in Stream
<1>1. /\ Len(bundle.blocks) \in Nat /\ DOMAIN bundle.blocks = 1 .. Len(bundle.blocks)
      /\ \A k \in DOMAIN bundle.blocks : bundle.blocks[k] \in BlockType
  <2>1. bundle.blocks \in Seq(BlockType)
    BY DEF IsBundle
  <2> QED BY <2>1, LenProperties, ElementOfSeq
<1>2. /\ Len(bundle.skipped) \in Nat /\ DOMAIN bundle.skipped = 1 .. Len(bundle.skipped)
      /\ \A k \in DOMAIN bundle.skipped : bundle.skipped[k] \in SkipType
  <2>1. bundle.skipped \in Seq(SkipType)
    BY DEF IsBundle
  <2> QED BY <2>1, LenProperties, ElementOfSeq
<1>3. /\ BlockList(bundle) \in Seq(BlockCode) /\ Len(BlockList(bundle)) = Len(bundle.blocks)
      /\ \A k \in DOMAIN bundle.blocks : BlockList(bundle)[k] = BlockFrames(bundle.blocks[k])
  <2>1. BlockList(bundle) = [k \in 1 .. Len(bundle.blocks) |-> BlockFrames(bundle.blocks[k])]
    BY <1>1 DEF BlockList
  <2>2. \A k \in 1 .. Len(bundle.blocks) : BlockFrames(bundle.blocks[k]) \in BlockCode
    BY <1>1 DEF BlockCode
  <2> QED BY <1>1, <2>1, <2>2
<1>4. /\ SkipList(bundle) \in Seq(SkipCode) /\ Len(SkipList(bundle)) = Len(bundle.skipped)
      /\ \A k \in DOMAIN bundle.skipped : SkipList(bundle)[k] = SkipFrames(bundle.skipped[k])
  <2>1. SkipList(bundle) = [k \in 1 .. Len(bundle.skipped) |-> SkipFrames(bundle.skipped[k])]
    BY <1>2 DEF SkipList
  <2>2. \A k \in 1 .. Len(bundle.skipped) : SkipFrames(bundle.skipped[k]) \in SkipCode
    BY <1>2 DEF SkipCode
  <2> QED BY <1>2, <2>1, <2>2
<1>5. BlockList(bundle) \in Seq(Stream) /\ SkipList(bundle) \in Seq(Stream)
  BY <1>3, <1>4, BlocksAreCode, SkipsAreCode, SeqMonotonic DEF IsCode
<1>6. FlattenSeq(BlockList(bundle)) \in Stream /\ FlattenSeq(SkipList(bundle)) \in Stream
  BY <1>5, Flattened
<1> QED BY <1>1, <1>2, <1>3, <1>4, <1>6

\* The preimage of a bundle, from its first field on.
LEMMA PreimageParts ==
  ASSUME NEW bundle, IsBundle(bundle)
  PROVE  bundle_sha256(bundle) =
           Join(BundleDomain, Join(Frame(bundle.schema_version), Join(Frame(bundle.query),
             Join(Number(Len(bundle.blocks)), Join(FlattenSeq(BlockList(bundle)),
               Join(Number(Len(bundle.skipped)), Join(FlattenSeq(SkipList(bundle)),
                 CriticFrames(bundle.critic))))))))
<1> DEFINE d == BundleDomain
           v == Frame(bundle.schema_version)
           q == Frame(bundle.query)
           m == Number(Len(bundle.blocks))
           bs == FlattenSeq(BlockList(bundle))
           n == Number(Len(bundle.skipped))
           ss == FlattenSeq(SkipList(bundle))
           cs == CriticFrames(bundle.critic)
<1>1. bundle_sha256(bundle) = Join(Join(Join(Join(Join(Join(Join(d, v), q), m), bs), n), ss), cs)
  BY Zenon DEF bundle_sha256, SHA256, BundlePreimage, Frames, BlockList, SkipList, Join
<1>2. /\ v \in Stream /\ q \in Stream /\ m \in Stream /\ bs \in Stream
      /\ n \in Stream /\ ss \in Stream /\ cs \in Stream
  BY ListsOfBundle, FramesAreCode, NumbersAreCode, CriticsTell DEF IsBundle
<1>3. d \in Stream
  BY DEF BundleDomain, Stream
<1> HIDE DEF d, v, q, m, bs, n, ss, cs
<1>4. \A p, r, s \in Stream : /\ Join(p, r) \in Stream
                              /\ Join(Join(p, r), s) = Join(p, Join(r, s))
  BY StreamsConcat
<1>5. Join(d, v) \in Stream
  BY <1>2, <1>3, <1>4
<1>6. Join(Join(d, v), q) \in Stream
  BY <1>2, <1>4, <1>5
<1>7. Join(Join(Join(d, v), q), m) \in Stream
  BY <1>2, <1>4, <1>6
<1>8. Join(Join(Join(Join(d, v), q), m), bs) \in Stream
  BY <1>2, <1>4, <1>7
<1>9. Join(Join(Join(Join(Join(d, v), q), m), bs), n) \in Stream
  BY <1>2, <1>4, <1>8
<1>10. Join(Join(Join(Join(Join(Join(Join(d, v), q), m), bs), n), ss), cs)
         = Join(Join(Join(Join(Join(Join(d, v), q), m), bs), n), Join(ss, cs))
  BY <1>2, <1>4, <1>9
<1>11. Join(ss, cs) \in Stream
  BY <1>2, <1>4
<1>12. Join(Join(Join(Join(Join(Join(d, v), q), m), bs), n), Join(ss, cs))
         = Join(Join(Join(Join(Join(d, v), q), m), bs), Join(n, Join(ss, cs)))
  BY <1>2, <1>4, <1>8, <1>11
<1>13. Join(n, Join(ss, cs)) \in Stream
  BY <1>2, <1>4, <1>11
<1>14. Join(Join(Join(Join(Join(d, v), q), m), bs), Join(n, Join(ss, cs)))
         = Join(Join(Join(Join(d, v), q), m), Join(bs, Join(n, Join(ss, cs))))
  BY <1>2, <1>4, <1>7, <1>13
<1>15. Join(bs, Join(n, Join(ss, cs))) \in Stream
  BY <1>2, <1>4, <1>13
<1>16. Join(Join(Join(Join(d, v), q), m), Join(bs, Join(n, Join(ss, cs))))
         = Join(Join(Join(d, v), q), Join(m, Join(bs, Join(n, Join(ss, cs)))))
  BY <1>2, <1>4, <1>6, <1>15
<1>17. Join(m, Join(bs, Join(n, Join(ss, cs)))) \in Stream
  BY <1>2, <1>4, <1>15
<1>18. Join(Join(Join(d, v), q), Join(m, Join(bs, Join(n, Join(ss, cs)))))
         = Join(d, Join(v, Join(q, Join(m, Join(bs, Join(n, Join(ss, cs)))))))
  <2> DEFINE z == Join(m, Join(bs, Join(n, Join(ss, cs))))
  <2>1. z \in Stream
    BY <1>17
  <2> HIDE DEF z
  <2>2. Join(Join(Join(d, v), q), z) = Join(Join(d, v), Join(q, z))
    BY <1>2, <1>4, <1>5, <2>1
  <2>3. Join(q, z) \in Stream
    BY <1>2, <1>4, <2>1
  <2>4. Join(Join(d, v), Join(q, z)) = Join(d, Join(v, Join(q, z)))
    BY <1>2, <1>3, <1>4, <2>3
  <2> QED BY <2>2, <2>4 DEF z
<1>19. bundle_sha256(bundle) = Join(d, Join(v, Join(q, Join(m, Join(bs, Join(n, Join(ss, cs)))))))
  BY <1>1, <1>10, <1>12, <1>14, <1>16, <1>18
<1> QED BY <1>19 DEF d, v, q, m, bs, n, ss, cs

\* Two bundles have one digest exactly when they agree on every attested
\* field (compute_bundle_sha256).
THEOREM DigestsBind ==
  ASSUME NEW one, NEW two, IsBundle(one), IsBundle(two)
  PROVE  bundle_sha256(one) = bundle_sha256(two) <=> Payload(one) = Payload(two)
<1> DEFINE Blocks(bundle) == [k \in DOMAIN bundle.blocks |-> Attested(bundle.blocks[k])]
           Skips(bundle)  == [k \in DOMAIN bundle.skipped |-> AttestedSkip(bundle.skipped[k])]
           R7(bundle) == CriticFrames(bundle.critic)
           R6(bundle) == Join(FlattenSeq(SkipList(bundle)), R7(bundle))
           R5(bundle) == Join(Number(Len(bundle.skipped)), R6(bundle))
           R4(bundle) == Join(FlattenSeq(BlockList(bundle)), R5(bundle))
           R3(bundle) == Join(Number(Len(bundle.blocks)), R4(bundle))
           R2(bundle) == Join(Frame(bundle.query), R3(bundle))
           R1(bundle) == Join(Frame(bundle.schema_version), R2(bundle))
<1>1. \A bundle : Payload(bundle) = <<bundle.schema_version, bundle.query, Blocks(bundle),
                                      Skips(bundle), bundle.critic>>
  BY DEF Payload, Attested, AttestedSkip
<1>2. /\ bundle_sha256(one) = Join(BundleDomain, R1(one))
      /\ bundle_sha256(two) = Join(BundleDomain, R1(two))
  BY PreimageParts
<1>3. ASSUME NEW bundle, IsBundle(bundle)
      PROVE  /\ R1(bundle) \in Stream /\ R2(bundle) \in Stream /\ R3(bundle) \in Stream
             /\ R4(bundle) \in Stream /\ R5(bundle) \in Stream /\ R6(bundle) \in Stream
             /\ R7(bundle) \in Stream
             /\ Frame(bundle.schema_version) \in FrameCode /\ Frame(bundle.query) \in FrameCode
             /\ Number(Len(bundle.blocks)) \in NumberCode
             /\ Number(Len(bundle.skipped)) \in NumberCode
  <2>1. /\ Frame(bundle.schema_version) \in FrameCode /\ Frame(bundle.query) \in FrameCode
        /\ Number(Len(bundle.blocks)) \in NumberCode /\ Number(Len(bundle.skipped)) \in NumberCode
    BY <1>3, ListsOfBundle DEF IsBundle, FrameCode, NumberCode
  <2>2. /\ Frame(bundle.schema_version) \in Stream /\ Frame(bundle.query) \in Stream
        /\ Number(Len(bundle.blocks)) \in Stream /\ Number(Len(bundle.skipped)) \in Stream
    BY <1>3, ListsOfBundle, FramesAreCode, NumbersAreCode DEF IsBundle
  <2>3. FlattenSeq(BlockList(bundle)) \in Stream /\ FlattenSeq(SkipList(bundle)) \in Stream
    BY <1>3, ListsOfBundle
  <2>4. R7(bundle) \in Stream
    BY <1>3, CriticsTell DEF IsBundle
  <2> HIDE DEF R7
  <2>5. R6(bundle) \in Stream
    BY <2>3, <2>4, StreamsConcat
  <2> HIDE DEF R6
  <2>6. R5(bundle) \in Stream
    BY <2>2, <2>5, StreamsConcat
  <2> HIDE DEF R5
  <2>7. R4(bundle) \in Stream
    BY <2>3, <2>6, StreamsConcat
  <2> HIDE DEF R4
  <2>8. R3(bundle) \in Stream
    BY <2>2, <2>7, StreamsConcat
  <2> HIDE DEF R3
  <2>9. R2(bundle) \in Stream
    BY <2>2, <2>8, StreamsConcat
  <2> HIDE DEF R2
  <2>10. R1(bundle) \in Stream
    BY <2>2, <2>9, StreamsConcat
  <2> HIDE DEF R1
  <2> QED BY <2>1, <2>4, <2>5, <2>6, <2>7, <2>8, <2>9, <2>10
<1>4. IsCode(FrameCode) /\ IsCode(NumberCode) /\ BundleDomain \in Stream
  BY FramesAreCode, NumbersAreCode DEF FrameCode, NumberCode, BundleDomain, Stream
<1>5. ASSUME bundle_sha256(one) = bundle_sha256(two)
      PROVE  Payload(one) = Payload(two)
  <2> HIDE DEF R7
  <2>1. R1(one) = R1(two)
    <3> HIDE DEF R1
    <3>1. Join(BundleDomain, R1(one)) = Join(BundleDomain, R1(two))
      BY <1>2, <1>5
    <3>2. R1(one) \in Stream /\ R1(two) \in Stream
      BY <1>3
    <3>3. \A p, r, s \in Stream : Join(p, r) = Join(p, s) => r = s
      BY StreamsConcat
    <3> QED BY <1>4, <3>1, <3>2, <3>3
  <2>2. Frame(one.schema_version) = Frame(two.schema_version) /\ R2(one) = R2(two)
    <3> HIDE DEF R2
    <3> QED BY <1>3, <1>4, <2>1, CodeCancels
  <2>3. Frame(one.query) = Frame(two.query) /\ R3(one) = R3(two)
    <3> HIDE DEF R3
    <3> QED BY <1>3, <1>4, <2>2, CodeCancels
  <2>4. Number(Len(one.blocks)) = Number(Len(two.blocks)) /\ R4(one) = R4(two)
    <3> HIDE DEF R4
    <3> QED BY <1>3, <1>4, <2>3, CodeCancels
  <2>5. Len(one.blocks) = Len(two.blocks)
    BY <2>4, ListsOfBundle, NumbersAreCode
  <2>6. BlockList(one) = BlockList(two) /\ R5(one) = R5(two)
    <3> HIDE DEF R5
    <3>1. /\ BlockList(one) \in Seq(BlockCode) /\ BlockList(two) \in Seq(BlockCode)
          /\ Len(BlockList(one)) = Len(BlockList(two))
      BY <2>5, ListsOfBundle
    <3> QED BY <1>3, <2>4, <3>1, BlocksAreCode, ListsTell
  <2>7. Number(Len(one.skipped)) = Number(Len(two.skipped)) /\ R6(one) = R6(two)
    <3> HIDE DEF R6
    <3> QED BY <1>3, <1>4, <2>6, CodeCancels
  <2>8. Len(one.skipped) = Len(two.skipped)
    BY <2>7, ListsOfBundle, NumbersAreCode
  <2>9. SkipList(one) = SkipList(two) /\ R7(one) = R7(two)
    <3>1. /\ SkipList(one) \in Seq(SkipCode) /\ SkipList(two) \in Seq(SkipCode)
          /\ Len(SkipList(one)) = Len(SkipList(two))
      BY <2>8, ListsOfBundle
    <3> QED BY <1>3, <2>7, <3>1, SkipsAreCode, ListsTell
  <2>10. one.critic = two.critic
    BY <2>9, CriticsTell DEF R7, IsBundle
  <2>11. one.schema_version = two.schema_version /\ one.query = two.query
    BY <2>2, <2>3, FramesAreCode DEF IsBundle
  <2>12. Blocks(one) = Blocks(two)
    <3>1. DOMAIN one.blocks = DOMAIN two.blocks
      BY <2>5, ListsOfBundle
    <3>2. ASSUME NEW k \in DOMAIN one.blocks
          PROVE  Attested(one.blocks[k]) = Attested(two.blocks[k])
      <4>1. one.blocks[k] \in BlockType /\ two.blocks[k] \in BlockType
        BY <3>1, ListsOfBundle
      <4>2. BlockFrames(one.blocks[k]) = BlockFrames(two.blocks[k])
        BY <2>6, <3>1, ListsOfBundle
      <4> QED BY <4>1, <4>2, BlocksAreCode
    <3> QED BY <3>1, <3>2
  <2>13. Skips(one) = Skips(two)
    <3>1. DOMAIN one.skipped = DOMAIN two.skipped
      BY <2>8, ListsOfBundle
    <3>2. ASSUME NEW k \in DOMAIN one.skipped
          PROVE  AttestedSkip(one.skipped[k]) = AttestedSkip(two.skipped[k])
      <4>1. one.skipped[k] \in SkipType /\ two.skipped[k] \in SkipType
        BY <3>1, ListsOfBundle
      <4>2. SkipFrames(one.skipped[k]) = SkipFrames(two.skipped[k])
        BY <2>9, <3>1, ListsOfBundle
      <4> QED BY <4>1, <4>2, SkipsAreCode
    <3> QED BY <3>1, <3>2
  <2> HIDE DEF Blocks, Skips
  <2> QED BY <1>1, <2>10, <2>11, <2>12, <2>13
<1>6. ASSUME Payload(one) = Payload(two)
      PROVE  bundle_sha256(one) = bundle_sha256(two)
  <2>1. /\ one.schema_version = two.schema_version /\ one.query = two.query
        /\ one.critic = two.critic
        /\ Blocks(one) = Blocks(two) /\ Skips(one) = Skips(two)
    <3> HIDE DEF Blocks, Skips
    <3> QED BY <1>1, <1>6
  <2>2. /\ DOMAIN one.blocks = DOMAIN two.blocks /\ Len(one.blocks) = Len(two.blocks)
        /\ \A k \in DOMAIN one.blocks : Attested(one.blocks[k]) = Attested(two.blocks[k])
    <3>1. DOMAIN Blocks(one) = DOMAIN one.blocks /\ DOMAIN Blocks(two) = DOMAIN two.blocks
      OBVIOUS
    <3>2. DOMAIN one.blocks = DOMAIN two.blocks
      BY <2>1, <3>1
    <3>3. \A k \in DOMAIN one.blocks : Attested(one.blocks[k]) = Attested(two.blocks[k])
      <4> TAKE k \in DOMAIN one.blocks
      <4>1. /\ Blocks(one)[k] = Attested(one.blocks[k])
            /\ Blocks(two)[k] = Attested(two.blocks[k])
        BY <3>2
      <4> QED BY <2>1, <4>1
    <3>4. Len(one.blocks) = Len(two.blocks)
      BY <3>2, ListsOfBundle
    <3> QED BY <3>2, <3>3, <3>4
  <2>3. /\ DOMAIN one.skipped = DOMAIN two.skipped /\ Len(one.skipped) = Len(two.skipped)
        /\ \A k \in DOMAIN one.skipped : AttestedSkip(one.skipped[k]) = AttestedSkip(two.skipped[k])
    <3>1. DOMAIN Skips(one) = DOMAIN one.skipped /\ DOMAIN Skips(two) = DOMAIN two.skipped
      OBVIOUS
    <3>2. DOMAIN one.skipped = DOMAIN two.skipped
      BY <2>1, <3>1
    <3>3. \A k \in DOMAIN one.skipped : AttestedSkip(one.skipped[k]) = AttestedSkip(two.skipped[k])
      <4> TAKE k \in DOMAIN one.skipped
      <4>1. /\ Skips(one)[k] = AttestedSkip(one.skipped[k])
            /\ Skips(two)[k] = AttestedSkip(two.skipped[k])
        BY <3>2
      <4> QED BY <2>1, <4>1
    <3>4. Len(one.skipped) = Len(two.skipped)
      BY <3>2, ListsOfBundle
    <3> QED BY <3>2, <3>3, <3>4
  <2>4. BlockList(one) = BlockList(two)
    <3>1. \A k \in DOMAIN one.blocks : BlockFrames(one.blocks[k]) = BlockFrames(two.blocks[k])
      BY <2>2, ListsOfBundle, AttestedFrames
    <3> QED BY <2>2, <3>1 DEF BlockList
  <2>5. SkipList(one) = SkipList(two)
    <3>1. \A k \in DOMAIN one.skipped : SkipFrames(one.skipped[k]) = SkipFrames(two.skipped[k])
      BY <2>3, ListsOfBundle, AttestedFrames
    <3> QED BY <2>3, <3>1 DEF SkipList
  <2> QED BY <1>2, <2>1, <2>2, <2>3, <2>4, <2>5
<1> QED BY <1>5, <1>6

(***************************************************************************)
(* Where lines begin and end.                                              *)
(***************************************************************************)

Ends(bytes) == Ascending(ChunkEnds(bytes))
Begins(bytes, k) == IF k = 1 THEN 0 ELSE Ends(bytes)[k - 1]
LFs(bytes, n) == {i \in 1 .. n : bytes[i] = LF}

\* A line from s to t, whose terminator ends at e.
LiesAt(bytes, s, t, e) ==
  /\ s \in Nat /\ t \in Nat /\ e \in Nat /\ s <= t /\ t <= e /\ s < e /\ e <= Len(bytes)
  /\ s = 0 \/ bytes[s] = LF
  /\ \A i \in s + 1 .. e - 1 : bytes[i] # LF
  /\ \/ t = e /\ e = Len(bytes) /\ bytes[e] # LF
     \/ t = e - 1 /\ bytes[e] = LF /\ (t = s \/ bytes[t] # CR)
     \/ t = e - 2 /\ bytes[e] = LF /\ bytes[e - 1] = CR

\* The ends of lines are line feeds, but for the last.
LEMMA EndsLie ==
  ASSUME NEW bytes \in ByteString
  PROVE  /\ Len(ParseLines(bytes)) \in Nat /\ Len(ParseLines(bytes)) = Len(Ends(bytes))
         /\ \A k \in 1 .. Len(ParseLines(bytes)) :
              /\ Ends(bytes)[k] \in 1 .. Len(bytes)
              /\ Begins(bytes, k) \in Nat /\ Begins(bytes, k) < Ends(bytes)[k]
              /\ k = 1 \/ bytes[Begins(bytes, k)] = LF
              /\ \A i \in Begins(bytes, k) + 1 .. Ends(bytes)[k] - 1 : bytes[i] # LF
              /\ bytes[Ends(bytes)[k]] = LF \/ Ends(bytes)[k] = Len(bytes)
              /\ k < Len(ParseLines(bytes)) => bytes[Ends(bytes)[k]] = LF
<1> DEFINE ends == Ends(bytes)
           n == Len(ParseLines(bytes))
<1>1. Len(bytes) \in Nat /\ DOMAIN bytes = 1 .. Len(bytes)
  BY LenProperties DEF ByteString
<1>2. ChunkEnds(bytes) \in SUBSET Int /\ ChunkEnds(bytes) \in SUBSET (1 .. Len(bytes))
  BY <1>1, ChunkEndsFinite
<1>3. /\ ends \in Seq(ChunkEnds(bytes)) /\ Len(ends) = Cardinality(ChunkEnds(bytes))
      /\ Cardinality(ChunkEnds(bytes)) \in Nat
      /\ \A i \in ChunkEnds(bytes) : \E k \in 1 .. Cardinality(ChunkEnds(bytes)) : ends[k] = i
      /\ \A j, k \in 1 .. Cardinality(ChunkEnds(bytes)) : j < k => ends[j] < ends[k]
  BY <1>2, ChunkEndsFinite, AscendingLists DEF Ends
<1>4. n = Len(ends) /\ n \in Nat
  <2>1. DOMAIN ParseLines(bytes) = DOMAIN ends
    BY DEF ParseLines, Ends
  <2>2. ParseLines(bytes) \in Seq(Line)
    BY LinesType
  <2> HIDE DEF ends
  <2> QED BY <1>3, <2>1, <2>2, LenProperties
<1> HIDE DEF ends, n
<1>5. /\ \A k \in 1 .. n : ends[k] \in ChunkEnds(bytes) /\ ends[k] \in 1 .. Len(bytes)
      /\ \A j, k \in 1 .. n : j < k => ends[j] < ends[k]
      /\ \A i \in ChunkEnds(bytes) : \E k \in 1 .. n : ends[k] = i
  BY <1>2, <1>3, <1>4
<1>6. \A k \in 1 .. n : bytes[ends[k]] = LF \/ ends[k] = Len(bytes)
  BY <1>5 DEF ChunkEnds
<1>7. \A j, k \in 1 .. n : j < k => bytes[ends[j]] = LF
  <2> TAKE j, k \in 1 .. n
  <2> HAVE j < k
  <2>1. ends[j] < ends[k] /\ ends[k] \in 1 .. Len(bytes) /\ ends[j] \in 1 .. Len(bytes)
    BY <1>5
  <2>2. ends[j] # Len(bytes)
    BY <1>1, <2>1
  <2> QED BY <1>6, <2>2
<1>8. ASSUME NEW k \in 1 .. n
      PROVE  /\ Begins(bytes, k) \in Nat /\ Begins(bytes, k) < ends[k]
             /\ k = 1 \/ bytes[Begins(bytes, k)] = LF
             /\ \A i \in Begins(bytes, k) + 1 .. ends[k] - 1 : bytes[i] # LF
             /\ k < n => bytes[ends[k]] = LF
  <2>1. CASE k = 1
    <3>1. Begins(bytes, k) = 0 /\ ends[k] \in 1 .. Len(bytes)
      BY <1>5, <2>1 DEF Begins
    <3>2. ASSUME NEW i \in 1 .. ends[k] - 1, bytes[i] = LF
          PROVE  FALSE
      <4>0. i \in DOMAIN bytes
        BY <1>1, <3>1
      <4>1. i \in ChunkEnds(bytes)
        BY <3>2, <4>0 DEF ChunkEnds
      <4>2. PICK j \in 1 .. n : ends[j] = i
        BY <1>5, <4>1
      <4>3. j = k \/ k < j
        BY <1>4, <2>1
      <4>4. ends[j] = ends[k] \/ ends[k] < ends[j]
        BY <1>5, <4>3
      <4> QED BY <1>1, <3>1, <3>2, <4>2, <4>4
    <3> QED BY <1>1, <1>4, <1>7, <2>1, <3>1, <3>2
  <2>2. CASE k # 1
    <3>1. k - 1 \in 1 .. n /\ k - 1 < k
      BY <1>4, <2>2
    <3>2. Begins(bytes, k) = ends[k - 1]
      BY <2>2 DEF Begins, ends
    <3>3. /\ ends[k - 1] \in 1 .. Len(bytes) /\ ends[k] \in 1 .. Len(bytes)
          /\ ends[k - 1] < ends[k] /\ bytes[ends[k - 1]] = LF
      BY <1>5, <1>7, <3>1
    <3>4. ASSUME NEW i \in ends[k - 1] + 1 .. ends[k] - 1, bytes[i] = LF
          PROVE  FALSE
      <4>0. i \in DOMAIN bytes
        BY <1>1, <3>3
      <4>1. i \in ChunkEnds(bytes)
        BY <3>4, <4>0 DEF ChunkEnds
      <4>2. PICK j \in 1 .. n : ends[j] = i
        BY <1>5, <4>1
      <4>3. j = k \/ k < j \/ j = k - 1 \/ j < k - 1
        BY <1>4
      <4>4. ends[j] = ends[k] \/ ends[k] < ends[j] \/ ends[j] = ends[k - 1] \/ ends[j] < ends[k - 1]
        BY <1>5, <3>1, <4>3
      <4>5. i \in Int /\ ends[k - 1] < i /\ i < ends[k]
        BY <3>3
      <4> QED BY <3>3, <4>2, <4>4, <4>5
    <3>5. k < n => bytes[ends[k]] = LF
      <4>1. k < n => k + 1 \in 1 .. n /\ k < k + 1
        BY <1>4
      <4> QED BY <1>7, <4>1
    <3> QED BY <1>1, <3>2, <3>3, <3>4, <3>5
  <2> QED BY <2>1, <2>2
<1> QED BY <1>4, <1>5, <1>6, <1>8 DEF ends, n

\* A line is the bytes between its ends, without its terminator (parse_lines).
LEMMA LinesLie ==
  ASSUME NEW bytes \in ByteString, NEW k \in 1 .. Len(ParseLines(bytes))
  PROVE  LET line == ParseLines(bytes)[k]
         IN  /\ LiesAt(bytes, line.byte_start, line.byte_end, Ends(bytes)[k])
             /\ line.byte_start = Begins(bytes, k)
             /\ line.content = Slice(bytes, line.byte_start, line.byte_end)
<1> DEFINE s == Begins(bytes, k)
           e == Ends(bytes)[k]
           chunk == Slice(bytes, s, e)
           t == s + TerminatedContentLength(chunk)
           line == ParseLines(bytes)[k]
<1>1. /\ e \in 1 .. Len(bytes) /\ Len(bytes) \in Nat /\ s \in Nat /\ s < e
      /\ k = 1 \/ bytes[s] = LF
      /\ \A i \in s + 1 .. e - 1 : bytes[i] # LF
      /\ bytes[e] = LF \/ e = Len(bytes)
  BY EndsLie, LenProperties DEF ByteString
<1>2. line.content = Slice(bytes, s, t) /\ line.byte_start = s /\ line.byte_end = t
  <2>1. k \in DOMAIN Ends(bytes)
    <3>1. DOMAIN ParseLines(bytes) = DOMAIN Ends(bytes)
      BY DEF ParseLines, Ends
    <3>2. ParseLines(bytes) \in Seq(Line)
      BY LinesType
    <3> QED BY <3>1, <3>2, LenProperties
  <2> QED BY <2>1 DEF ParseLines, Begins, Ends
<1>3. k = 1 => s = 0
  BY DEF Begins
<1> HIDE DEF s, e, line
<1>4. /\ Len(chunk) = e - s /\ e - s \in Nat /\ e - s > 0
      /\ \A i \in 1 .. e - s : chunk[i] = bytes[s + i]
  <2>1. e \in Nat /\ e <= Len(bytes) /\ s <= e
    BY <1>1
  <2>2. Len(chunk) = e - s
    BY <1>1, <2>1, SliceType
  <2>3. \A i \in 1 .. e - s : SubSeq(bytes, s + 1, e)[i] = bytes[s + i]
    <3>1. \A i \in s + 1 .. e : bytes[i] \in Byte
      <4>1. \A i \in s + 1 .. e : i \in 1 .. Len(bytes)
        BY <1>1
      <4> QED BY <4>1, ElementOfSeq DEF ByteString
    <3>2. \A i \in 1 .. e - (s + 1) + 1 : SubSeq(bytes, s + 1, e)[i] = bytes[s + 1 + i - 1]
      BY <1>1, <3>1, SubSeqProperties
    <3>3. \A i \in 1 .. e - s : i \in 1 .. e - (s + 1) + 1 /\ s + 1 + i - 1 = s + i
      BY <1>1
    <3> QED BY <3>2, <3>3
  <2> QED BY <1>1, <2>2, <2>3 DEF Slice
<1> HIDE DEF chunk
<1>5. /\ e - s \in 1 .. e - s /\ s + (e - s) = e
      /\ e - s > 1 => e - s - 1 \in 1 .. e - s /\ s + (e - s - 1) = e - 1
  BY <1>1
<1>6. chunk[e - s] = bytes[e] /\ (e - s > 1 => chunk[e - s - 1] = bytes[e - 1])
  BY <1>4, <1>5
<1>7. LiesAt(bytes, s, t, e)
  <2>1. CASE bytes[e] # LF
    <3>1. t = e
      BY <1>1, <1>4, <1>6, <2>1 DEF TerminatedContentLength
    <3> HIDE DEF t
    <3> QED BY <1>1, <1>3, <2>1, <3>1 DEF LiesAt
  <2>2. CASE bytes[e] = LF /\ e - s > 1 /\ bytes[e - 1] = CR
    <3>1. t = e - 2
      <4>1. TerminatedContentLength(chunk) = e - s - 2
        BY <1>4, <1>6, <2>2 DEF TerminatedContentLength
      <4> QED BY <1>1, <4>1
    <3> HIDE DEF t
    <3> QED BY <1>1, <1>3, <2>2, <3>1 DEF LiesAt
  <2>3. CASE bytes[e] = LF /\ ~(e - s > 1 /\ bytes[e - 1] = CR)
    <3>1. t = e - 1
      <4>1. TerminatedContentLength(chunk) = e - s - 1
        BY <1>4, <1>6, <2>3 DEF TerminatedContentLength
      <4> QED BY <1>1, <4>1
    <3> HIDE DEF t
    <3>2. t = s \/ bytes[t] # CR
      BY <1>1, <2>3, <3>1
    <3> QED BY <1>1, <1>3, <2>3, <3>1, <3>2 DEF LiesAt
  <2> QED BY <2>1, <2>2, <2>3
<1> QED BY <1>2, <1>7 DEF line, s, e

\* The lines before a line are counted by their line feeds.
LEMMA LinesCounted ==
  ASSUME NEW bytes \in ByteString, NEW k \in 1 .. Len(ParseLines(bytes))
  PROVE  Cardinality(LFs(bytes, Begins(bytes, k))) = k - 1
<1> DEFINE n == Len(ParseLines(bytes))
           Good == {i \in 1 .. n : Cardinality(LFs(bytes, Begins(bytes, i))) = i - 1}
<1>1. n \in Nat /\ k \in 1 .. n /\ 1 \in 1 .. n /\ k \in 1 .. k
  BY EndsLie
<1>2. 1 \in Good
  <2>1. Begins(bytes, 1) = 0
    BY DEF Begins
  <2>2. LFs(bytes, 0) = {}
    BY DEF LFs
  <2> QED BY <1>1, <2>1, <2>2, FS_EmptySet
<1>3. ASSUME NEW i \in 2 .. k, i - 1 \in Good
      PROVE  i \in Good
  <2> DEFINE old == Begins(bytes, i - 1)
             new == Ends(bytes)[i - 1]
  <2>1. i \in 1 .. n /\ i - 1 \in 1 .. n /\ i - 1 < n /\ i # 1 /\ i \in Int
    BY <1>1
  <2>2. /\ old \in Nat /\ new \in 1 .. Len(bytes) /\ old < new
        /\ \A j \in old + 1 .. new - 1 : bytes[j] # LF
        /\ bytes[new] = LF
    BY <2>1, EndsLie
  <2>3. Begins(bytes, i) = new
    BY <2>1 DEF Begins
  <2>4. Len(bytes) \in Nat
    BY LenProperties DEF ByteString
  <2>5. Cardinality(LFs(bytes, old)) = i - 1 - 1
    BY <1>3
  <2> HIDE DEF old, new
  <2>6. LFs(bytes, new) = LFs(bytes, old) \cup {new}
    <3>1. new \in 1 .. new /\ new \in Nat
      BY <2>2
    <3>2. \A j \in 1 .. new : j \in 1 .. old \/ j \in old + 1 .. new - 1 \/ j = new
      BY <2>2, <3>1
    <3>3. \A j \in 1 .. old : j \in 1 .. new
      BY <2>2, <3>1
    <3> QED BY <2>2, <3>1, <3>2, <3>3 DEF LFs
  <2>7. IsFiniteSet(LFs(bytes, old)) /\ new \notin LFs(bytes, old)
    <3>1. LFs(bytes, old) \in SUBSET (1 .. old)
      BY DEF LFs
    <3>2. IsFiniteSet(1 .. old)
      BY <2>2, FS_Interval
    <3>3. new \notin 1 .. old
      BY <2>2
    <3> QED BY <3>1, <3>2, <3>3, FS_Subset
  <2>8. Cardinality(LFs(bytes, new)) = Cardinality(LFs(bytes, old)) + 1
    BY <2>6, <2>7, FS_AddElement
  <2>9. i - 1 - 1 + 1 = i - 1
    BY <2>1
  <2> QED BY <2>1, <2>3, <2>5, <2>8, <2>9
<1> HIDE DEF Good
<1>4. \A i \in 1 .. k : i \in Good
  <2>1. 1 \in Nat /\ k \in Nat /\ \A i \in 1 + 1 .. k : i - 1 \in Good => i \in Good
    BY <1>1, <1>3
  <2> QED BY <1>2, <2>1, Flat!Climb
<1>5. k \in Good
  BY <1>1, <1>4
<1> QED BY <1>5 DEF Good

\* A line is where a reader of the file finds it: between line ends, and on
\* the line its number says.
LEMMA LinesShow ==
  ASSUME NEW bytes \in ByteString, NEW k \in 1 .. Len(ParseLines(bytes))
  PROVE  LET line == ParseLines(bytes)[k]
         IN  /\ AtLineStart(bytes, line.byte_start) /\ AtLineEnd(bytes, line.byte_end)
             /\ LineOf(bytes, line.byte_start) = k /\ LineOf(bytes, line.byte_end) = k
             /\ line.byte_start \in Nat /\ line.byte_end \in Nat
             /\ line.byte_end <= Len(bytes)
<1> DEFINE s == ParseLines(bytes)[k].byte_start
           t == ParseLines(bytes)[k].byte_end
           e == Ends(bytes)[k]
           m == Len(bytes)
           rest == Slice(bytes, t, m)
<1>1. LiesAt(bytes, s, t, e) /\ s = Begins(bytes, k)
  BY LinesLie
<1> HIDE DEF s, t, e
<1>2. /\ s \in Nat /\ t \in Nat /\ e \in Nat /\ s <= t /\ t <= e /\ s < e /\ e <= m
      /\ s = 0 \/ bytes[s] = LF
      /\ \A i \in s + 1 .. e - 1 : bytes[i] # LF
      /\ \/ t = e /\ e = m /\ bytes[e] # LF
         \/ t = e - 1 /\ bytes[e] = LF /\ (t = s \/ bytes[t] # CR)
         \/ t = e - 2 /\ bytes[e] = LF /\ bytes[e - 1] = CR
  BY <1>1 DEF LiesAt
<1>3. m \in Nat /\ \A i \in 1 .. m : bytes[i] \in Byte
  BY LenProperties, ElementOfSeq DEF ByteString
<1> HIDE DEF m
<1>4. AtLineStart(bytes, s)
  BY <1>2 DEF AtLineStart
<1>5. /\ Len(rest) = m - t
      /\ \A i \in 1 .. m - t : rest[i] = bytes[t + i]
      /\ rest \in Seq(Byte)
  <2>1. \A i \in t + 1 .. m : bytes[i] \in Byte
    <3>1. \A i \in t + 1 .. m : i \in 1 .. m
      BY <1>2, <1>3
    <3> QED BY <1>3, <3>1
  <2>2. /\ SubSeq(bytes, t + 1, m) \in Seq(Byte)
        /\ Len(SubSeq(bytes, t + 1, m)) = IF t + 1 <= m THEN m - (t + 1) + 1 ELSE 0
        /\ \A i \in 1 .. m - (t + 1) + 1 : SubSeq(bytes, t + 1, m)[i] = bytes[t + 1 + i - 1]
    <3>1. t + 1 \in Int /\ m \in Int
      BY <1>2, <1>3
    <3> QED BY <2>1, <3>1, SubSeqProperties
  <2>3. m - (t + 1) + 1 = m - t /\ \A i \in 1 .. m - t : t + 1 + i - 1 = t + i
    BY <1>2, <1>3
  <2>4. t <= m
    BY <1>2, <1>3
  <2> QED BY <1>2, <1>3, <2>2, <2>3, <2>4 DEF Slice
<1> HIDE DEF rest
<1>6. AtLineEnd(bytes, t)
  <2>1. CASE t = e /\ e = m
    <3>1. Len(rest) = 0
      BY <1>2, <1>5, <2>1
    <3>2. rest = <<>>
      BY <1>5, <3>1, EmptySeq
    <3> QED BY <3>2 DEF AtLineEnd, rest, m
  <2>2. CASE t = e - 1 /\ bytes[e] = LF /\ (t = s \/ bytes[t] # CR)
    <3>1. 1 \in 1 .. m - t /\ t + 1 = e
      BY <1>2, <1>3, <2>2
    <3>2. rest[1] = LF
      BY <1>5, <2>2, <3>1
    <3>3. t = 0 \/ bytes[t] # CR
      BY <1>2, <2>2 DEF LF, CR
    <3> QED BY <3>2, <3>3 DEF AtLineEnd, rest, m
  <2>3. CASE t = e - 2 /\ bytes[e] = LF /\ bytes[e - 1] = CR
    <3>1. 1 \in 1 .. m - t /\ t + 1 = e - 1 /\ 2 \in 1 .. m - t /\ t + 2 = e /\ 2 <= m - t
      BY <1>2, <1>3, <2>3
    <3>2. rest[1] = CR /\ rest[2] = LF
      BY <1>5, <2>3, <3>1
    <3>3. IsPrefix(<<CR, LF>>, rest)
      <4>1. Len(<<CR, LF>>) = 2 /\ <<CR, LF>> \in Seq(Byte)
        BY DEF CR, LF, Byte
      <4>2. \A i \in 1 .. 2 : rest[i] \in Byte /\ <<CR, LF>>[i] \in Byte
        BY <3>2 DEF CR, LF, Byte
      <4>3. /\ SubSeq(rest, 1, 2) \in Seq(Byte) /\ Len(SubSeq(rest, 1, 2)) = 2
            /\ \A i \in 1 .. 2 : SubSeq(rest, 1, 2)[i] = rest[i]
        <5>1. \A i \in 1 .. 2 : rest[i] \in Byte
          BY <4>2
        <5>2. /\ SubSeq(rest, 1, 2) \in Seq(Byte)
              /\ Len(SubSeq(rest, 1, 2)) = IF 1 <= 2 THEN 2 - 1 + 1 ELSE 0
              /\ \A i \in 1 .. 2 - 1 + 1 : SubSeq(rest, 1, 2)[i] = rest[1 + i - 1]
          BY <5>1, SubSeqProperties
        <5> QED BY <5>2
      <4>4. /\ SubSeq(<<CR, LF>>, 1, 2) \in Seq(Byte) /\ Len(SubSeq(<<CR, LF>>, 1, 2)) = 2
            /\ \A i \in 1 .. 2 : SubSeq(<<CR, LF>>, 1, 2)[i] = <<CR, LF>>[i]
        <5>1. \A i \in 1 .. 2 : <<CR, LF>>[i] \in Byte
          BY <4>2
        <5>2. /\ SubSeq(<<CR, LF>>, 1, 2) \in Seq(Byte)
              /\ Len(SubSeq(<<CR, LF>>, 1, 2)) = IF 1 <= 2 THEN 2 - 1 + 1 ELSE 0
              /\ \A i \in 1 .. 2 - 1 + 1 : SubSeq(<<CR, LF>>, 1, 2)[i] = <<CR, LF>>[1 + i - 1]
          BY <5>1, SubSeqProperties
        <5> QED BY <5>2
      <4>5. \A i \in 1 .. 2 : rest[i] = <<CR, LF>>[i]
        <5>1. \A i \in 1 .. 2 : i = 1 \/ i = 2
          OBVIOUS
        <5> QED BY <3>2, <5>1
      <4>6. SubSeq(<<CR, LF>>, 1, 2) = SubSeq(rest, 1, 2)
        BY <4>3, <4>4, <4>5, SeqEqual
      <4> QED BY <1>5, <3>1, <4>1, <4>6 DEF IsPrefix
    <3> QED BY <3>3 DEF AtLineEnd, rest, m
  <2> QED BY <1>2, <2>1, <2>2, <2>3
<1>7. Cardinality(LFs(bytes, s)) = k - 1
  BY <1>1, LinesCounted
<1>8. LFs(bytes, t) = LFs(bytes, s)
  <2>1. \A i \in s + 1 .. t : bytes[i] # LF
    <3>1. \A i \in s + 1 .. t : i \in s + 1 .. e - 1 \/ (i = e /\ t = e)
      BY <1>2
    <3>2. t = e => bytes[e] # LF
      BY <1>2
    <3> QED BY <1>2, <3>1, <3>2
  <2>2. \A i \in 1 .. t : i \in 1 .. s \/ i \in s + 1 .. t
    BY <1>2
  <2>3. \A i \in 1 .. s : i \in 1 .. t
    BY <1>2
  <2> QED BY <2>1, <2>2, <2>3 DEF LFs
<1>9. k \in Int
  BY EndsLie
<1>10. LineOf(bytes, s) = k /\ LineOf(bytes, t) = k
  <2>1. \A i : LineOf(bytes, i) = 1 + Cardinality(LFs(bytes, i))
    BY DEF LineOf, LFs
  <2>2. 1 + (k - 1) = k
    BY <1>9
  <2> QED BY <1>7, <1>8, <2>1, <2>2
<1>11. t <= m
  BY <1>2, <1>3
<1> QED BY <1>2, <1>4, <1>6, <1>10, <1>11 DEF s, t, m

(***************************************************************************)
(* Which bytes of a slice are shown, and in what order.                    *)
(***************************************************************************)

\* The positions from s + 1 to t that are shown: all but the CR of a CRLF.
KeptIn(bytes, s, t) ==
  {i \in s + 1 .. t : ~(bytes[i] = CR /\ i < t /\ bytes[i + 1] = LF)}

\* The bytes at listed positions.
Reads(bytes, A) == [k \in 1 .. Len(A) |-> bytes[A[k]]]

\* Normalising a slice reads the positions that are shown.
LEMMA NormalisedReads ==
  ASSUME NEW bytes \in ByteString, NEW s \in Nat, NEW t \in Nat, s <= t, t <= Len(bytes),
         NEW A, ListsUp(A, KeptIn(bytes, s, t))
  PROVE  Normalised(Slice(bytes, s, t)) = Reads(bytes, A)
<1> DEFINE w == Slice(bytes, s, t)
           kept == {i \in DOMAIN w : ~(w[i] = CR /\ i < Len(w) /\ w[i + 1] = LF)}
           K == KeptIn(bytes, s, t)
           B == [k \in 1 .. Len(A) |-> A[k] - s]
<1>1. /\ w \in ByteString /\ Len(w) = t - s /\ DOMAIN w = 1 .. t - s
      /\ \A i \in 1 .. t - s : w[i] = bytes[s + i]
  <2>1. Len(bytes) \in Nat
    BY LenProperties DEF ByteString
  <2>2. Slice(bytes, s, t) \in ByteString /\ Len(Slice(bytes, s, t)) = t - s
    BY SliceType
  <2>3. \A i \in s + 1 .. t : i \in 1 .. Len(bytes)
    BY <2>1
  <2>4. \A i \in s + 1 .. t : bytes[i] \in Byte
    BY <2>3, ElementOfSeq DEF ByteString
  <2>5. \A i \in 1 .. t - (s + 1) + 1 : SubSeq(bytes, s + 1, t)[i] = bytes[s + 1 + i - 1]
    <3>1. s + 1 \in Int /\ t \in Int
      OBVIOUS
    <3> QED BY <2>4, <3>1, SubSeqProperties
  <2>6. t - (s + 1) + 1 = t - s /\ \A i \in 1 .. t - s : s + 1 + i - 1 = s + i
    OBVIOUS
  <2>7. \A i \in 1 .. t - s : SubSeq(bytes, s + 1, t)[i] = bytes[s + i]
    BY <2>5, <2>6
  <2>8. DOMAIN Slice(bytes, s, t) = 1 .. t - s
    BY <2>2, LenProperties DEF ByteString
  <2> QED BY <2>2, <2>7, <2>8 DEF Slice
<1>2. K \in SUBSET Int /\ \A i \in K : i \in s + 1 .. t
  BY DEF KeptIn
<1>3. kept = {i - s : i \in K}
  <2> HIDE DEF w
  <2>1. ASSUME NEW i \in kept
        PROVE  i + s \in K /\ i = (i + s) - s
    <3>1. i \in 1 .. t - s /\ ~(w[i] = CR /\ i < t - s /\ w[i + 1] = LF)
      BY <1>1
    <3>2. i + s \in s + 1 .. t /\ s + i = i + s /\ i \in Int /\ i = (i + s) - s
      BY <3>1
    <3>3. w[i] = bytes[i + s]
      BY <1>1, <3>1, <3>2
    <3>4. i + s < t => i < t - s /\ i + 1 \in 1 .. t - s /\ s + (i + 1) = i + s + 1
      BY <3>1
    <3>5. i + s < t => w[i + 1] = bytes[i + s + 1]
      BY <1>1, <3>4
    <3> QED BY <3>1, <3>2, <3>3, <3>4, <3>5 DEF KeptIn
  <2>2. ASSUME NEW i \in K
        PROVE  i - s \in kept
    <3>1. i \in s + 1 .. t /\ ~(bytes[i] = CR /\ i < t /\ bytes[i + 1] = LF)
      BY DEF KeptIn
    <3>2. i - s \in 1 .. t - s /\ s + (i - s) = i
      BY <3>1
    <3>3. w[i - s] = bytes[i]
      BY <1>1, <3>2
    <3>4. i - s < t - s => i < t /\ i - s + 1 \in 1 .. t - s /\ s + (i - s + 1) = i + 1
      BY <3>1
    <3>5. i - s < t - s => w[i - s + 1] = bytes[i + 1]
      BY <1>1, <3>4
    <3> QED BY <1>1, <3>1, <3>2, <3>3, <3>4, <3>5
  <2> HIDE DEF kept, K
  <2>3. \A i \in kept : i \in {j - s : j \in K}
    BY <2>1
  <2> QED BY <2>2, <2>3
<1>4. kept \in SUBSET Int /\ IsFiniteSet(kept)
  <2>1. kept \in SUBSET (1 .. t - s)
    BY <1>1
  <2>2. IsFiniteSet(1 .. t - s)
    BY FS_Interval
  <2>3. (1 .. t - s) \in SUBSET Int
    OBVIOUS
  <2> HIDE DEF kept
  <2>4. IsFiniteSet(kept)
    BY <2>1, <2>2, FS_Subset
  <2> QED BY <2>1, <2>3, <2>4
<1>5. Normalised(w) = [k \in DOMAIN Ascending(kept) |-> w[Ascending(kept)[k]]]
  BY DEF Normalised
<1>6. Ascending(kept) = B /\ DOMAIN B = 1 .. Len(A)
  <2>1. ListsUp(B, {i - s : i \in K})
    <3>1. s \in Int
      OBVIOUS
    <3> HIDE DEF K
    <3> QED BY <1>2, <3>1, MovedListed DEF K
  <2>2. ListsUp(Ascending(kept), kept)
    <3> HIDE DEF kept
    <3> QED BY <1>4, AscendingIsListing
  <2>3. DOMAIN B = 1 .. Len(A)
    OBVIOUS
  <2> HIDE DEF B, kept
  <2> QED BY <1>3, <1>4, <2>1, <2>2, <2>3, ListedOnce
<1>7. ASSUME NEW k \in 1 .. Len(A)
      PROVE  w[B[k]] = bytes[A[k]]
  <2>1. A[k] \in K
    BY LenProperties, ElementOfSeq DEF ListsUp
  <2>2. A[k] \in s + 1 .. t
    BY <1>2, <2>1
  <2>3. A[k] - s \in 1 .. t - s /\ s + (A[k] - s) = A[k]
    BY <2>2
  <2>4. B[k] = A[k] - s
    OBVIOUS
  <2> HIDE DEF B, w
  <2> QED BY <1>1, <2>3, <2>4
<1> HIDE DEF B, w, kept
<1>8. Normalised(w) = [k \in 1 .. Len(A) |-> bytes[A[k]]]
  BY <1>5, <1>6, <1>7
<1> QED BY <1>8 DEF w, Reads

\* A slice is read along an interval.
LEMMA SliceReads ==
  ASSUME NEW bytes \in ByteString, NEW s \in Nat, NEW t \in Nat, s <= t, t <= Len(bytes)
  PROVE  \E A \in Seq(Int) : ListsUp(A, s + 1 .. t) /\ Slice(bytes, s, t) = Reads(bytes, A)
<1> DEFINE n == t - s
           A == [k \in 1 .. n |-> s + k]
<1>1. n \in Nat /\ s + n = t /\ s \in Int
  OBVIOUS
<1> HIDE DEF n
<1>2. ListsUp(A, s + 1 .. t) /\ Len(A) = n
  BY <1>1, IntervalListed
<1>3. /\ Slice(bytes, s, t) \in Seq(Byte) /\ Len(Slice(bytes, s, t)) = n
      /\ DOMAIN Slice(bytes, s, t) = 1 .. n
      /\ \A k \in 1 .. n : Slice(bytes, s, t)[k] = bytes[s + k]
  <2>1. Len(bytes) \in Nat
    BY LenProperties DEF ByteString
  <2>2. Slice(bytes, s, t) \in Seq(Byte) /\ Len(Slice(bytes, s, t)) = n
    BY SliceType DEF n, ByteString
  <2>3. \A i \in s + 1 .. t : i \in 1 .. Len(bytes)
    BY <2>1
  <2>4. \A i \in s + 1 .. t : bytes[i] \in Byte
    BY <2>3, ElementOfSeq DEF ByteString
  <2>5. \A i \in 1 .. t - (s + 1) + 1 : SubSeq(bytes, s + 1, t)[i] = bytes[s + 1 + i - 1]
    <3>1. s + 1 \in Int /\ t \in Int
      OBVIOUS
    <3> QED BY <2>4, <3>1, SubSeqProperties
  <2>6. t - (s + 1) + 1 = n /\ \A i \in 1 .. n : s + 1 + i - 1 = s + i
    BY DEF n
  <2>7. \A i \in 1 .. n : SubSeq(bytes, s + 1, t)[i] = bytes[s + i]
    BY <2>5, <2>6
  <2>8. DOMAIN Slice(bytes, s, t) = 1 .. n
    BY <2>2, LenProperties
  <2> QED BY <2>2, <2>7, <2>8 DEF Slice
<1>4. \A k \in 1 .. n : A[k] = s + k
  OBVIOUS
<1>5. A \in Seq(Int)
  BY <1>2 DEF ListsUp
<1> HIDE DEF A
<1>6. Slice(bytes, s, t) = [k \in 1 .. n |-> bytes[A[k]]]
  <2>1. Slice(bytes, s, t) = [k \in 1 .. n |-> Slice(bytes, s, t)[k]]
    BY <1>3
  <2>2. \A k \in 1 .. n : Slice(bytes, s, t)[k] = bytes[A[k]]
    BY <1>3, <1>4
  <2> QED BY <2>1, <2>2
<1> QED BY <1>2, <1>5, <1>6 DEF Reads

\* What is read along two listings, one after the other.
LEMMA ReadsJoined ==
  ASSUME NEW bytes \in ByteString, NEW A \in Seq(1 .. Len(bytes)), NEW B \in Seq(1 .. Len(bytes))
  PROVE  Reads(bytes, A \o B) = Reads(bytes, A) \o Reads(bytes, B)
<1> DEFINE D == 1 .. Len(bytes)
           C == A \o B
           p == Reads(bytes, A)
           q == Reads(bytes, B)
           r == Reads(bytes, C)
<1>1. \A i \in D : bytes[i] \in Byte
  BY ElementOfSeq DEF ByteString
<1> HIDE DEF D
<1>2. A \in Seq(D) /\ B \in Seq(D)
  BY DEF D
<1>3. /\ Len(A) \in Nat /\ \A k \in 1 .. Len(A) : A[k] \in D
      /\ Len(B) \in Nat /\ \A k \in 1 .. Len(B) : B[k] \in D
      /\ C \in Seq(D) /\ Len(C) = Len(A) + Len(B)
      /\ \A k \in 1 .. Len(A) + Len(B) : C[k] = IF k <= Len(A) THEN A[k] ELSE B[k - Len(A)]
  BY <1>2, LenProperties, ElementOfSeq, ConcatProperties
<1> HIDE DEF C
<1>4. ASSUME NEW E \in Seq(D)
      PROVE  /\ Reads(bytes, E) \in Seq(Byte) /\ Len(Reads(bytes, E)) = Len(E)
             /\ \A k \in 1 .. Len(E) : Reads(bytes, E)[k] = bytes[E[k]]
  <2>1. Len(E) \in Nat /\ \A k \in 1 .. Len(E) : bytes[E[k]] \in Byte
    BY <1>1, LenProperties, ElementOfSeq
  <2> DEFINE f == [k \in 1 .. Len(E) |-> bytes[E[k]]]
  <2>2. f \in Seq(Byte)
    BY <2>1, IsASeq
  <2>3. DOMAIN f = 1 .. Len(E) /\ DOMAIN f = 1 .. Len(f) /\ Len(f) \in Nat
    BY <2>2, LenProperties
  <2>4. \A k \in 1 .. Len(E) : f[k] = bytes[E[k]]
    OBVIOUS
  <2>5. Reads(bytes, E) = f
    BY DEF Reads
  <2> HIDE DEF f
  <2>6. Len(f) = Len(E)
    BY <2>1, <2>3
  <2> QED BY <2>2, <2>4, <2>5, <2>6
<1>5. /\ p \in Seq(Byte) /\ Len(p) = Len(A) /\ \A k \in 1 .. Len(A) : p[k] = bytes[A[k]]
      /\ q \in Seq(Byte) /\ Len(q) = Len(B) /\ \A k \in 1 .. Len(B) : q[k] = bytes[B[k]]
      /\ r \in Seq(Byte) /\ Len(r) = Len(C) /\ \A k \in 1 .. Len(C) : r[k] = bytes[C[k]]
  BY <1>2, <1>3, <1>4
<1> HIDE DEF p, q, r
<1>6. /\ p \o q \in Seq(Byte) /\ Len(p \o q) = Len(p) + Len(q)
      /\ \A k \in 1 .. Len(p) + Len(q) : (p \o q)[k] = IF k <= Len(p) THEN p[k] ELSE q[k - Len(p)]
  <2>1. p \in Seq(Byte) /\ q \in Seq(Byte)
    BY <1>5
  <2> QED BY <2>1, ConcatProperties
<1>7. ASSUME NEW k \in 1 .. Len(r)
      PROVE  r[k] = (p \o q)[k]
  <2>1. k \in 1 .. Len(A) + Len(B) /\ k \in 1 .. Len(C)
    BY <1>3, <1>5
  <2>2. CASE k <= Len(A)
    <3>1. k \in 1 .. Len(A)
      BY <1>3, <2>1, <2>2
    <3>2. r[k] = bytes[A[k]] /\ p[k] = bytes[A[k]]
      BY <1>3, <1>5, <2>1, <2>2, <3>1
    <3>3. (p \o q)[k] = p[k]
      BY <1>5, <1>6, <2>1, <2>2
    <3> QED BY <3>2, <3>3
  <2>3. CASE ~(k <= Len(A))
    <3>1. k - Len(A) \in 1 .. Len(B)
      BY <1>3, <2>1, <2>3
    <3>2. r[k] = bytes[B[k - Len(A)]] /\ q[k - Len(A)] = bytes[B[k - Len(A)]]
      BY <1>3, <1>5, <2>1, <2>3, <3>1
    <3>3. (p \o q)[k] = q[k - Len(A)]
      BY <1>5, <1>6, <2>1, <2>3
    <3> QED BY <3>2, <3>3
  <2> QED BY <2>2, <2>3
<1>8. r = p \o q
  <2>1. Len(r) = Len(p \o q)
    BY <1>3, <1>5, <1>6
  <2> QED BY <1>5, <1>6, <1>7, <2>1, SeqEqual
<1> QED BY <1>8 DEF p, q, r, C

\* Line i up to line k, as it is shown; a line feed and line k + 1 follow.
LEMMA LinesGrow ==
  ASSUME NEW bytes \in ByteString,
         NEW i \in 1 .. Len(ParseLines(bytes)), NEW k \in 1 .. Len(ParseLines(bytes)),
         i <= k, k + 1 \in 1 .. Len(ParseLines(bytes))
  PROVE  LET s == ParseLines(bytes)[i].byte_start
             t == ParseLines(bytes)[k].byte_end
             u == ParseLines(bytes)[k + 1].byte_start
             v == ParseLines(bytes)[k + 1].byte_end
         IN  /\ KeptIn(bytes, s, v) = KeptIn(bytes, s, t) \cup (u .. v)
             /\ s \in Nat /\ t \in Nat /\ u \in Nat /\ v \in Nat
             /\ s <= t /\ t < u /\ u <= v /\ v <= Len(bytes) /\ bytes[u] = LF
<1> DEFINE s == ParseLines(bytes)[i].byte_start
           t == ParseLines(bytes)[k].byte_end
           u == ParseLines(bytes)[k + 1].byte_start
           v == ParseLines(bytes)[k + 1].byte_end
           z == ParseLines(bytes)[k].byte_start
           e == Ends(bytes)[k]
           f == Ends(bytes)[k + 1]
<1>1. /\ LiesAt(bytes, z, t, e) /\ LiesAt(bytes, u, v, f) /\ u = Begins(bytes, k + 1)
      /\ \E j : LiesAt(bytes, s, ParseLines(bytes)[i].byte_end, j)
  BY LinesLie
<1>2. u = e /\ bytes[e] = LF /\ k \in Nat
  <2>1. k \in Nat /\ k < Len(ParseLines(bytes)) /\ k + 1 # 1 /\ k + 1 - 1 = k
    BY EndsLie
  <2> QED BY <1>1, <2>1, EndsLie DEF Begins
<1>3. s <= z /\ s <= t /\ s \in Nat
  <2>1. s <= t
    <3>1. i \in DOMAIN ParseLines(bytes) /\ k \in DOMAIN ParseLines(bytes)
      BY LinesType, LenProperties
    <3> QED BY <3>1, LinesFollow
  <2>2. s \in Nat
    BY <1>1 DEF LiesAt
  <2>3. CASE i = k
    BY <2>1, <2>2, <2>3
  <2>4. CASE i # k
    <3>1. k - 1 \in 1 .. Len(ParseLines(bytes)) /\ i <= k - 1 /\ k # 1 /\ k \in Int
      BY <1>2, <2>4
    <3>2. s <= ParseLines(bytes)[k - 1].byte_end
      <4>1. i \in DOMAIN ParseLines(bytes) /\ k - 1 \in DOMAIN ParseLines(bytes)
        BY <3>1, LinesType, LenProperties
      <4> QED BY <3>1, <4>1, LinesFollow
    <3>3. LiesAt(bytes, ParseLines(bytes)[k - 1].byte_start, ParseLines(bytes)[k - 1].byte_end,
                 Ends(bytes)[k - 1])
      BY <3>1, LinesLie
    <3>4. z = Ends(bytes)[k - 1]
      <4>1. z = Begins(bytes, k)
        BY LinesLie
      <4> QED BY <3>1, <4>1 DEF Begins
    <3> QED BY <2>1, <2>2, <3>2, <3>3, <3>4, SMTT(30) DEF LiesAt
  <2> QED BY <2>3, <2>4
<1>4. /\ z \in Nat /\ t \in Nat /\ e \in Nat /\ z <= t /\ t <= e /\ z < e
      /\ z = 0 \/ bytes[z] = LF
      /\ \/ t = e - 1 /\ (t = z \/ bytes[t] # CR)
         \/ t = e - 2 /\ bytes[e - 1] = CR
  BY <1>1, <1>2 DEF LiesAt
<1>5. /\ v \in Nat /\ f \in Nat /\ e <= v /\ v <= f /\ f <= Len(bytes)
      /\ \A j \in e + 1 .. f - 1 : bytes[j] # LF
      /\ v < f \/ bytes[f] # LF
  <2>1. LiesAt(bytes, e, v, f)
    BY <1>1, <1>2
  <2> QED BY <2>1 DEF LiesAt
<1>6. Len(bytes) \in Nat /\ t < e /\ v <= Len(bytes)
  <2>1. Len(bytes) \in Nat
    BY LenProperties DEF ByteString
  <2> HIDE DEF t, e, v, f, z
  <2> QED BY <1>4, <1>5, <2>1
<1> HIDE DEF s, t, u, v, z, e, f
<1>7. \A j \in e + 1 .. v : bytes[j] # LF
  <2>1. \A j \in e + 1 .. v : j \in e + 1 .. f - 1 \/ (j = f /\ v = f)
    BY <1>4, <1>5
  <2>2. v = f => bytes[f] # LF
    BY <1>5
  <2> QED BY <1>5, <2>1, <2>2
<1>8. ASSUME NEW j \in KeptIn(bytes, s, v)
      PROVE  j \in KeptIn(bytes, s, t) \/ j \in e .. v
  <2>1. j \in s + 1 .. v /\ ~(bytes[j] = CR /\ j < v /\ bytes[j + 1] = LF)
    BY DEF KeptIn
  <2>2. j \in Int /\ (j \in s + 1 .. t \/ (t < j /\ j < e) \/ j \in e .. v)
    BY <1>3, <1>4, <1>5, <2>1
  <2>3. CASE j \in s + 1 .. t
    <3>1. j < t => j < v
      BY <1>4, <1>5, <1>6, <2>2
    <3> QED BY <2>1, <2>3, <3>1 DEF KeptIn
  <2>4. CASE t < j /\ j < e
    <3>1. t = e - 2 /\ bytes[e - 1] = CR
      BY <1>4, <2>2, <2>4
    <3>2. j = e - 1 /\ j + 1 = e /\ j < v
      BY <1>4, <1>5, <2>2, <2>4, <3>1
    <3> QED BY <1>2, <2>1, <3>1, <3>2
  <2> QED BY <2>2, <2>3, <2>4
<1>9. ASSUME NEW j \in KeptIn(bytes, s, t)
      PROVE  j \in KeptIn(bytes, s, v)
  <2>1. j \in s + 1 .. t /\ ~(bytes[j] = CR /\ j < t /\ bytes[j + 1] = LF)
    BY DEF KeptIn
  <2>2. j \in s + 1 .. v /\ (j < t \/ j = t)
    BY <1>3, <1>4, <1>5, <1>6, <2>1
  <2>3. ASSUME j = t, bytes[t] = CR, bytes[t + 1] = LF
        PROVE  FALSE
    <3>1. CASE t = e - 1 /\ (t = z \/ bytes[t] # CR)
      <4>1. t = z
        BY <2>3, <3>1
      <4>2. t # 0
        BY <1>3, <2>1, <2>3
      <4>3. bytes[t] = LF
        BY <1>4, <4>1, <4>2
      <4> QED BY <2>3, <4>3 DEF CR, LF
    <3>2. CASE t = e - 2 /\ bytes[e - 1] = CR
      <4>1. t + 1 = e - 1
        BY <1>4, <3>2
      <4> QED BY <2>3, <3>2, <4>1 DEF CR, LF
    <3> QED BY <1>4, <3>1, <3>2
  <2> QED BY <2>1, <2>2, <2>3 DEF KeptIn
<1>10. ASSUME NEW j \in e .. v
       PROVE  j \in KeptIn(bytes, s, v)
  <2>1. j \in s + 1 .. v /\ j \in Int
    BY <1>3, <1>4, <1>5, <1>6
  <2>2. j < v => j + 1 \in e + 1 .. v
    BY <1>4, <1>5
  <2>3. ~(bytes[j] = CR /\ j < v /\ bytes[j + 1] = LF)
    BY <1>7, <2>2
  <2> QED BY <2>1, <2>3 DEF KeptIn
<1>11. KeptIn(bytes, s, v) = KeptIn(bytes, s, t) \cup (e .. v)
  BY <1>8, <1>9, <1>10
<1> QED BY <1>2, <1>3, <1>4, <1>5, <1>6, <1>11 DEF s, t, u, v

\* A single line is shown as it is.
LEMMA LineKept ==
  ASSUME NEW bytes \in ByteString, NEW k \in 1 .. Len(ParseLines(bytes))
  PROVE  LET s == ParseLines(bytes)[k].byte_start
             t == ParseLines(bytes)[k].byte_end
         IN  /\ KeptIn(bytes, s, t) = s + 1 .. t
             /\ s \in Nat /\ t \in Nat /\ s <= t /\ t <= Len(bytes)
<1> DEFINE s == ParseLines(bytes)[k].byte_start
           t == ParseLines(bytes)[k].byte_end
           e == Ends(bytes)[k]
<1>1. LiesAt(bytes, s, t, e)
  BY LinesLie
<1>2. Len(bytes) \in Nat
  BY LenProperties DEF ByteString
<1> HIDE DEF s, t, e
<1>3. /\ s \in Nat /\ t \in Nat /\ e \in Nat /\ s <= t /\ t <= e /\ e <= Len(bytes)
      /\ \A j \in s + 1 .. e - 1 : bytes[j] # LF
      /\ t < e \/ bytes[e] # LF
  BY <1>1 DEF LiesAt
<1>4. \A j \in s + 1 .. t : ~(bytes[j] = CR /\ j < t /\ bytes[j + 1] = LF)
  <2> TAKE j \in s + 1 .. t
  <2>1. j < t => j + 1 \in s + 1 .. e - 1 \/ (j + 1 = e /\ t = e)
    BY <1>3
  <2>2. t = e => bytes[e] # LF
    BY <1>3
  <2> QED BY <1>3, <2>1, <2>2
<1>5. t <= Len(bytes)
  BY <1>2, <1>3
<1>6. KeptIn(bytes, s, t) = s + 1 .. t
  BY <1>4 DEF KeptIn
<1> QED BY <1>3, <1>5, <1>6 DEF s, t

\* A line feed before a slice is the slice from that line feed.
LEMMA SliceLed ==
  ASSUME NEW bytes \in ByteString, NEW u \in Nat, NEW v \in Nat,
         0 < u, u <= v, v <= Len(bytes), bytes[u] = LF
  PROVE  <<LF>> \o Slice(bytes, u, v) = Slice(bytes, u - 1, v)
<1> DEFINE p == Slice(bytes, u, v)
           q == Slice(bytes, u - 1, v)
<1>1. Len(bytes) \in Nat /\ u - 1 \in Nat /\ u - 1 <= v /\ u - 1 + 1 = u
  BY LenProperties DEF ByteString
<1>2. /\ p \in Seq(Byte) /\ Len(p) = v - u
      /\ q \in Seq(Byte) /\ Len(q) = v - (u - 1)
  BY <1>1, SliceType DEF ByteString
<1>3. \A i \in u .. v : bytes[i] \in Byte
  <2>1. \A i \in u .. v : i \in 1 .. Len(bytes)
    BY <1>1
  <2> QED BY <2>1, ElementOfSeq DEF ByteString
<1>4. \A i \in 1 .. v - u : p[i] = bytes[u + i]
  <2>1. \A i \in u + 1 .. v : bytes[i] \in Byte
    BY <1>3
  <2>2. \A i \in 1 .. v - (u + 1) + 1 : SubSeq(bytes, u + 1, v)[i] = bytes[u + 1 + i - 1]
    <3>1. u + 1 \in Int /\ v \in Int
      OBVIOUS
    <3> QED BY <2>1, <3>1, SubSeqProperties
  <2>3. v - (u + 1) + 1 = v - u /\ \A i \in 1 .. v - u : u + 1 + i - 1 = u + i
    OBVIOUS
  <2>4. \A i \in 1 .. v - u : SubSeq(bytes, u + 1, v)[i] = bytes[u + i]
    BY <2>2, <2>3
  <2> QED BY <2>4 DEF Slice
<1>5. \A i \in 1 .. v - u + 1 : q[i] = bytes[u + i - 1]
  <2>1. \A i \in 1 .. v - u + 1 : SubSeq(bytes, u, v)[i] = bytes[u + i - 1]
    <3>1. u \in Int /\ v \in Int
      OBVIOUS
    <3> QED BY <1>3, <3>1, SubSeqProperties
  <2>2. q = SubSeq(bytes, u, v)
    BY <1>1 DEF Slice
  <2> QED BY <2>1, <2>2
<1> HIDE DEF p, q
<1>6. <<LF>> \in Seq(Byte) /\ Len(<<LF>>) = 1 /\ <<LF>>[1] = LF
  BY DEF LF, Byte
<1>7. /\ <<LF>> \o p \in Seq(Byte) /\ Len(<<LF>> \o p) = Len(<<LF>>) + Len(p)
      /\ \A i \in 1 .. Len(<<LF>>) + Len(p) :
           (<<LF>> \o p)[i] = IF i <= Len(<<LF>>) THEN <<LF>>[i] ELSE p[i - Len(<<LF>>)]
  <2>1. p \in Seq(Byte) /\ <<LF>> \in Seq(Byte)
    BY <1>2, <1>6
  <2> QED BY <2>1, ConcatProperties
<1>8. /\ Len(<<LF>> \o p) = v - u + 1
      /\ \A i \in 1 .. v - u + 1 : (<<LF>> \o p)[i] = IF i <= 1 THEN LF ELSE p[i - 1]
  <2>1. 1 + (v - u) = v - u + 1
    OBVIOUS
  <2>2. \A i \in 1 .. v - u + 1 : i <= 1 => i = 1
    OBVIOUS
  <2> QED BY <1>2, <1>6, <1>7, <2>1, <2>2
<1>9. ASSUME NEW i \in 1 .. v - u + 1
      PROVE  (<<LF>> \o p)[i] = q[i]
  <2>1. CASE i = 1
    <3>1. u + i - 1 = u /\ i <= 1
      BY <2>1
    <3> QED BY <1>5, <1>8, <3>1
  <2>2. CASE i # 1
    <3>1. i - 1 \in 1 .. v - u /\ u + (i - 1) = u + i - 1 /\ ~(i <= 1)
      BY <2>2
    <3> QED BY <1>4, <1>5, <1>8, <3>1
  <2> QED BY <2>1, <2>2
<1>10. v - (u - 1) = v - u + 1
  OBVIOUS
<1> QED BY <1>2, <1>7, <1>8, <1>9, <1>10, SeqEqual, SMTT(30) DEF p, q

\* The content of a block is what a reader of the file sees between the first
\* and the last byte cited (canonical_block).
LEMMA ContentShown ==
  ASSUME NEW bytes \in ByteString, NEW range, range.start \in Int, range.end \in Int,
         IsRangeOf(ParseLines(bytes), range)
  PROVE  CanonicalContent(Selected(ParseLines(bytes), range)) =
           Normalised(Slice(bytes, ParseLines(bytes)[range.start + 1].byte_start,
                            ParseLines(bytes)[range.end + 1].byte_end))
<1> DEFINE lines == ParseLines(bytes)
           i == range.start + 1
           m == range.end - range.start + 1
           s == lines[i].byte_start
           selected == Selected(lines, range)
           part(k) == (IF k = 1 THEN <<>> ELSE <<LF>>) \o selected[k].content
           list == [k \in DOMAIN selected |-> part(k)]
           shown(q) == KeptIn(bytes, s, lines[i + q - 1].byte_end)
           listings(q) == {A \in Seq(Int) : ListsUp(A, shown(q))}
           Holds == [q \in 0 .. m |-> IF q = 0 THEN {<<>>}
                                      ELSE {Reads(bytes, A) : A \in listings(q)}]
<1>1. lines \in Seq(Line) /\ Len(lines) \in Nat /\ DOMAIN lines = 1 .. Len(lines)
  BY LinesType, LenProperties
<1>2. /\ i \in 1 .. Len(lines) /\ m \in Nat /\ m >= 1 /\ i + m - 1 = range.end + 1
      /\ \A k \in 1 .. m : i + k - 1 \in 1 .. Len(lines) /\ i <= i + k - 1
  <2> HIDE DEF lines
  <2>1. 0 <= range.start /\ range.start <= range.end /\ range.end < Len(lines)
    BY DEF IsRangeOf, lines
  <2>2. i \in 1 .. Len(lines) /\ m \in Nat /\ m >= 1 /\ i + m - 1 = range.end + 1
    BY <1>1, <2>1
  <2>3. \A k \in 1 .. m : i + k - 1 \in 1 .. Len(lines) /\ i <= i + k - 1
    BY <1>1, <2>1
  <2> QED BY <2>2, <2>3
<1>3. /\ selected \in Seq(Line) /\ Len(selected) = m /\ DOMAIN selected = 1 .. m
      /\ \A k \in 1 .. m : selected[k] = lines[i + k - 1]
  <2>1. range.end + 1 - i + 1 = m /\ i <= range.end + 1 /\ range.end + 1 \in Int /\ i \in Int
    BY <1>2, SMTT(30)
  <2>2. \A k \in i .. range.end + 1 : k \in 1 .. Len(lines)
    <3> HIDE DEF lines
    <3> QED BY <1>1, <1>2, SMTT(30) DEF IsRangeOf, lines
  <2> HIDE DEF lines
  <2>3. \A k \in i .. range.end + 1 : lines[k] \in Line
    BY <1>1, <2>2, ElementOfSeq
  <2> HIDE DEF i, m
  <2>4. /\ SubSeq(lines, i, range.end + 1) \in Seq(Line)
        /\ Len(SubSeq(lines, i, range.end + 1)) =
             IF i <= range.end + 1 THEN range.end + 1 - i + 1 ELSE 0
        /\ \A k \in 1 .. range.end + 1 - i + 1 :
             SubSeq(lines, i, range.end + 1)[k] = lines[i + k - 1]
    BY <2>1, <2>3, SubSeqProperties
  <2>5. selected = SubSeq(lines, i, range.end + 1)
    BY DEF Selected, i
  <2> HIDE DEF selected
  <2> QED BY <2>1, <2>4, <2>5, LenProperties
<1>4. \A k \in 1 .. m : /\ selected[k].content \in Seq(Byte)
                        /\ selected[k].content = Slice(bytes, lines[i + k - 1].byte_start,
                                                       lines[i + k - 1].byte_end)
  <2> TAKE k \in 1 .. m
  <2>1. selected[k] \in Line
    BY <1>3, ElementOfSeq
  <2>2. i + k - 1 \in 1 .. Len(ParseLines(bytes)) /\ selected[k] = ParseLines(bytes)[i + k - 1]
    BY <1>2, <1>3
  <2>3. LET line == ParseLines(bytes)[i + k - 1]
        IN  line.content = Slice(bytes, line.byte_start, line.byte_end)
    <3> HIDE DEF i, m, selected
    <3> QED BY <2>2, LinesLie
  <2> HIDE DEF selected
  <2> QED BY <2>1, <2>2, <2>3 DEF Line, ByteString
<1> HIDE DEF selected, i, m
<1>5. /\ <<>> \in Stream /\ <<LF>> \in Stream
      /\ \A p \in Seq(Byte) : p \in Stream
  <2>1. \A k \in Byte : k \in Nat
    BY DEF Byte
  <2>2. \A p \in Seq(Byte) : p \in Seq(Nat)
    BY <2>1, Widened
  <2>3. <<LF>> \in Seq(Nat)
    BY DEF LF
  <2> QED BY <2>2, <2>3, StreamsConcat DEF Stream
<1>6. /\ \A k \in 1 .. m : part(k) \in Stream
      /\ 1 \in 1 .. m => part(1) = selected[1].content
      /\ \A k \in 2 .. m : part(k) = <<LF>> \o selected[k].content
  <2>1. \A k \in 1 .. m : selected[k].content \in Stream
    BY <1>4, <1>5
  <2>2. \A p \in Stream : <<>> \o p = p /\ <<>> \o p \in Stream /\ <<LF>> \o p \in Stream
    BY <1>5, StreamsConcat DEF Join
  <2>3. \A k \in 2 .. m : k # 1
    BY <1>2
  <2> QED BY <2>1, <2>2, <2>3
<1>7. list \in Seq(Stream) /\ Len(list) = m /\ \A k \in 1 .. m : list[k] = part(k)
  <2>1. list = [k \in 1 .. m |-> part(k)]
    BY <1>3
  <2> HIDE DEF part
  <2>2. [k \in 1 .. m |-> part(k)] \in Seq(Stream)
    BY <1>2, <1>6, IsASeq
  <2>3. DOMAIN list = 1 .. m /\ DOMAIN list = 1 .. Len(list) /\ Len(list) \in Nat
    BY <2>1, <2>2, LenProperties
  <2>4. \A k \in 1 .. m : list[k] = part(k)
    BY <2>1
  <2> HIDE DEF list
  <2>5. Len(list) = m
    BY <1>2, <2>3
  <2> QED BY <2>1, <2>2, <2>4, <2>5
<1> HIDE DEF list, part
<1>8. /\ Holds[0] = {<<>>}
      /\ \A q \in 1 .. m : Holds[q] = {Reads(bytes, A) : A \in listings(q)}
      /\ \A q \in 1 .. m : \A A \in Seq(Int) : ListsUp(A, shown(q)) => Reads(bytes, A) \in Holds[q]
  <2>1. 0 \in 0 .. m /\ \A q \in 1 .. m : q \in 0 .. m /\ q # 0
    BY <1>2
  <2>2. Holds[0] = {<<>>} /\ \A q \in 1 .. m : Holds[q] = {Reads(bytes, A) : A \in listings(q)}
    <3> HIDE DEF listings
    <3> QED BY <2>1
  <2> HIDE DEF Holds, shown
  <2> QED BY <2>2
<1> HIDE DEF Holds
<1>9. ASSUME 1 \in 1 .. m
      PROVE  Join(<<>>, list[1]) \in Holds[1]
  <2>1. /\ selected[1].content = Slice(bytes, s, lines[i].byte_end)
        /\ selected[1].content \in Seq(Byte)
        /\ list[1] = selected[1].content /\ i + 1 - 1 = i
    BY <1>2, <1>4, <1>6, <1>7, <1>9
  <2>2. Join(<<>>, list[1]) = Slice(bytes, s, lines[i].byte_end)
    BY <1>5, <2>1, StreamsConcat
  <2>3. /\ shown(1) = s + 1 .. lines[i].byte_end
        /\ s \in Nat /\ lines[i].byte_end \in Nat /\ s <= lines[i].byte_end
        /\ lines[i].byte_end <= Len(bytes)
    BY <1>2, <2>1, LineKept
  <2>4. PICK A \in Seq(Int) : /\ ListsUp(A, s + 1 .. lines[i].byte_end)
                              /\ Slice(bytes, s, lines[i].byte_end) = Reads(bytes, A)
    <3> HIDE DEF s, lines
    <3> QED BY <2>3, SliceReads
  <2>5. ListsUp(A, shown(1))
    BY <2>3, <2>4
  <2> HIDE DEF shown
  <2> QED BY <1>8, <1>9, <2>2, <2>4, <2>5
<1>10. ASSUME NEW k \in 2 .. m, NEW acc \in Holds[k - 1]
       PROVE  Join(acc, list[k]) \in Holds[k]
  <2> DEFINE h == i + (k - 1) - 1
             t == lines[h].byte_end
             u == lines[h + 1].byte_start
             v == lines[h + 1].byte_end
  <2>1. /\ k - 1 \in 1 .. m /\ k \in 1 .. m /\ h + 1 = i + k - 1 /\ k \in Int
        /\ h \in 1 .. Len(lines) /\ i <= h /\ h + 1 \in 1 .. Len(lines)
    <3>1. k - 1 \in 1 .. m /\ k \in 1 .. m /\ k \in Int /\ i \in Int
      BY <1>2
    <3>2. /\ i + (k - 1) - 1 \in 1 .. Len(lines) /\ i <= i + (k - 1) - 1
          /\ i + k - 1 \in 1 .. Len(lines)
      BY <1>2, <3>1
    <3>3. i + (k - 1) - 1 + 1 = i + k - 1
      BY <3>1
    <3> QED BY <3>1, <3>2, <3>3
  <2> HIDE DEF h
  <2>2. /\ KeptIn(bytes, s, v) = KeptIn(bytes, s, t) \cup (u .. v)
        /\ s \in Nat /\ t \in Nat /\ u \in Nat /\ v \in Nat
        /\ s <= t /\ t < u /\ u <= v /\ v <= Len(bytes) /\ bytes[u] = LF
    BY <1>2, <2>1, LinesGrow
  <2>3. list[k] = Slice(bytes, u - 1, v)
    <3>1. list[k] = <<LF>> \o Slice(bytes, u, v)
      BY <1>4, <1>6, <1>7, <2>1
    <3>2. 0 < u
      BY <2>2
    <3> HIDE DEF s, t, u, v
    <3> QED BY <2>2, <3>1, <3>2, SliceLed
  <2>4. shown(k - 1) = KeptIn(bytes, s, t) /\ shown(k) = KeptIn(bytes, s, v)
    <3>1. shown(k) = KeptIn(bytes, s, v)
      BY <2>1
    <3>2. shown(k - 1) = KeptIn(bytes, s, t)
      BY DEF h
    <3> QED BY <3>1, <3>2
  <2>5. PICK A \in listings(k - 1) : acc = Reads(bytes, A)
    BY <1>8, <1>10, <2>1
  <2>6. A \in Seq(Int) /\ ListsUp(A, KeptIn(bytes, s, t))
    <3> HIDE DEF shown
    <3> QED BY <2>4, <2>5
  <2> HIDE DEF s, t, u, v, listings, shown
  <2>7. PICK B \in Seq(Int) : /\ ListsUp(B, u - 1 + 1 .. v)
                              /\ Slice(bytes, u - 1, v) = Reads(bytes, B)
    <3>1. u - 1 \in Nat /\ u - 1 <= v
      BY <2>2
    <3> QED BY <2>2, <3>1, SliceReads
  <2>8. ListsUp(B, u .. v)
    <3>1. u - 1 + 1 = u
      BY <2>2
    <3> QED BY <2>7, <3>1
  <2>9. Len(bytes) \in Nat
    BY LenProperties DEF ByteString
  <2>10. /\ KeptIn(bytes, s, t) \in SUBSET Int /\ (u .. v) \in SUBSET Int
         /\ \A p \in KeptIn(bytes, s, t), q \in u .. v : p < q
         /\ KeptIn(bytes, s, t) \in SUBSET (1 .. Len(bytes)) /\ (u .. v) \in SUBSET (1 .. Len(bytes))
    <3>1. \A p \in KeptIn(bytes, s, t) : p \in s + 1 .. t
      BY DEF KeptIn
    <3>2. \A p \in s + 1 .. t : p \in Int /\ p < u /\ p \in 1 .. Len(bytes)
      BY <2>2, <2>9
    <3>3. \A p \in u .. v : p \in Int /\ u <= p /\ p \in 1 .. Len(bytes)
      BY <2>2, <2>9
    <3>4. \A p \in KeptIn(bytes, s, t), q \in u .. v : p < q
      <4> TAKE p \in KeptIn(bytes, s, t), q \in u .. v
      <4>1. p \in Int /\ p < u /\ q \in Int /\ u <= q
        BY <3>1, <3>2, <3>3
      <4> QED BY <2>2, <4>1
    <3> QED BY <3>1, <3>2, <3>3, <3>4
  <2>11. ListsUp(A \o B, KeptIn(bytes, s, v))
    <3>1. ListsUp(A \o B, KeptIn(bytes, s, t) \cup (u .. v))
      BY <2>6, <2>8, <2>10, JoinedListed
    <3> QED BY <2>2, <3>1
  <2>12. Reads(bytes, A \o B) = Reads(bytes, A) \o Reads(bytes, B)
    <3>1. A \in Seq(KeptIn(bytes, s, t)) /\ B \in Seq(u .. v)
      BY <2>6, <2>8 DEF ListsUp
    <3>2. A \in Seq(1 .. Len(bytes)) /\ B \in Seq(1 .. Len(bytes))
      <4> DEFINE D == 1 .. Len(bytes)
                 K == KeptIn(bytes, s, t)
                 L == u .. v
      <4>1. (\A p \in K : p \in D) /\ (\A p \in L : p \in D) /\ A \in Seq(K) /\ B \in Seq(L)
        BY <2>10, <3>1
      <4> HIDE DEF D, K, L
      <4>2. A \in Seq(D) /\ B \in Seq(D)
        BY <4>1, Widened
      <4> QED BY <4>2 DEF D
    <3> QED BY <3>2, ReadsJoined
  <2>13. A \o B \in Seq(Int)
    BY <2>6, <2>7, ConcatProperties
  <2>14. Join(acc, list[k]) = Reads(bytes, A \o B)
    BY <2>3, <2>5, <2>7, <2>12 DEF Join
  <2> QED BY <1>8, <2>1, <2>4, <2>11, <2>13, <2>14, ZenonT(40)
<1>11. Flat!Fold(0, list) \in Holds[m]
  <2>1. Empty(0) \in Holds[0]
    BY <1>8 DEF Empty
  <2>2. ASSUME NEW k \in 1 .. Len(list), NEW acc \in Holds[k - 1]
        PROVE  Joined(0, acc, list[k]) \in Holds[k]
    <3>1. CASE k = 1
      <4>1. 1 \in 1 .. m /\ k - 1 = 0
        BY <1>7, <3>1
      <4>2. acc = <<>>
        BY <1>8, <2>2, <4>1
      <4> QED BY <1>9, <3>1, <4>1, <4>2 DEF Joined
    <3>2. CASE k # 1
      <4>1. k \in 2 .. m
        BY <1>2, <1>7, <3>2
      <4> QED BY <1>10, <2>2, <4>1 DEF Joined
    <3> QED BY <3>1, <3>2
  <2>3. Flat!Fold(0, list) \in Holds[Len(list)]
    BY <1>7, <2>1, <2>2, Flat!FoldReaches
  <2> QED BY <1>7, <2>3
<1>12. CanonicalContent(selected) = Flat!Fold(0, list)
  <2>1. CanonicalContent(selected) = FlattenSeq(list)
    BY DEF CanonicalContent, list, part
  <2> QED BY <1>7, <2>1, Flattened
<1>13. m \in 1 .. m
  BY <1>2
<1>14. PICK A \in listings(m) : Flat!Fold(0, list) = Reads(bytes, A)
  BY <1>8, <1>11, <1>13
<1> DEFINE t == lines[i + m - 1].byte_end
<1>15. /\ s \in Nat /\ t \in Nat /\ s <= t /\ t <= Len(bytes)
  <2>1. i + m - 1 \in 1 .. Len(lines) /\ i <= i + m - 1
    BY <1>2, <1>13
  <2>2. s <= t
    <3>1. i \in DOMAIN lines /\ i + m - 1 \in DOMAIN lines
      BY <1>1, <1>2, <2>1
    <3> QED BY <2>1, <3>1, LinesFollow
  <2>3. s \in Nat
    BY <1>2, LineKept
  <2> HIDE DEF s
  <2> QED BY <2>1, <2>2, <2>3, LineKept
<1>16. ListsUp(A, KeptIn(bytes, s, t))
  BY <1>14
<1>17. Normalised(Slice(bytes, s, t)) = Reads(bytes, A)
  <2> HIDE DEF s, t
  <2> QED BY <1>15, <1>16, NormalisedReads
<1>18. CanonicalContent(selected) = Normalised(Slice(bytes, s, t))
  BY <1>12, <1>14, <1>17
<1> QED BY <1>2, <1>18 DEF selected, i

\* A block that is verified is in the file, for a reader who knows nothing of
\* parsed lines: its bytes are there at the cited offsets, on the cited lines,
\* whole lines only, with CRLF shown as LF; for every source and every block,
\* whoever made it (live_status, canonical_block, parse_lines).
THEOREM VerifiedIsShown ==
  ASSUME NEW bytes \in ByteString, NEW block,
         block.line_start \in Int, block.line_end \in Int,
         LiveStatus(block, bytes) = "verified"
  PROVE  Shows(block, bytes)
<1> DEFINE lines == ParseLines(bytes)
           range == LineRange(block.line_start - 1, block.line_end - 1)
           first == lines[block.line_start]
           last == lines[block.line_end]
<1>1. /\ source_sha256(bytes) = block.source_sha256
      /\ IsRangeOf(lines, range)
      /\ Reproduces(block, block.path.bytes, CanonicalBlock(lines, range))
  BY DEF LiveStatus
<1>2. /\ range.start = block.line_start - 1 /\ range.end = block.line_end - 1
      /\ range.start \in Int /\ range.end \in Int
      /\ range.start + 1 = block.line_start /\ range.end + 1 = block.line_end
  BY DEF LineRange
<1> HIDE DEF range
<1>3. /\ block.line_start \in 1 .. Len(lines) /\ block.line_end \in 1 .. Len(lines)
      /\ block.line_start <= block.line_end
  <2>1. 0 <= range.start /\ range.start <= range.end /\ range.end < Len(lines)
    BY <1>1 DEF IsRangeOf
  <2>2. Len(lines) \in Nat
    BY EndsLie
  <2> HIDE DEF lines
  <2> QED BY <1>2, <2>1, <2>2
<1>4. /\ block.content.bytes = CanonicalContent(Selected(lines, range))
      /\ block.byte_start = first.byte_start /\ block.byte_end = last.byte_end
  BY <1>1, <1>2 DEF Reproduces, CanonicalBlock
<1>5. block.content.bytes = Normalised(Slice(bytes, block.byte_start, block.byte_end))
  <2>1. CanonicalContent(Selected(lines, range)) =
          Normalised(Slice(bytes, first.byte_start, last.byte_end))
    BY <1>1, <1>2, ContentShown
  <2> QED BY <1>4, <2>1
<1>6. /\ AtLineStart(bytes, block.byte_start) /\ LineOf(bytes, block.byte_start) = block.line_start
      /\ AtLineEnd(bytes, block.byte_end) /\ LineOf(bytes, block.byte_end) = block.line_end
      /\ block.byte_end <= Len(bytes)
  <2>1. AtLineStart(bytes, first.byte_start) /\ LineOf(bytes, first.byte_start) = block.line_start
    BY <1>3, LinesShow
  <2>2. /\ AtLineEnd(bytes, last.byte_end) /\ LineOf(bytes, last.byte_end) = block.line_end
        /\ last.byte_end <= Len(bytes)
    BY <1>3, LinesShow
  <2> QED BY <1>4, <2>1, <2>2
<1>7. block.byte_start <= block.byte_end
  <2>1. block.line_start \in DOMAIN lines /\ block.line_end \in DOMAIN lines
    BY <1>3, LinesType, LenProperties
  <2>2. first.byte_start <= last.byte_end
    BY <1>3, <2>1, LinesFollow
  <2> QED BY <1>4, <2>2
<1> QED BY <1>1, <1>5, <1>6, <1>7 DEF Shows

(***************************************************************************)
(* The machine of MCFormats.                                               *)
(***************************************************************************)

\* A source is made of bytes of the alphabet.
Fed == raw \in Seq(Alphabet)

\* A source is a byte string, and the plan is a plan.
LEMMA SourcesAreBytes ==
  ASSUME Fed
  PROVE  raw \in ByteString /\ IsPlan(Plan) /\ a \in ByteString /\ b \in ByteString /\ a # b
<1>1. Alphabet \subseteq Byte
  BY DEF Alphabet, Endings, x, LF, CR, Hash, Space, Byte
<1>2. raw \in ByteString
  BY <1>1 DEF Fed, ByteString
<1>3. a \in ByteString /\ b \in ByteString /\ a # b
  BY DEF a, b, ByteString, Byte
<1>4. IsPlan(Plan)
  <2>1. <<x, x>> \in ByteString /\ <<x>> \in ByteString /\ <<Hash, x>> \in ByteString
    BY DEF x, Hash, ByteString, Byte
  <2>2. /\ Plan.quoted_phrases = <<<<x, x>>>> /\ Plan.identifiers = <<<<x>>>>
        /\ Plan.terms = <<<<Hash, x>>>> /\ Plan.budget.context_lines = ContextLines
    BY DEF Plan
  <2> HIDE DEF x
  <2> QED BY <2>1, <2>2, ContextLinesAssumption DEF IsPlan
<1> QED BY <1>2, <1>3, <1>4

\* Every source is (Feed).
LEMMA FedType == Spec => []Fed
<1>1. Init => Fed
  BY DEF Init, Fed
<1>2. Fed /\ [Next]_<<raw, left, right, edits>> => Fed'
  <2> SUFFICES ASSUME Fed, [Next]_<<raw, left, right, edits>>
               PROVE  Fed'
    OBVIOUS
  <2>1. CASE UNCHANGED <<raw, left, right, edits>>
    BY <2>1 DEF Fed
  <2>2. CASE Edit
    BY <2>2 DEF Edit, Fed
  <2>3. ASSUME NEW byte \in Alphabet, Feed(byte)
        PROVE  Fed'
    <3> HIDE DEF Alphabet
    <3> QED BY <2>3, AppendProperties DEF Feed, Fed
  <2> QED BY <2>1, <2>2, <2>3 DEF Next
<1> QED BY <1>1, <1>2, PTL DEF Spec

\* The cited ranges are the maximal runs of lines that are context of a match
\* or lie between a match and the heading of its section, in file order
\* (matching_ranges, merge_ranges).
THEOREM CitedRangesAreMaximalRuns == Spec => []RangesAreMaximalRuns
<1>1. ASSUME Fed
      PROVE  RangesAreMaximalRuns
  <2> DEFINE ranges == matching_ranges(Plan, Lines)
  <2>1. IsPlan(Plan) /\ Lines \in Seq(Line)
    BY <1>1, SourcesAreBytes, LinesType DEF Lines
  <2>2. ranges \in Seq(Span) /\ Apart(ranges) /\ ToSet(ranges) = RunsOf(WantedLines(Plan, Lines))
    BY <2>1, RangesAreRuns
  <2>3. Wanted = WantedLines(Plan, Lines)
    <3>1. Plan.budget.context_lines = ContextLines
      BY DEF Plan
    <3>2. \A i, j : IsWanted(Plan, Lines, i, j) <=>
            \/ j - i \in -ContextLines .. ContextLines
            \/ \E h \in 0 .. j : j <= i /\ SectionOf(h, i)
      BY <3>1 DEF IsWanted, InSection, Heading, SectionOf, IsHeadingLine
    <3> QED BY <3>2 DEF Wanted, WantedLines
  <2>4. Runs = RunsOf(Wanted)
    BY DEF Runs, RunsOf
  <2>5. ASSUME NEW i \in DOMAIN ranges, NEW j \in DOMAIN ranges, i < j
        PROVE  ranges[i].end < ranges[j].start
    <3>1. ranges[i].end + 1 < ranges[j].start
      BY <2>2, <2>5 DEF Apart
    <3>2. ranges[i] \in Span /\ ranges[j] \in Span
      <4> HIDE DEF Span, ranges
      <4> QED BY <2>2, LenProperties, ElementOfSeq
    <3> QED BY <3>1, <3>2 DEF Span
  <2> QED BY <2>2, <2>3, <2>4, <2>5 DEF RangesAreMaximalRuns
<1> QED BY <1>1, FedType, PTL

\* What search reports of a file, verification confirms of the same file
\* (build_block against preflight_status and live_status).
THEOREM FoundBlocksAreVerified == Spec => []FoundBlocksVerify
<1>1. ASSUME Fed
      PROVE  FoundBlocksVerify
  BY <1>1, SourcesAreBytes, BuiltBlocksVerify DEF FoundBlocksVerify, Found
<1> QED BY <1>1, FedType, PTL

\* A block that verification confirms is found in the file by a reader who
\* knows nothing of parsed lines (live_status, canonical_block, parse_lines).
THEOREM VerifiedBlocksAreShown == Spec => []VerifiedBlocksShow
<1>1. ASSUME Fed
      PROVE  VerifiedBlocksShow
  <2>1. raw \in ByteString /\ IsPlan(Plan) /\ a \in ByteString
    BY <1>1, SourcesAreBytes
  <2>2. ASSUME NEW block \in ToSet(Found)
        PROVE  /\ block.line_start \in Int /\ block.line_end \in Int
               /\ {"line_start", "line_end", "byte_start", "byte_end", "content", "block_id"}
                    \subseteq DOMAIN block
    <3> DEFINE lines == ParseLines(raw)
               ranges == matching_ranges(Plan, lines)
    <3>1. PICK k \in DOMAIN ranges : block = build_block(Plan, a, raw, lines, ranges[k])
      BY <2>2 DEF ToSet, Found, blocks_for_file
    <3>2. lines \in Seq(Line)
      BY <2>1, LinesType
    <3>3. ranges[k] \in RangesOf(lines)
      <4>1. ranges \in Seq(RangesOf(lines))
        BY <2>1, <3>2, MatchingRangesType
      <4> QED BY <3>1, <4>1, LenProperties, ElementOfSeq
    <3>4. ranges[k].start \in Nat /\ ranges[k].end \in Nat
      BY <3>3 DEF RangesOf
    <3> HIDE DEF ranges, lines
    <3>5. block.line_start = ranges[k].start + 1 /\ block.line_end = ranges[k].end + 1
      BY <3>1 DEF build_block
    <3>6. {"line_start", "line_end", "byte_start", "byte_end", "content", "block_id"}
            \subseteq DOMAIN block
      BY <3>1 DEF build_block
    <3> QED BY <3>4, <3>5, <3>6
  <2>3. ASSUME NEW block \in ToSet(Found), NEW e \in Edited(block)
        PROVE  e.line_start \in Int /\ e.line_end \in Int
    <3> DEFINE contents == {Front(block.content.bytes), Tail(block.content.bytes)}
                             \cup {Append(block.content.bytes, byte) : byte \in {LF, CR}}
               ByLine == {Lined(block, s, t) :
                            s \in Near(block.line_start), t \in Near(block.line_end)}
               ByByte == {Cut(block, s, t) :
                            s \in Near(block.byte_start), t \in Near(block.byte_end)}
               ByContent == {Worded(block, c) : c \in contents}
    <3> HIDE DEF contents
    <3>1. PICK f \in ByLine \cup ByByte \cup ByContent : e = Renamed(f)
      BY <2>3 DEF Edited, contents
    <3>2. f.line_start \in Int /\ f.line_end \in Int /\ DOMAIN f = DOMAIN block
      <4>1. CASE f \in ByLine
        <5>1. PICK s \in Near(block.line_start), t \in Near(block.line_end) :
                f = Lined(block, s, t)
          BY <4>1
        <5>2. s \in Int /\ t \in Int
          <6> HIDE DEF ByLine, ByByte, ByContent
          <6> QED BY <2>2 DEF Near
        <5> HIDE DEF ByLine, ByByte, ByContent
        <5> QED BY <2>2, <5>1, <5>2 DEF Lined
      <4>2. CASE f \in ByByte
        <5>1. PICK s, t : f = Cut(block, s, t)
          BY <4>2
        <5> HIDE DEF ByLine, ByByte, ByContent
        <5> QED BY <2>2, <5>1 DEF Cut
      <4>3. CASE f \in ByContent
        <5>1. PICK c : f = Worded(block, c)
          BY <4>3
        <5> HIDE DEF ByLine, ByByte, ByContent
        <5> QED BY <2>2, <5>1 DEF Worded
      <4> HIDE DEF ByLine, ByByte, ByContent
      <4> QED BY <3>1, <4>1, <4>2, <4>3
    <3> HIDE DEF ByLine, ByByte, ByContent
    <3>3. e.line_start = f.line_start /\ e.line_end = f.line_end
      BY <2>2, <3>1, <3>2 DEF Renamed
    <3> QED BY <3>2, <3>3
  <2>4. ASSUME NEW block \in ToSet(Found), NEW e \in Edited(block) \cup {block},
               LiveStatus(e, raw) = "verified"
        PROVE  Shows(e, raw)
    <3>1. e.line_start \in Int /\ e.line_end \in Int
      BY <2>2, <2>3, <2>4
    <3> QED BY <2>1, <2>4, <3>1, VerifiedIsShown
  <2> QED BY <2>4 DEF VerifiedBlocksShow
<1> QED BY <1>1, FedType, PTL

\* Blocks of different files or lines never compare equal (compare_ranked).
THEOREM BlocksAreRanked == Spec => []RankingIsTotal
<1>1. ASSUME Fed
      PROVE  RankingIsTotal
  <2> DEFINE one == blocks_for_file(Plan, a, raw)
             two == blocks_for_file(Plan, b, raw)
  <2>1. /\ raw \in ByteString /\ IsPlan(Plan)
        /\ a \in ByteString /\ b \in ByteString /\ a # b
    BY <1>1, SourcesAreBytes
  <2>2. one \in Seq(ToSet(one)) /\ two \in Seq(ToSet(two))
    BY <2>1, BlocksType
  <2> HIDE DEF one, two
  <2>3. \A p \in ToSet(one \o two) : p \in ToSet(one) \/ p \in ToSet(two)
    <3> TAKE p \in ToSet(one \o two)
    <3>1. PICK k \in DOMAIN (one \o two) : p = (one \o two)[k]
      BY DEF ToSet
    <3>2. one \in Seq(ToSet(one) \cup ToSet(two)) /\ two \in Seq(ToSet(one) \cup ToSet(two))
      BY <2>2
    <3>3. one \o two \in Seq(ToSet(one) \cup ToSet(two))
      BY <3>2, ConcatProperties
    <3> QED BY <3>1, <3>3, LenProperties, ElementOfSeq
  <2>4. ASSUME NEW p \in ToSet(one) \cup ToSet(two), NEW q \in ToSet(one) \cup ToSet(two), p # q
        PROVE  RankedBefore(p, q) <=> ~RankedBefore(q, p)
    <3>1. CASE p \in ToSet(one) /\ q \in ToSet(one)
      BY <2>1, <2>4, <3>1, BlocksRankTotally DEF one
    <3>2. CASE p \in ToSet(two) /\ q \in ToSet(two)
      BY <2>1, <2>4, <3>2, BlocksRankTotally DEF two
    <3>3. CASE p \in ToSet(one) /\ q \in ToSet(two)
      BY <2>1, <2>4, <3>3, BlocksRankTotally DEF one, two
    <3>4. CASE p \in ToSet(two) /\ q \in ToSet(one)
      BY <2>1, <2>4, <3>4, BlocksRankTotally DEF one, two
    <3> QED BY <3>1, <3>2, <3>3, <3>4
  <2> QED BY <2>3, <2>4 DEF RankingIsTotal, Found, one, two
<1> QED BY <1>1, FedType, PTL

BundleType ==
  [schema_version : Stream, bundle_sha256 : Stream, query : Stream, root : Stream,
   budget : Nat, blocks : Seq(BlockType), skipped : Seq(SkipType), critic : CriticType]

\* The last item of one sequence can become the first of another.
LEMMA PassesType ==
  ASSUME NEW X, NEW n \in Nat, NEW seqs \in Seq(Seq(X)), Len(seqs) = n,
         NEW t \in Passes(seqs)
  PROVE  t \in Seq(Seq(X)) /\ Len(t) = n /\ \A i \in 1 .. n : t[i] \in Seq(X)
<1>1. PICK i \in DOMAIN seqs, j \in DOMAIN seqs :
        i # j /\ seqs[i] # <<>> /\ t = Passed(seqs, i, j)
  BY DEF Passes
<1>2. DOMAIN seqs = 1 .. n /\ \A k \in 1 .. n : seqs[k] \in Seq(X)
  BY LenProperties, ElementOfSeq
<1> DEFINE less == Front(seqs[i])
           head == <<Last(seqs[i])>>
           more == head \o seqs[j]
<1>3. less \in Seq(X) /\ Last(seqs[i]) \in X
  BY <1>1, <1>2, FrontType
<1>4. more \in Seq(X)
  <2>1. head \in Seq(X)
    BY <1>3
  <2> HIDE DEF head
  <2> QED BY <1>2, <2>1, ConcatProperties
<1>5. t = [seqs EXCEPT ![i] = less, ![j] = more]
  BY <1>1 DEF Passed
<1> HIDE DEF less, more
<1>6. t \in [1 .. n -> Seq(X)]
  <2> DEFINE S == Seq(X)
  <2>1. seqs \in [1 .. n -> S]
    <3>1. seqs = [k \in 1 .. n |-> seqs[k]]
      BY <1>2, LenProperties
    <3> HIDE DEF S
    <3> QED BY <1>2, <3>1 DEF S
  <2> HIDE DEF S
  <2> QED BY <1>3, <1>4, <1>5, <2>1 DEF S
<1> DEFINE S == Seq(X)
<1>7. t \in Seq(S) /\ Len(t) = n /\ \A k \in 1 .. n : t[k] \in S
  <2> HIDE DEF S
  <2>1. t \in [1 .. n -> S]
    BY <1>6 DEF S
  <2> QED BY <2>1
<1> QED BY <1>7

\* Strings of a list can be joined, or the first one cut.
LEMMA RegroupedType ==
  ASSUME NEW list \in Seq(Stream), NEW t \in Regrouped(list)
  PROVE  t \in Seq(Stream)
<1>1. Len(list) \in Nat /\ \A k \in 1 .. Len(list) : list[k] \in Stream
  BY LenProperties, ElementOfSeq
<1>2. ASSUME Len(list) > 1
      PROVE  <<list[1] \o list[2]>> \o SubSeq(list, 3, Len(list)) \in Seq(Stream)
  <2> DEFINE one  == Join(list[1], list[2])
             head == <<one>>
             rest == SubSeq(list, 3, Len(list))
  <2>1. one \in Stream
    <3>1. list[1] \in Stream /\ list[2] \in Stream
      BY <1>1, <1>2
    <3> QED BY <3>1, StreamsConcat, Zenon
  <2>2. head \in Seq(Stream)
    <3> HIDE DEF one
    <3> QED BY <2>1
  <2>3. rest \in Seq(Stream)
    <3>1. \A k \in 3 .. Len(list) : list[k] \in Stream
      BY <1>1
    <3> QED BY <1>1, <3>1, SubSeqProperties
  <2> HIDE DEF head, rest
  <2>4. head \o rest \in Seq(Stream)
    BY <2>2, <2>3, ConcatProperties
  <2> QED BY <2>4, Zenon DEF head, rest, one, Join
<1>3. ASSUME list # <<>>, Len(list[1]) > 1
      PROVE  <<<<list[1][1]>>, Tail(list[1])>> \o Tail(list) \in Seq(Stream)
  <2> DEFINE one  == <<list[1][1]>>
             two  == Tail(list[1])
             head == <<one, two>>
             rest == Tail(list)
  <2>1. list[1] \in Stream
    <3>1. Len(list) # 0
      BY <1>3, EmptySeq
    <3> QED BY <1>1, <3>1
  <2>2. one \in Stream /\ two \in Stream
    <3>1. list[1][1] \in Nat /\ list[1] # <<>>
      BY <1>3, <2>1 DEF Stream
    <3>2. two \in Stream
      BY <2>1, <3>1, HeadTailProperties DEF Stream
    <3>3. one \in Stream
      BY <3>1 DEF Stream
    <3> QED BY <3>2, <3>3
  <2>3. head \in Seq(Stream)
    <3> HIDE DEF one, two
    <3> QED BY <2>2
  <2>4. rest \in Seq(Stream)
    BY <1>3, HeadTailProperties
  <2> HIDE DEF head, rest
  <2>5. head \o rest \in Seq(Stream)
    BY <2>3, <2>4, ConcatProperties
  <2> QED BY <2>5, Zenon DEF head, rest, one, two
<1>4. \/ t = IF Len(list) > 1 THEN <<list[1] \o list[2]>> \o SubSeq(list, 3, Len(list)) ELSE list
      \/ t = IF list # <<>> /\ Len(list[1]) > 1
             THEN <<<<list[1][1]>>, Tail(list[1])>> \o Tail(list) ELSE list
  BY Zenon DEF Regrouped
<1>5. CASE t = IF Len(list) > 1 THEN <<list[1] \o list[2]>> \o SubSeq(list, 3, Len(list)) ELSE list
  BY <1>2, <1>5, Zenon
<1>6. CASE t = IF list # <<>> /\ Len(list[1]) > 1
               THEN <<<<list[1][1]>>, Tail(list[1])>> \o Tail(list) ELSE list
  BY <1>3, <1>6, Zenon
<1> QED BY <1>4, <1>5, <1>6

\* A digit moves from one number to the other.
LEMMA MovedType ==
  ASSUME NEW n \in Nat, NEW m \in Nat
  PROVE  Moved(n, m)[1] \in Nat /\ Moved(n, m)[2] \in Nat
<1>1. n \div 10 \in Nat /\ n % 10 \in Nat
  BY Tenth
<1>2. 10 * (n % 10) + m \in Nat
  BY <1>1
<1> QED BY <1>1, <1>2 DEF Moved

\* An edited block has the fields of a block.
LEMMA BlockEditsType ==
  ASSUME NEW k \in BlockType, NEW e \in BlockEdits(k)
  PROVE  e \in BlockType
<1> DEFINE T == Stream
           L == Seq(Stream)
<1>1. /\ BlockType = [path : [encoding : Encodings, bytes : T],
                      line_start : Nat, line_end : Nat, byte_start : Nat, byte_end : Nat,
                      content : [encoding : Encodings, bytes : T],
                      matched_terms : L, score : Nat,
                      score_components : [exact_phrase : Nat, identifier : Nat, all_terms : Nat,
                                          heading : Nat, path : Nat, proximity : Nat],
                      why : L, block_id : T, source_sha256 : T]
  BY Zenon DEF BlockType, Stream
<1>2. CASE \E t \in Passes(Texts(k)) : e = WithTexts(k, t)
  <2>1. PICK t \in Passes(Texts(k)) : e = WithTexts(k, t)
    BY <1>2
  <2>2. Texts(k) \in Seq(Stream) /\ Len(Texts(k)) = 4
    <3> HIDE DEF T, L
    <3>1. k.path.bytes \in T /\ k.content.bytes \in T /\ k.block_id \in T /\ k.source_sha256 \in T
      BY <1>1
    <3>2. Texts(k) \in Seq(T) /\ Len(Texts(k)) = 4
      BY <3>1 DEF Texts
    <3> QED BY <3>2 DEF T
  <2>3. t[1] \in T /\ t[2] \in T /\ t[3] \in T /\ t[4] \in T
    <3>1. \A i \in 1 .. 4 : t[i] \in Seq(Nat)
      BY <2>2, PassesType, Zenon DEF Stream
    <3>2. \A i \in 1 .. 4 : t[i] \in T
      BY <3>1, Zenon DEF Stream
    <3> HIDE DEF T
    <3> QED BY <3>2
  <2> HIDE DEF T, L
  <2> QED BY <1>1, <2>1, <2>3 DEF WithTexts
<1>3. CASE \E l \in Passes(<<k.matched_terms, k.why>>) :
             e = [k EXCEPT !.matched_terms = l[1], !.why = l[2]]
  <2>1. PICK l \in Passes(<<k.matched_terms, k.why>>) :
               e = [k EXCEPT !.matched_terms = l[1], !.why = l[2]]
    BY <1>3
  <2> DEFINE both == <<k.matched_terms, k.why>>
  <2>2. both \in Seq(L) /\ Len(both) = 2
    <3> HIDE DEF T, L
    <3> QED BY <1>1
  <2>3. l[1] \in L /\ l[2] \in L
    <3>1. \A i \in 1 .. 2 : l[i] \in L
      BY <2>2, PassesType, Zenon
    <3> HIDE DEF L
    <3> QED BY <3>1
  <2> HIDE DEF T, L
  <2> QED BY <1>1, <2>1, <2>3
<1>4. CASE \E l \in Regrouped(k.matched_terms) : e = [k EXCEPT !.matched_terms = l]
  <2>1. PICK l \in Regrouped(k.matched_terms) : e = [k EXCEPT !.matched_terms = l]
    BY <1>4
  <2>2. k.matched_terms \in L
    <3> HIDE DEF T, L
    <3> QED BY <1>1
  <2>3. l \in L
    BY <2>2, RegroupedType
  <2> HIDE DEF T, L
  <2> QED BY <1>1, <2>1, <2>3
<1>5. CASE e = [k EXCEPT !.line_start = Moved(@, k.line_end)[1],
                         !.line_end = Moved(k.line_start, @)[2]]
  <2> HIDE DEF T, L
  <2>1. k.line_start \in Nat /\ k.line_end \in Nat
    BY <1>1
  <2>2. Moved(k.line_start, k.line_end)[1] \in Nat /\ Moved(k.line_start, k.line_end)[2] \in Nat
    BY <2>1, MovedType
  <2> QED BY <1>1, <1>5, <2>2
<1>6. CASE e = [k EXCEPT !.line_end = k.byte_start, !.byte_start = k.line_end]
  <2> HIDE DEF T, L
  <2> QED BY <1>1, <1>6
<1>7. CASE e = [k EXCEPT !.score = 0, !.score_components.exact_phrase = 5]
  <2> HIDE DEF T, L
  <2> QED BY <1>1, <1>7
<1>8. CASE e = [k EXCEPT !.path.encoding = "base64"]
  <2>1. "base64" \in Encodings
    BY DEF Encodings
  <2>2. k.path \in [encoding : Encodings, bytes : T]
    <3> HIDE DEF T, L
    <3> QED BY <1>1
  <2>3. [k.path EXCEPT !.encoding = "base64"] \in [encoding : Encodings, bytes : T]
    <3> HIDE DEF T
    <3> QED BY <2>1, <2>2
  <2>4. e = [k EXCEPT !.path = [k.path EXCEPT !.encoding = "base64"]]
    <3> HIDE DEF T, L
    <3> QED BY <1>1, <1>8
  <2> HIDE DEF T, L
  <2> QED BY <1>1, <2>3, <2>4
<1>9. \/ \E t \in Passes(Texts(k)) : e = WithTexts(k, t)
      \/ \E l \in Passes(<<k.matched_terms, k.why>>) :
           e = [k EXCEPT !.matched_terms = l[1], !.why = l[2]]
      \/ \E l \in Regrouped(k.matched_terms) : e = [k EXCEPT !.matched_terms = l]
      \/ e = [k EXCEPT !.line_start = Moved(@, k.line_end)[1],
                       !.line_end = Moved(k.line_start, @)[2]]
      \/ e = [k EXCEPT !.line_end = k.byte_start, !.byte_start = k.line_end]
      \/ e = [k EXCEPT !.score = 0, !.score_components.exact_phrase = 5]
      \/ e = [k EXCEPT !.path.encoding = "base64"]
  BY Zenon DEF BlockEdits
<1> QED BY <1>2, <1>3, <1>4, <1>5, <1>6, <1>7, <1>8, <1>9, Zenon

\* An edited critic has the fields of a critic.
LEMMA CriticEditsType ==
  ASSUME NEW c \in CriticType, NEW e \in CriticEdits(c)
  PROVE  e \in CriticType
<1> DEFINE L == Seq(Stream)
           lists == <<c.covered_quoted_phrases, c.covered_identifiers, c.uncovered>>
<1>1. CriticType = [verdict : {"accepted", "rejected"}, covered_quoted_phrases : L,
                    covered_identifiers : L, uncovered : L]
  BY Zenon DEF CriticType
<1>2. CASE e = [c EXCEPT !.verdict = "rejected"]
  <2> HIDE DEF L
  <2> QED BY <1>1, <1>2
<1>3. CASE \E l \in Passes(lists) :
             e = [c EXCEPT !.covered_quoted_phrases = l[1], !.covered_identifiers = l[2],
                           !.uncovered = l[3]]
  <2>1. PICK l \in Passes(lists) :
               e = [c EXCEPT !.covered_quoted_phrases = l[1], !.covered_identifiers = l[2],
                             !.uncovered = l[3]]
    BY <1>3
  <2>2. lists \in Seq(L) /\ Len(lists) = 3
    <3> HIDE DEF L
    <3> QED BY <1>1
  <2>3. l[1] \in L /\ l[2] \in L /\ l[3] \in L
    <3>1. \A i \in 1 .. 3 : l[i] \in L
      BY <2>2, PassesType, Zenon
    <3> HIDE DEF L
    <3> QED BY <3>1
  <2> HIDE DEF L
  <2> QED BY <1>1, <2>1, <2>3
<1> QED BY <1>2, <1>3, Zenon DEF CriticEdits

\* An edited bundle has the fields of a bundle.
LEMMA EditsType ==
  ASSUME NEW bundle \in BundleType, NEW e \in Edits(bundle)
  PROVE  e \in BundleType
<1> DEFINE T  == Stream
           B  == BlockType
           S  == SkipType
           BS == Seq(B)
           SS == Seq(S)
           C  == CriticType
<1>1. BundleType = [schema_version : T, bundle_sha256 : T, query : T, root : T, budget : Nat,
                    blocks : BS, skipped : SS, critic : C]
  BY Zenon DEF BundleType
<1>2. bundle.blocks \in BS /\ bundle.skipped \in SS /\ bundle.critic \in C
  <2> HIDE DEF T, BS, SS, C
  <2> QED BY <1>1
<1>3. CASE \E c \in CriticEdits(bundle.critic) : e = [bundle EXCEPT !.critic = c]
  <2>1. PICK c \in CriticEdits(bundle.critic) : e = [bundle EXCEPT !.critic = c]
    BY <1>3
  <2>2. c \in C
    BY <1>2, CriticEditsType
  <2> HIDE DEF T, BS, SS, C
  <2> QED BY <1>1, <2>1, <2>2
<1>4. CASE \E i \in DOMAIN bundle.blocks : \E k \in BlockEdits(bundle.blocks[i]) :
             e = [bundle EXCEPT !.blocks[i] = k]
  <2>1. PICK i \in DOMAIN bundle.blocks :
               \E k \in BlockEdits(bundle.blocks[i]) : e = [bundle EXCEPT !.blocks[i] = k]
    BY <1>4
  <2>2. PICK k \in BlockEdits(bundle.blocks[i]) : e = [bundle EXCEPT !.blocks[i] = k]
    BY <2>1
  <2> DEFINE new == [bundle.blocks EXCEPT ![i] = k]
  <2>3. k \in B
    <3>1. bundle.blocks[i] \in B
      <4> HIDE DEF B
      <4> QED BY <1>2, <2>1
    <3> QED BY <2>2, <3>1, BlockEditsType
  <2>4. new \in BS
    <3> HIDE DEF B
    <3> QED BY <1>2, <2>3
  <2>5. e = [bundle EXCEPT !.blocks = new]
    <3> HIDE DEF T, BS, SS, C
    <3> QED BY <1>1, <2>2
  <2> HIDE DEF T, BS, SS, C, new
  <2> QED BY <1>1, <2>4, <2>5
<1>5. CASE e = [bundle EXCEPT !.blocks = <<>>] \/ e = [bundle EXCEPT !.skipped = <<>>]
  <2>1. <<>> \in BS /\ <<>> \in SS
    <3> HIDE DEF B, S
    <3> QED OBVIOUS
  <2> HIDE DEF T, BS, SS, C
  <2> QED BY <1>1, <1>5, <2>1
<1>6. CASE e = [bundle EXCEPT !.blocks = @ \o @]
  <2> DEFINE new == bundle.blocks \o bundle.blocks
  <2>1. new \in BS
    BY <1>2, ConcatProperties
  <2>2. e = [bundle EXCEPT !.blocks = new]
    BY <1>6, Zenon
  <2> HIDE DEF T, BS, SS, C, new
  <2> QED BY <1>1, <2>1, <2>2
<1>7. CASE e = [bundle EXCEPT !.skipped = @ \o @]
  <2> DEFINE new == bundle.skipped \o bundle.skipped
  <2>1. new \in SS
    BY <1>2, ConcatProperties
  <2>2. e = [bundle EXCEPT !.skipped = new]
    BY <1>7, Zenon
  <2> HIDE DEF T, BS, SS, C, new
  <2> QED BY <1>1, <2>1, <2>2
<1>8. CASE e = [bundle EXCEPT !.skipped = [i \in DOMAIN @ |-> [@[i] EXCEPT !.reason = "budget"]]]
  <2> DEFINE over(skip) == [skip EXCEPT !.reason = "budget"]
             new == [i \in DOMAIN bundle.skipped |-> over(bundle.skipped[i])]
  <2>1. \A skip \in S : over(skip) \in S
    <3> DEFINE R == ToSet(SkipReasons)
    <3>1. "budget" \in R
      <4>1. 7 \in DOMAIN SkipReasons /\ SkipReasons[7] = "budget"
        BY DEF SkipReasons
      <4> QED BY <4>1 DEF ToSet
    <3>2. SkipType = [path : [encoding : Encodings, bytes : Stream], reason : R]
      BY Zenon DEF SkipType
    <3> HIDE DEF R
    <3> QED BY <3>1, <3>2
  <2> HIDE DEF over, S
  <2>2. \A i \in DOMAIN bundle.skipped : over(bundle.skipped[i]) \in S
    BY <1>2, <2>1
  <2>3. new \in SS
    BY <1>2, <2>2
  <2>4. e = [bundle EXCEPT !.skipped = new]
    BY <1>8, Zenon DEF over
  <2> HIDE DEF T, BS, SS, C, new
  <2> QED BY <1>1, <2>3, <2>4
<1>9. CASE \/ e = [bundle EXCEPT !.query = <<x>>] \/ e = [bundle EXCEPT !.root = <<y>>]
           \/ e = [bundle EXCEPT !.budget = 2]
  <2>1. <<x>> \in T /\ <<y>> \in T
    BY DEF x, y, Stream
  <2> HIDE DEF T, BS, SS, C
  <2> QED BY <1>1, <1>9, <2>1
<1> DEFINE verdicts == {[bundle EXCEPT !.critic = c] : c \in CriticEdits(bundle.critic)}
           wholes == {[bundle EXCEPT !.blocks = <<>>], [bundle EXCEPT !.blocks = @ \o @],
                      [bundle EXCEPT !.skipped = <<>>], [bundle EXCEPT !.skipped = @ \o @],
                      [bundle EXCEPT !.skipped =
                         [i \in DOMAIN @ |-> [@[i] EXCEPT !.reason = "budget"]]],
                      [bundle EXCEPT !.query = <<x>>],
                      [bundle EXCEPT !.root = <<y>>], [bundle EXCEPT !.budget = 2]}
           parts(i) == {[bundle EXCEPT !.blocks[i] = k] : k \in BlockEdits(bundle.blocks[i])}
<1>10. e \in verdicts \/ e \in wholes \/ \E i \in DOMAIN bundle.blocks : e \in parts(i)
  <2>1. Edits(bundle) = verdicts \cup wholes \cup UNION {parts(i) : i \in DOMAIN bundle.blocks}
    BY Zenon DEF Edits
  <2> HIDE DEF verdicts, wholes, parts
  <2> QED BY <2>1
<1>11. CASE e \in wholes
  <2>1. \/ e = [bundle EXCEPT !.blocks = <<>>] \/ e = [bundle EXCEPT !.skipped = <<>>]
        \/ e = [bundle EXCEPT !.blocks = @ \o @]
        \/ e = [bundle EXCEPT !.skipped = @ \o @]
        \/ e = [bundle EXCEPT !.skipped = [i \in DOMAIN @ |-> [@[i] EXCEPT !.reason = "budget"]]]
        \/ e = [bundle EXCEPT !.query = <<x>>] \/ e = [bundle EXCEPT !.root = <<y>>]
        \/ e = [bundle EXCEPT !.budget = 2]
    BY <1>11, Zenon
  <2> QED BY <1>5, <1>6, <1>7, <1>8, <1>9, <2>1, Zenon
<1> QED BY <1>3, <1>4, <1>10, <1>11, Zenon

\* The bundle both sides start from has the fields of a bundle.
LEMMA OriginalType == Original \in BundleType
<1> DEFINE T == Stream
           L == Seq(T)
           X1 == <<x>>
           XY == <<x, y>>
           XX == <<x, x>>
           Y1 == <<y>>
           terms == <<XY, X1>>
           whys == <<X1>>
<1>1. X1 \in T /\ XY \in T /\ XX \in T /\ Y1 \in T /\ <<>> \in T
  BY DEF x, y, Stream
<1>2. /\ Encoded(XY) \in [encoding : Encodings, bytes : T]
      /\ Encoded(X1) \in [encoding : Encodings, bytes : T]
      /\ Encoded(Y1) \in [encoding : Encodings, bytes : T]
  <2>1. "utf8" \in Encodings /\ "base64" \in Encodings
    BY DEF Encodings
  <2> HIDE DEF T, X1, XY, Y1
  <2> QED BY <1>1, <2>1 DEF Encoded
<1>3. terms \in L /\ whys \in L /\ <<>> \in L
  <2> HIDE DEF T, X1, XY
  <2> QED BY <1>1
<1>4. Block \in BlockType
  <2>1. BlockType = [path : [encoding : Encodings, bytes : T],
                     line_start : Nat, line_end : Nat, byte_start : Nat, byte_end : Nat,
                     content : [encoding : Encodings, bytes : T],
                     matched_terms : L, score : Nat,
                     score_components : [exact_phrase : Nat, identifier : Nat, all_terms : Nat,
                                         heading : Nat, path : Nat, proximity : Nat],
                     why : L, block_id : T, source_sha256 : T]
    BY Zenon DEF BlockType, Stream
  <2>2. Block = [path |-> Encoded(XY), line_start |-> 11, line_end |-> 2,
                 byte_start |-> 1, byte_end |-> 12, content |-> Encoded(X1),
                 matched_terms |-> terms, score |-> 5,
                 score_components |-> [exact_phrase |-> 1, identifier |-> 1, all_terms |-> 1,
                                       heading |-> 1, path |-> 1, proximity |-> 0],
                 why |-> whys, block_id |-> XX, source_sha256 |-> Y1]
    BY Zenon DEF Block
  <2> HIDE DEF T, L, X1, XY, XX, Y1, terms, whys
  <2> QED BY <1>1, <1>2, <1>3, <2>1, <2>2
<1> DEFINE gap == [path |-> Encoded(Y1), reason |-> "secret"]
           gaps == <<gap>>
           blocks == <<Block>>
           judged == [verdict |-> "accepted", covered_quoted_phrases |-> <<>>,
                      covered_identifiers |-> whys, uncovered |-> <<>>]
<1>5. gap \in SkipType
  <2> DEFINE R == ToSet(SkipReasons)
  <2>1. "secret" \in R
    <3>1. 3 \in DOMAIN SkipReasons /\ SkipReasons[3] = "secret"
      BY DEF SkipReasons
    <3> QED BY <3>1 DEF ToSet
  <2>2. SkipType = [path : [encoding : Encodings, bytes : T], reason : R]
    BY Zenon DEF SkipType
  <2> HIDE DEF R, T, Y1
  <2> QED BY <1>2, <2>1, <2>2
<1>6. judged \in CriticType
  <2>1. CriticType = [verdict : {"accepted", "rejected"}, covered_quoted_phrases : L,
                      covered_identifiers : L, uncovered : L]
    BY Zenon DEF CriticType
  <2> HIDE DEF L, whys
  <2> QED BY <1>3, <2>1
<1>7. gaps \in Seq(SkipType) /\ blocks \in Seq(BlockType)
  <2> HIDE DEF gap
  <2> QED BY <1>4, <1>5
<1>8. SchemaVersion \in T
  BY DEF SchemaVersion, Stream
<1>9. Original = [schema_version |-> SchemaVersion, bundle_sha256 |-> <<>>, query |-> XY,
                  root |-> X1, budget |-> 1, blocks |-> blocks, skipped |-> gaps,
                  critic |-> judged]
  BY Zenon DEF Original
<1> HIDE DEF T, X1, XY, gaps, blocks, judged
<1> QED BY <1>1, <1>6, <1>7, <1>8, <1>9 DEF BundleType, T

\* Both bundles have the fields of a bundle, however they were edited (Edit).
Bundles == left \in BundleType /\ right \in BundleType

\* Every pair of bundles is (Edit).
LEMMA BundlesType == Spec => []Bundles
<1>1. Init => Bundles
  BY OriginalType DEF Init, Bundles
<1>2. Bundles /\ [Next]_<<raw, left, right, edits>> => Bundles'
  <2> SUFFICES ASSUME Bundles, [Next]_<<raw, left, right, edits>>
               PROVE  Bundles'
    OBVIOUS
  <2>1. CASE UNCHANGED <<raw, left, right, edits>>
    BY <2>1 DEF Bundles
  <2>2. CASE Edit
    BY <2>2, EditsType DEF Edit, EditLeft, EditRight, Bundles
  <2>3. ASSUME NEW byte \in Alphabet, Feed(byte)
        PROVE  Bundles'
    BY <2>3 DEF Feed, Bundles
  <2> QED BY <2>1, <2>2, <2>3 DEF Next
<1> QED BY <1>1, <1>2, PTL DEF Spec

\* Two bundles edited apart have one digest exactly when they agree on every
\* attested field (compute_bundle_sha256).
THEOREM DigestsBindPayloads == Spec => []DigestBindsPayload
<1>1. ASSUME Bundles
      PROVE  DigestBindsPayload
  <2>1. \A bundle \in BundleType : IsBundle(bundle)
    BY DEF BundleType, IsBundle
  <2> QED BY <1>1, <2>1, DigestsBind DEF Bundles, DigestBindsPayload
<1> QED BY <1>1, BundlesType, PTL

\* Their blocks have one identifier exactly when they show the same bytes on
\* the same lines of the same path (identity.rs::block_id).
THEOREM IdentifiersBindBlocks == Spec => []IdentifierBindsBlock
<1>1. ASSUME Bundles
      PROVE  IdentifierBindsBlock
  <2>1. \A bundle \in BundleType : \A k \in ToSet(bundle.blocks) : k \in BlockType
    <3> TAKE bundle \in BundleType
    <3>1. bundle.blocks \in Seq(BlockType)
      BY DEF BundleType
    <3> QED BY <3>1, LenProperties, ElementOfSeq DEF ToSet
  <2>2. ASSUME NEW k \in BlockType, NEW l \in BlockType
        PROVE  Identity(k) = Identity(l) <=> Located(k) = Located(l)
    <3>1. \A d \in BlockType : /\ d.path.bytes \in Stream /\ d.content.bytes \in Stream
                               /\ d.line_start \in Nat /\ d.line_end \in Nat
      BY DEF BlockType, Stream
    <3> DEFINE p1 == k.path.bytes
               s1 == k.line_start
               e1 == k.line_end
               c1 == k.content.bytes
               p2 == l.path.bytes
               s2 == l.line_start
               e2 == l.line_end
               c2 == l.content.bytes
    <3>2. /\ p1 \in Stream /\ s1 \in Nat /\ e1 \in Nat /\ c1 \in Stream
          /\ p2 \in Stream /\ s2 \in Nat /\ e2 \in Nat /\ c2 \in Stream
      BY <3>1
    <3>3. /\ Identity(k) = block_id(p1, s1, e1, c1) /\ Located(k) = <<p1, s1, e1, c1>>
          /\ Identity(l) = block_id(p2, s2, e2, c2) /\ Located(l) = <<p2, s2, e2, c2>>
      BY Zenon DEF Identity, Located
    <3> HIDE DEF p1, s1, e1, c1, p2, s2, e2, c2
    <3>4. block_id(p1, s1, e1, c1) = block_id(p2, s2, e2, c2)
            <=> <<p1, s1, e1, c1>> = <<p2, s2, e2, c2>>
      BY <3>2, IdentifiersBind, SMTT(30)
    <3> QED BY <3>3, <3>4, Zenon
  <2> QED BY <1>1, <2>1, <2>2 DEF Bundles, IdentifierBindsBlock
<1> QED BY <1>1, BundlesType, PTL
=============================================================================
