---------------------------- MODULE SearchProofs ----------------------------
(***************************************************************************)
(* Theorems about Search, for any paths, contents, plans and limits.       *)
(***************************************************************************)
EXTENDS Search, BlockProofs

(***************************************************************************)
(* The inductive invariant.                                                *)
(***************************************************************************)

\* The files that were too large, or outgrew the limit.
Late(gaps) == Cardinality({k \in DOMAIN gaps : gaps[k].reason = "oversized"})

AlwaysFile(p) == \A node \in held[p] : node.kind = "file"
Named(p)   == \E k \in DOMAIN skipped : skipped[k].path = p
OverBudget == \E k \in DOMAIN skipped : skipped[k].reason = "budget"

Remembered == \A p \in Paths : tree[p] \in held[p]

\* Nothing is read before the walk is over.
Unscanned ==
  pc \in {"plan", "root", "walk"} =>
    /\ next = 1 /\ window = {} /\ ranked = <<>> /\ scanned = {}
    /\ totalBytes = 0 /\ totalMatches = 0 /\ consumed = 0
    /\ pc \in {"plan", "root"} =>
         unseen = Paths /\ entries = 0 /\ candidates = <<>> /\ skipped = <<>>

\* Each entry is at most one candidate or gap, and what the walker has seen
\* and was a file all along is one of them.
Walked ==
  pc \in {"plan", "root", "walk"} =>
    /\ Len(candidates) + Len(skipped) <= entries /\ entries <= MAX_DISCOVERY_ENTRIES
    /\ \A p \in Paths \ unseen :
         AlwaysFile(p) => p \in ToSet(candidates) \/ Named(p)

\* The candidates the scan is past were scanned, or have a gap.
FoundAll ==
  pc \in {"scan", "read"} =>
    /\ Len(candidates) <= MAX_CANDIDATE_FILES
    /\ Len(candidates) - next + Len(skipped) <= MAX_DISCOVERY_ENTRIES
    /\ \A p \in Paths : AlwaysFile(p) => p \in ToSet(candidates) \/ Named(p) \/ OverBudget
    /\ \A k \in 1 .. next - 1 : candidates[k] \in scanned \/ Named(candidates[k])

\* What the search has kept and read so far; only its last read may go over
\* the total.
Spent ==
  /\ totalBytes <= plan.budget.max_total_bytes
  /\ totalMatches <= plan.budget.max_matches
  /\ Len(skipped) <= MAX_DISCOVERY_ENTRIES + 1
  /\ ranked \in Seq(ToSet(ranked))
  /\ LET kept == IF pc = "done" THEN plan.budget.max_total_bytes + 1 ELSE totalBytes
     IN  consumed <= kept + Late(skipped) * (plan.budget.max_file_bytes + 1)

\* A result is made of what was ranked and skipped, and misses no source.
Reported ==
  /\ pc # "done" => outcome = NoOutcome
  /\ Finished => /\ outcome = Result(ranked, skipped)
                 /\ \A p \in Paths : AlwaysFile(p) => p \in scanned \/ Named(p) \/ OverBudget

IInv == TypeOK /\ Remembered /\ Unscanned /\ Walked /\ FoundAll /\ Spent /\ Reported

(***************************************************************************)
(* The operators.                                                          *)
(***************************************************************************)

\* A node of the tree that is a file is File of one of the contents.
LEMMA FileNodes ==
  ASSUME NEW node \in Nodes, node.kind = "file"
  PROVE  node.raw \in Contents /\ node.raw \in ByteString
BY ContentsAssumption DEF Nodes, File, Missing, Directory, Link, Denied, Unlisted, Node,
                          ByteString

\* Whatever an open file yields is a byte string.
LEMMA ReadableType ==
  ASSUME NEW W \in SUBSET Contents, NEW raw \in Readable(W)
  PROVE  raw \in ByteString
<1>1. PICK v \in W \X W : raw \in Splices(v[1], v[2])
  BY DEF Readable
<1>2. PICK k \in 0 .. Len(v[1]) :
        raw = SubSeq(v[1], 1, k) \o SubSeq(v[2], k + 1, Len(v[2]))
  BY <1>1 DEF Splices
<1>3. v[1] \in ByteString /\ v[2] \in ByteString
  BY ContentsAssumption DEF ByteString
<1>4. SubSeq(v[1], 1, k) \in ByteString
  <2>1. \A i \in 1 .. k : v[1][i] \in Byte
    BY <1>3, ElementOfSeq, LenProperties DEF ByteString
  <2> QED BY <1>3, <2>1, LenProperties, SubSeqProperties DEF ByteString
<1>5. SubSeq(v[2], k + 1, Len(v[2])) \in ByteString
  <2>1. \A i \in k + 1 .. Len(v[2]) : v[2][i] \in Byte
    BY <1>3, ElementOfSeq, LenProperties DEF ByteString
  <2> QED BY <1>3, <2>1, LenProperties, SubSeqProperties DEF ByteString
<1> QED BY <1>2, <1>4, <1>5, ConcatProperties DEF ByteString

\* The plans searched with have literals and budgets.
LEMMA PlanType ==
  ASSUME NEW p \in Plans
  PROVE  /\ IsPlan(p)
         /\ p.budget.max_blocks \in Nat /\ p.budget.max_file_bytes \in Nat
         /\ p.budget.max_total_bytes \in Nat /\ p.budget.max_matches \in Nat
BY PlansAssumption DEF IsPlan, ByteString

\* The limits of discovery are numbers.
LEMMA LimitsType ==
  /\ MAX_CANDIDATE_FILES \in Nat /\ MAX_DISCOVERY_ENTRIES \in Nat
  /\ MAX_DISCOVERY_DEPTH \in Nat /\ MaxWrites \in Nat
BY LimitsAssumption

\* The reasons a search gives are skip reasons.
LEMMA ReasonsType ==
  {"secret", "non_regular", "oversized", "budget"} \subseteq ToSet(SkipReasons)
<1>1. /\ SkipReasons[3] = "secret" /\ SkipReasons[5] = "non_regular"
      /\ SkipReasons[6] = "oversized" /\ SkipReasons[7] = "budget"
      /\ {3, 5, 6, 7} \subseteq DOMAIN SkipReasons
  BY DEF SkipReasons
<1> QED BY <1>1 DEF ToSet

\* So its gaps are gaps.
LEMMA GapsType ==
  ASSUME NEW path \in Paths \cup {<<>>},
         NEW reason \in {"secret", "non_regular", "oversized", "budget"}
  PROVE  Gap(path, reason) \in GapType
BY ReasonsType DEF Gap, GapType

\* Late gaps are counted by a natural number.
LEMMA LateType ==
  ASSUME NEW gaps \in Seq(GapType)
  PROVE  /\ IsFiniteSet({k \in DOMAIN gaps : gaps[k].reason = "oversized"})
         /\ Late(gaps) \in Nat
<1>1. IsFiniteSet(DOMAIN gaps)
  BY LenProperties, FS_Interval
<1>2. {k \in DOMAIN gaps : gaps[k].reason = "oversized"} \in SUBSET DOMAIN gaps
  OBVIOUS
<1>3. IsFiniteSet({k \in DOMAIN gaps : gaps[k].reason = "oversized"})
  BY <1>1, <1>2, FS_Subset
<1> QED BY <1>3, FS_CardinalityType DEF Late

\* Recording a gap.
LEMMA GapAppended ==
  ASSUME NEW gaps \in Seq(GapType), NEW gap \in GapType
  PROVE  LET more == Append(gaps, gap)
         IN  /\ more \in Seq(GapType) /\ Len(more) = Len(gaps) + 1
             /\ \A k \in DOMAIN gaps : k \in DOMAIN more /\ more[k] = gaps[k]
             /\ Len(more) \in DOMAIN more /\ more[Len(more)] = gap
             /\ Late(more) = IF gap.reason = "oversized" THEN Late(gaps) + 1 ELSE Late(gaps)
<1> DEFINE more == Append(gaps, gap)
           late(s) == {k \in DOMAIN s : s[k].reason = "oversized"}
           n == Len(gaps) + 1
<1>1. /\ more \in Seq(GapType) /\ Len(more) = n
      /\ \A k \in 1 .. Len(gaps) : more[k] = gaps[k]
      /\ more[n] = gap
  BY AppendProperties
<1>2. /\ Len(gaps) \in Nat /\ DOMAIN gaps = 1 .. Len(gaps)
      /\ DOMAIN more = 1 .. n
  BY <1>1, LenProperties
<1> HIDE DEF more
<1>3. \A k \in DOMAIN gaps : k \in DOMAIN more /\ more[k] = gaps[k]
  BY <1>1, <1>2
<1>4. n \in DOMAIN more /\ n \notin DOMAIN gaps
  BY <1>2
<1>5. Late(more) = IF gap.reason = "oversized" THEN Late(gaps) + 1 ELSE Late(gaps)
  <2>1. CASE gap.reason = "oversized"
    <3>1. late(more) = late(gaps) \cup {n} /\ n \notin late(gaps)
      BY <1>1, <1>2, <1>3, <1>4, <2>1
    <3>2. IsFiniteSet(late(gaps))
      BY LateType
    <3> HIDE DEF late
    <3>3. Cardinality(late(more)) = Cardinality(late(gaps)) + 1
      BY <3>1, <3>2, FS_AddElement
    <3> QED BY <2>1, <3>3 DEF Late, late
  <2>2. CASE gap.reason # "oversized"
    <3>1. late(more) = late(gaps)
      BY <1>1, <1>2, <1>3, <1>4, <2>2
    <3> QED BY <2>2, <3>1 DEF Late
  <2> QED BY <2>1, <2>2
<1> QED BY <1>1, <1>3, <1>4, <1>5 DEF more

\* Recording several gaps.
LEMMA GapsConcatenated ==
  ASSUME NEW gaps \in Seq(GapType), NEW rest \in Seq(GapType)
  PROVE  LET all == gaps \o rest
         IN  /\ all \in Seq(GapType) /\ Len(all) = Len(gaps) + Len(rest)
             /\ \A k \in DOMAIN gaps : k \in DOMAIN all /\ all[k] = gaps[k]
             /\ \A k \in DOMAIN rest : /\ Len(gaps) + k \in DOMAIN all
                                       /\ all[Len(gaps) + k] = rest[k]
             /\ (\A k \in DOMAIN rest : rest[k].reason # "oversized") => Late(all) = Late(gaps)
<1> DEFINE all == gaps \o rest
           late(s) == {k \in DOMAIN s : s[k].reason = "oversized"}
<1>1. /\ all \in Seq(GapType) /\ Len(all) = Len(gaps) + Len(rest)
      /\ \A i \in 1 .. Len(gaps) + Len(rest) :
           all[i] = IF i <= Len(gaps) THEN gaps[i] ELSE rest[i - Len(gaps)]
  BY ConcatProperties
<1>2. /\ Len(gaps) \in Nat /\ DOMAIN gaps = 1 .. Len(gaps)
      /\ Len(rest) \in Nat /\ DOMAIN rest = 1 .. Len(rest)
      /\ DOMAIN all = 1 .. Len(gaps) + Len(rest)
  BY <1>1, LenProperties
<1> HIDE DEF all
<1>3. \A k \in DOMAIN gaps : k \in DOMAIN all /\ all[k] = gaps[k]
  BY <1>1, <1>2
<1>4. ASSUME NEW k \in DOMAIN rest
      PROVE  Len(gaps) + k \in DOMAIN all /\ all[Len(gaps) + k] = rest[k]
  <2>1. /\ Len(gaps) + k \in 1 .. Len(gaps) + Len(rest) /\ ~(Len(gaps) + k <= Len(gaps))
        /\ Len(gaps) + k - Len(gaps) = k
    BY <1>2
  <2> QED BY <1>1, <1>2, <2>1
<1>5. ASSUME \A k \in DOMAIN rest : rest[k].reason # "oversized"
      PROVE  Late(all) = Late(gaps)
  <2>1. ASSUME NEW k \in DOMAIN all, all[k].reason = "oversized"
        PROVE  k \in DOMAIN gaps /\ gaps[k].reason = "oversized"
    <3>1. CASE k <= Len(gaps)
      BY <1>1, <1>2, <2>1, <3>1
    <3>2. CASE ~(k <= Len(gaps))
      <4>1. k - Len(gaps) \in DOMAIN rest
        BY <1>2, <3>2
      <4> QED BY <1>1, <1>2, <1>5, <2>1, <3>2, <4>1
    <3> QED BY <3>1, <3>2
  <2>2. late(all) = late(gaps)
    BY <1>3, <2>1
  <2> HIDE DEF late
  <2> QED BY <2>2 DEF Late, late
<1> QED BY <1>1, <1>3, <1>4, <1>5 DEF all

\* discover sorts by the order of byte strings.
LEMMA PathsSortedBy ==
  ASSUME NEW T, NEW s \in Seq(T)
  PROVE  PathOrder!Sorted(s) = SortedBy(PathPairs(T), s)
<1>1. \A i \in DOMAIN s : s[i] \in T
  OBVIOUS
<1>2. \A i, j \in DOMAIN s : Precedes(PathPairs(T), s[i], s[j]) <=> BytesBefore(s[i], s[j])
  BY <1>1 DEF Precedes, PathPairs
<1>3. \A i \in DOMAIN s : PathOrder!NoLater(s, i) = NoLaterBy(PathPairs(T), s, i)
  BY <1>2 DEF PathOrder!NoLater, NoLaterBy
<1> DEFINE place == [i \in DOMAIN s |-> Cardinality(NoLaterBy(PathPairs(T), s, i))]
<1>4. [i \in DOMAIN s |-> PathOrder!Cardinality(PathOrder!NoLater(s, i))] = place
  <2>1. \A S : PathOrder!Cardinality(S) = Cardinality(S)
    BY DEF PathOrder!Cardinality, PathOrder!IsFiniteSet, Cardinality, IsFiniteSet
  <2> QED BY <1>3, <2>1
<1> HIDE DEF place
<1>5. PathOrder!Sorted(s) = [k \in DOMAIN s |-> s[CHOOSE i \in DOMAIN s : place[i] = k]]
  <2> DEFINE there == [i \in DOMAIN s |-> PathOrder!Cardinality(PathOrder!NoLater(s, i))]
  <2>1. PathOrder!Sorted(s) = [k \in DOMAIN s |-> s[CHOOSE i \in DOMAIN s : there[i] = k]]
    BY Zenon DEF PathOrder!Sorted
  <2>2. there = place
    BY <1>4
  <2> HIDE DEF there
  <2> QED BY <2>1, <2>2
<1>6. SortedBy(PathPairs(T), s) = [k \in DOMAIN s |-> s[CHOOSE i \in DOMAIN s : place[i] = k]]
  BY Zenon DEF SortedBy, place
<1> QED BY <1>5, <1>6

\* search sorts blocks by their rank.
LEMMA BlocksSortedBy ==
  ASSUME NEW T, NEW s \in Seq(T)
  PROVE  BlockOrder!Sorted(s) = SortedBy(BlockPairs(T), s)
<1>1. \A i \in DOMAIN s : s[i] \in T
  OBVIOUS
<1>2. \A i, j \in DOMAIN s : Precedes(BlockPairs(T), s[i], s[j]) <=> RankedBefore(s[i], s[j])
  BY <1>1 DEF Precedes, BlockPairs
<1>3. \A i \in DOMAIN s : BlockOrder!NoLater(s, i) = NoLaterBy(BlockPairs(T), s, i)
  BY <1>2 DEF BlockOrder!NoLater, NoLaterBy
<1> DEFINE place == [i \in DOMAIN s |-> Cardinality(NoLaterBy(BlockPairs(T), s, i))]
<1>4. [i \in DOMAIN s |-> BlockOrder!Cardinality(BlockOrder!NoLater(s, i))] = place
  <2>1. \A S : BlockOrder!Cardinality(S) = Cardinality(S)
    BY DEF BlockOrder!Cardinality, BlockOrder!IsFiniteSet, Cardinality, IsFiniteSet
  <2> QED BY <1>3, <2>1
<1> HIDE DEF place
<1>5. BlockOrder!Sorted(s) = [k \in DOMAIN s |-> s[CHOOSE i \in DOMAIN s : place[i] = k]]
  <2> DEFINE there == [i \in DOMAIN s |-> BlockOrder!Cardinality(BlockOrder!NoLater(s, i))]
  <2>1. BlockOrder!Sorted(s) = [k \in DOMAIN s |-> s[CHOOSE i \in DOMAIN s : there[i] = k]]
    BY Zenon DEF BlockOrder!Sorted
  <2>2. there = place
    BY <1>4
  <2> HIDE DEF there
  <2> QED BY <2>1, <2>2
<1>6. SortedBy(BlockPairs(T), s) = [k \in DOMAIN s |-> s[CHOOSE i \in DOMAIN s : place[i] = k]]
  BY Zenon DEF SortedBy, place
<1> QED BY <1>5, <1>6

\* Sorting the candidates neither adds nor loses one.
LEMMA CandidatesSorted ==
  ASSUME NEW P \in SUBSET Paths, NEW s \in Seq(P)
  PROVE  LET sorted == PathOrder!Sorted(s)
         IN  /\ sorted \in Seq(P) /\ Len(sorted) = Len(s)
             /\ ToSet(sorted) = ToSet(s)
<1>1. P \in SUBSET ByteString
  BY PathsAssumption DEF ByteString
<1>2. StrictWeakOrder(PathPairs(P), P)
  BY <1>1, PathsOrdered
<1>3. LET sorted == SortedBy(PathPairs(P), s)
      IN  /\ sorted \in Seq(P) /\ Len(sorted) = Len(s)
          /\ ToSet(sorted) = ToSet(s)
  BY <1>2, SortedElements
<1>4. PathOrder!Sorted(s) = SortedBy(PathPairs(P), s)
  BY PathsSortedBy
<1> QED BY <1>3, <1>4

\* A skip reason has a place among the reasons.
LEMMA ReasonOrderType ==
  ASSUME NEW reason \in ToSet(SkipReasons)
  PROVE  ReasonOrder(reason) \in Nat
<1>1. DOMAIN SkipReasons \subseteq Nat
  BY DEF SkipReasons
<1>2. \E k \in DOMAIN SkipReasons : SkipReasons[k] = reason
  BY DEF ToSet
<1> HIDE DEF SkipReasons
<1>3. ReasonOrder(reason) \in DOMAIN SkipReasons
  BY <1>2 DEF ReasonOrder
<1> QED BY <1>1, <1>3

\* Every gap of a search is a gap of its result.
LEMMA GapsReported ==
  ASSUME NEW blocks, NEW gaps \in Seq(GapType), NEW k \in DOMAIN gaps
  PROVE  \E g \in ToSet(Result(blocks, gaps).skipped) :
           g.path.bytes = gaps[k].path /\ g.reason = gaps[k].reason
<1> DEFINE Shown == {[path |-> Encoded(g.path), reason |-> g.reason] : g \in GapType}
           shown == [j \in DOMAIN gaps |-> [path   |-> Encoded(gaps[j].path),
                                            reason |-> gaps[j].reason]]
           sorted == GapOrder!Sorted(shown)
<1>1. DOMAIN gaps = 1 .. Len(gaps) /\ Len(gaps) \in Nat
      /\ \A j \in DOMAIN gaps : gaps[j] \in GapType
  BY LenProperties, ElementOfSeq
<1>2. shown \in Seq(Shown)
  <2>1. \A j \in DOMAIN gaps : [path |-> Encoded(gaps[j].path), reason |-> gaps[j].reason] \in Shown
    BY <1>1
  <2> HIDE DEF Shown
  <2> QED BY <1>1, <2>1
<1>3. StrictWeakOrder(GapPairs(Shown), Shown)
  <2>1. ASSUME NEW g \in Shown
        PROVE  g.path.bytes \in ByteString /\ ReasonOrder(g.reason) \in Nat
    <3>1. PICK gap \in GapType : g = [path |-> Encoded(gap.path), reason |-> gap.reason]
      OBVIOUS
    <3>2. gap.path \in ByteString
      BY PathsAssumption, EmptySeq DEF GapType, ByteString
    <3>3. gap.reason \in ToSet(SkipReasons)
      BY DEF GapType
    <3> QED BY <3>1, <3>2, <3>3, ReasonOrderType DEF Encoded
  <2> HIDE DEF Shown
  <2> QED BY <2>1, GapsOrdered
<1> HIDE DEF Shown
<1>4. ToSet(SortedBy(GapPairs(Shown), shown)) = ToSet(shown)
  <2> HIDE DEF shown, sorted
  <2> DEFINE R == GapPairs(Shown)
  <2>1. StrictWeakOrder(R, Shown)
    BY <1>3
  <2> HIDE DEF R
  <2>2. ToSet(SortedBy(R, shown)) = ToSet(shown)
    BY <1>2, <2>1, SortedElements
  <2> QED BY <2>2 DEF R
<1>5. sorted = SortedBy(GapPairs(Shown), shown)
  BY <1>2, GapsSortedBy
<1>6. shown[k] \in ToSet(sorted)
  <2> HIDE DEF sorted
  <2>1. k \in DOMAIN shown
    OBVIOUS
  <2> HIDE DEF shown
  <2> QED BY <1>4, <1>5, <2>1 DEF ToSet
<1>7. Result(blocks, gaps).skipped = sorted
  BY DEF Result
<1>8. shown[k].path.bytes = gaps[k].path /\ shown[k].reason = gaps[k].reason
  BY DEF Encoded
<1> HIDE DEF shown, sorted
<1> QED BY <1>6, <1>7, <1>8

\* A result has at most max_blocks blocks.
LEMMA BlocksCut ==
  ASSUME plan \in Plans, NEW blocks, blocks \in Seq(ToSet(blocks)), NEW gaps
  PROVE  Len(Result(blocks, gaps).blocks) <= plan.budget.max_blocks
<1> DEFINE order == BlockOrder!Sorted(blocks)
           n == Smaller(Len(order), plan.budget.max_blocks)
<1>1. Len(blocks) \in Nat /\ DOMAIN blocks = 1 .. Len(blocks)
  BY LenProperties
<1>2. DOMAIN order = 1 .. Len(blocks)
  BY <1>1 DEF BlockOrder!Sorted
<1>3. Len(order) = Len(blocks)
  <2> DEFINE at(k) == blocks[CHOOSE i \in DOMAIN blocks :
                               [j \in DOMAIN blocks |->
                                  BlockOrder!Cardinality(BlockOrder!NoLater(blocks, j))][i] = k]
  <2>1. order = [k \in 1 .. Len(blocks) |-> at(k)]
    BY <1>1 DEF BlockOrder!Sorted
  <2> HIDE DEF at, order
  <2> QED BY <1>1, <2>1
<1>4. plan.budget.max_blocks \in Nat
  BY PlanType
<1> HIDE DEF order
<1>5. n \in Nat /\ n <= plan.budget.max_blocks
  BY <1>1, <1>3, <1>4 DEF Smaller
<1> HIDE DEF n
<1>6. Len(SubSeq(order, 1, n)) = n
  BY <1>5
<1>7. Result(blocks, gaps).blocks = SubSeq(order, 1, n)
  BY DEF Result, order, n
<1> QED BY <1>5, <1>6, <1>7

\* What a search returns of its blocks are the best of them.
LEMMA ResultIsBest ==
  ASSUME plan \in Plans, NEW T, \A b \in T : IsRanked(b), NEW blocks \in Seq(T), NEW gaps
  PROVE  AreBestOf(Result(blocks, gaps).blocks, ToSet(blocks))
<1> DEFINE R == BlockPairs(T)
           order == SortedBy(R, blocks)
           most == plan.budget.max_blocks
           n == Smaller(Len(order), most)
           m == Len(blocks)
           shown == SubSeq(order, 1, n)
<1>1. Result(blocks, gaps).blocks = shown
  BY BlocksSortedBy DEF Result
<1>2. StrictWeakOrder(R, T) /\ \A b, c \in T : Precedes(R, b, c) <=> RankedBefore(b, c)
  BY BlocksOrdered DEF Precedes, BlockPairs
<1> HIDE DEF R
<1>3. /\ order \in Seq(T) /\ Len(order) = m /\ m \in Nat
      /\ ToSet(order) = ToSet(blocks)
      /\ \A j, k \in 1 .. m : j < k => ~Precedes(R, order[k], order[j])
  BY <1>2, SortedPermutes, SortedElements, LenProperties
<1> HIDE DEF order
<1>4. DOMAIN order = 1 .. m /\ \A k \in 1 .. m : order[k] \in T
  BY <1>3, LenProperties, ElementOfSeq
<1>5. \A j, k \in 1 .. m : j < k => ~RankedBefore(order[k], order[j])
  BY <1>2, <1>3, <1>4
<1>6. most \in Nat
  BY PlanType
<1> HIDE DEF most
<1>7. n \in 0 .. m /\ (n = m \/ n = most)
  BY <1>3, <1>6 DEF Smaller
<1> HIDE DEF n
<1>8. /\ Len(shown) = n /\ DOMAIN shown = 1 .. n
      /\ \A k \in 1 .. n : shown[k] = order[k] /\ k \in 1 .. m
  BY <1>3, <1>7, SubSeqProperties
<1> HIDE DEF shown, m
<1>9. ToSet(shown) \subseteq ToSet(blocks)
  BY <1>3, <1>4, <1>8 DEF ToSet
<1>10. \A j, k \in DOMAIN shown : j < k => ~RankedBefore(shown[k], shown[j])
  BY <1>5, <1>8
<1>11. ASSUME NEW hidden \in ToSet(blocks) \ ToSet(shown)
       PROVE  /\ Len(shown) = most
              /\ \A k \in DOMAIN shown : ~RankedBefore(hidden, shown[k])
  <2>1. PICK i \in 1 .. m : order[i] = hidden
    BY <1>3, <1>4 DEF ToSet
  <2>2. i \notin 1 .. n
    BY <1>8, <2>1 DEF ToSet
  <2>3. n < i /\ n # m /\ \A k \in 1 .. n : k < i
    BY <1>3, <1>7, <2>1, <2>2
  <2> QED BY <1>5, <1>7, <1>8, <2>1, <2>3
<1> QED BY <1>1, <1>9, <1>10, <1>11 DEF AreBestOf, most

\* The elements of two sequences, one after the other.
LEMMA ToSetConcat ==
  ASSUME NEW X, NEW s \in Seq(X), NEW r \in Seq(X)
  PROVE  ToSet(s \o r) = ToSet(s) \cup ToSet(r)
<1> DEFINE t == s \o r
           n == Len(s)
           m == Len(r)
<1>1. /\ n \in Nat /\ DOMAIN s = 1 .. n /\ m \in Nat /\ DOMAIN r = 1 .. m
      /\ DOMAIN t = 1 .. n + m
      /\ \A k \in 1 .. n : t[k] = s[k] /\ k \in 1 .. n + m
      /\ \A k \in 1 .. n + m : k \notin 1 .. n => t[k] = r[k - n] /\ k - n \in 1 .. m
      /\ \A k \in 1 .. m : t[n + k] = r[k] /\ n + k \in 1 .. n + m
  OBVIOUS
<1> HIDE DEF t, n, m
<1>2. \A x : (\E k \in 1 .. n + m : t[k] = x)
               <=> (\E k \in 1 .. n : s[k] = x) \/ (\E k \in 1 .. m : r[k] = x)
  BY <1>1
<1>3. ToSet(t) = ToSet(s) \cup ToSet(r)
  BY <1>1, <1>2 DEF ToSet
<1> QED BY <1>3 DEF t

\* A bundle with a budget gap is rejected.
LEMMA BudgetRejects ==
  ASSUME NEW p, NEW blocks, NEW gaps, NEW g \in ToSet(gaps), g.reason = "budget"
  PROVE  assemble_bundle(p, blocks, gaps).critic.verdict = "rejected"
<1>1. assemble_bundle(p, blocks, gaps).critic = Unsealed(p, blocks, gaps).critic
  BY DEF assemble_bundle, Seal, Unsealed
<1>2. \E uncovered :
        Unsealed(p, blocks, gaps).critic.verdict = Verdict(blocks, gaps, uncovered)
  BY DEF Unsealed
<1> QED BY <1>1, <1>2 DEF Verdict

(***************************************************************************)
(* The steps.                                                              *)
(***************************************************************************)

\* What the invariant says of the types, and what the limits add to it.
LEMMA Types ==
  ASSUME IInv
  PROVE  /\ plan \in Plans /\ tree \in [Paths -> Nodes]
         /\ candidates \in Seq(Paths \ SecretPaths) /\ skipped \in Seq(GapType)
         /\ Len(candidates) \in Nat /\ DOMAIN candidates = 1 .. Len(candidates)
         /\ Len(skipped) \in Nat /\ DOMAIN skipped = 1 .. Len(skipped)
         /\ \A k \in 1 .. Len(candidates) : candidates[k] \in Paths \ SecretPaths
         /\ next \in Nat \ {0} /\ next <= Len(candidates) + 1
         /\ entries \in Nat /\ totalBytes \in Nat /\ totalMatches \in Nat /\ consumed \in Nat
         /\ Late(skipped) \in Nat
         /\ Late(skipped) * (plan.budget.max_file_bytes + 1) \in Nat
<1>1. /\ plan \in Plans /\ tree \in [Paths -> Nodes]
      /\ candidates \in Seq(Paths \ SecretPaths) /\ skipped \in Seq(GapType)
      /\ next \in 1 .. Len(candidates) + 1 /\ entries \in 0 .. MAX_DISCOVERY_ENTRIES + 1
      /\ totalBytes \in Nat /\ totalMatches \in Nat /\ consumed \in Nat
  BY DEF IInv, TypeOK
<1>2. Len(candidates) \in Nat /\ DOMAIN candidates = 1 .. Len(candidates)
  BY <1>1, LenProperties
<1>3. Len(skipped) \in Nat /\ DOMAIN skipped = 1 .. Len(skipped)
  BY <1>1, LenProperties
<1>4. \A k \in 1 .. Len(candidates) : candidates[k] \in Paths \ SecretPaths
  BY <1>1, <1>2, ElementOfSeq
<1>5. Late(skipped) \in Nat /\ plan.budget.max_file_bytes \in Nat
  BY <1>1, LateType, PlanType
<1>6. \A m, n \in Nat : m * (n + 1) \in Nat
  OBVIOUS
<1>7. Late(skipped) * (plan.budget.max_file_bytes + 1) \in Nat
  BY <1>5, <1>6
<1> QED BY <1>1, <1>2, <1>3, <1>4, <1>5, <1>7, LimitsType

\* A search that has not begun keeps the invariant.
LEMMA InitInv == Init => IInv
<1> SUFFICES ASSUME Init
             PROVE  IInv
  OBVIOUS
<1> USE DEF Init
<1>1. TypeOK
  <2>1. held \in [Paths -> SUBSET Nodes]
    OBVIOUS
  <2>2. candidates \in Seq(Paths \ SecretPaths) /\ skipped \in Seq(GapType) /\ Len(candidates) = 0
    BY EmptySeq
  <2>3. next \in 1 .. Len(candidates) + 1 /\ entries \in 0 .. MAX_DISCOVERY_ENTRIES + 1
        /\ writes \in 0 .. MaxWrites
    BY <2>2, LimitsType
  <2>4. DOMAIN ranked = {}
    OBVIOUS
  <2>5. outcome.kind = "none"
    BY DEF NoOutcome
  <2> QED BY <2>1, <2>2, <2>3, <2>4, <2>5 DEF TypeOK
<1>2. Remembered
  BY DEF Remembered
<1>3. Unscanned /\ FoundAll
  BY DEF Unscanned, FoundAll
<1>4. Walked
  <2>1. Len(candidates) = 0 /\ Len(skipped) = 0
    BY EmptySeq
  <2> QED BY <2>1, LimitsType DEF Walked
<1>5. Spent
  <2>1. Late(skipped) = 0
    <3>1. {k \in DOMAIN skipped : skipped[k].reason = "oversized"} = {}
      OBVIOUS
    <3> QED BY <3>1, FS_EmptySet DEF Late
  <2>2. ranked \in Seq(ToSet(ranked)) /\ Len(skipped) = 0
    BY EmptySeq
  <2> QED BY <2>1, <2>2, PlanType, LimitsType DEF Spent
<1>6. Reported
  BY DEF Reported, Finished, NoOutcome
<1> QED BY <1>1, <1>2, <1>3, <1>4, <1>5, <1>6 DEF IInv

\* An error ends the search and leaves the rest as it is.
LEMMA FailureKeepsInv ==
  ASSUME IInv, NEW error, Stop(Failed(error)), UNCHANGED <<skipped, history>>
  PROVE  IInv'
<1>1. /\ pc' = "done" /\ outcome' = Failed(error)
      /\ UNCHANGED <<plan, unseen, entries, candidates, skipped, next, window, totalBytes,
                     totalMatches, ranked, tree, writes, held, scanned, consumed>>
  BY DEF Stop, Control, discovery, totals, environment, history
<1>2. outcome'.kind = "error"
  BY <1>1 DEF Failed
<1>3. TypeOK'
  BY <1>1, <1>2 DEF IInv, TypeOK
<1>4. Remembered' /\ Unscanned' /\ Walked' /\ FoundAll'
  BY <1>1 DEF IInv, Remembered, Unscanned, Walked, FoundAll
<1>5. Spent'
  <2> DEFINE X == Late(skipped) * (plan.budget.max_file_bytes + 1)
  <2>1. X \in Nat /\ consumed \in Nat /\ totalBytes \in Nat /\ plan.budget.max_total_bytes \in Nat
    BY Types, PlanType
  <2>2. /\ totalBytes <= plan.budget.max_total_bytes
        /\ consumed <= (IF pc = "done" THEN plan.budget.max_total_bytes + 1 ELSE totalBytes) + X
    BY DEF IInv, Spent
  <2> HIDE DEF X
  <2>3. consumed <= plan.budget.max_total_bytes + 1 + X
    BY <2>1, <2>2
  <2> QED BY <1>1, <2>3 DEF IInv, Spent, X, Late
<1>6. Reported'
  BY <1>1, <1>2 DEF Reported, Finished
<1> QED BY <1>3, <1>4, <1>5, <1>6 DEF IInv

\* The plan is admitted, or the root opens.
LEMMA EnteringKeepsInv ==
  ASSUME IInv, AdmitPlan \/ OpenRoot
  PROVE  IInv'
<1>1. /\ pc \in {"plan", "root"} /\ pc' \in {"root", "walk"}
      /\ UNCHANGED <<plan, unseen, entries, candidates, skipped, next, window, totalBytes,
                     totalMatches, ranked, outcome, tree, writes, held, scanned, consumed>>
  BY DEF AdmitPlan, OpenRoot, Control, discovery, totals, environment, history
<1>2. TypeOK'
  BY <1>1 DEF IInv, TypeOK
<1>3. Remembered' /\ Unscanned' /\ Walked' /\ FoundAll'
  BY <1>1 DEF IInv, Remembered, Unscanned, Walked, FoundAll, AlwaysFile, Named
<1>4. Spent'
  BY <1>1 DEF IInv, Spent, Late
<1>5. Reported'
  BY <1>1 DEF IInv, Reported, Finished, NoOutcome
<1> QED BY <1>2, <1>3, <1>4, <1>5 DEF IInv

\* The walker passes a path that is no file now, and so was not one all along.
LEMMA PastKeepsInv ==
  ASSUME IInv, NEW p \in Paths, WalkPast(p)
  PROVE  IInv'
<1>1. /\ pc = "walk" /\ tree[p] = Missing /\ unseen' = unseen \ {p}
      /\ UNCHANGED <<plan, pc, entries, candidates, skipped, next, window, totalBytes,
                     totalMatches, ranked, outcome, tree, writes, held, scanned, consumed>>
  BY DEF WalkPast, Walking, Control, totals, environment, history
<1>2. TypeOK'
  BY <1>1 DEF IInv, TypeOK
<1>3. ~AlwaysFile(p)
  <2>1. Missing.kind # "file"
    BY DEF Missing, Node
  <2> QED BY <1>1, <2>1 DEF IInv, Remembered, AlwaysFile
<1>4. Walked'
  BY <1>1, <1>3 DEF IInv, Walked, AlwaysFile, Named
<1>5. Remembered' /\ Unscanned' /\ FoundAll'
  BY <1>1 DEF IInv, Remembered, Unscanned, FoundAll
<1>6. Spent'
  BY <1>1 DEF IInv, Spent, Late
<1>7. Reported'
  BY <1>1 DEF IInv, Reported, Finished, NoOutcome
<1> QED BY <1>2, <1>4, <1>5, <1>6, <1>7 DEF IInv

\* A walk that is cut short leaves one gap, for the budget.
LEMMA OverflowKeepsInv ==
  ASSUME IInv, NEW p \in Paths, WalkOverflows(p)
  PROVE  IInv'
<1> DEFINE gap == Gap(<<>>, "budget")
<1>1. /\ pc = "walk" /\ pc' = "scan" /\ unseen' = {} /\ entries' = entries + 1
      /\ candidates' = <<>> /\ skipped' = <<gap>>
      /\ UNCHANGED <<plan, next, window, totalBytes,
                     totalMatches, ranked, outcome, tree, writes, held, scanned, consumed>>
  BY DEF WalkOverflows, Walking, Control, totals, environment, history
<1>2. /\ next = 1 /\ window = {} /\ ranked = <<>> /\ scanned = {}
      /\ totalBytes = 0 /\ totalMatches = 0 /\ consumed = 0
  BY <1>1 DEF IInv, Unscanned
<1>3. entries <= MAX_DISCOVERY_ENTRIES /\ outcome = NoOutcome
  BY <1>1 DEF IInv, Walked, Reported
<1>4. /\ skipped' \in Seq(GapType) /\ Len(skipped') = 1 /\ 1 \in DOMAIN skipped'
      /\ skipped'[1].reason = "budget"
  <2>1. gap \in GapType /\ gap.reason = "budget"
    BY GapsType DEF Gap
  <2> HIDE DEF gap
  <2> QED BY <1>1, <2>1
<1>5. candidates' \in Seq(Paths \ SecretPaths) /\ Len(candidates') = 0
  BY <1>1, EmptySeq
<1>6. TypeOK'
  <2>1. next' \in 1 .. Len(candidates') + 1 /\ entries' \in 0 .. MAX_DISCOVERY_ENTRIES + 1
    BY <1>1, <1>2, <1>3, <1>5, Types, LimitsType
  <2>2. /\ tree' \in [Paths -> Nodes] /\ plan' \in Plans /\ held' \in [Paths -> SUBSET Nodes]
        /\ writes' \in 0 .. MaxWrites /\ outcome'.kind \in {"none", "result", "error"}
        /\ totalBytes' \in Nat /\ totalMatches' \in Nat /\ consumed' \in Nat
    BY <1>1 DEF IInv, TypeOK
  <2>3. /\ \A k \in DOMAIN ranked' : ranked'[k].path.bytes \in scanned'
        /\ scanned' \subseteq ToSet(candidates') /\ window' \subseteq Contents
    BY <1>1, <1>2
  <2> QED BY <1>1, <1>4, <1>5, <2>1, <2>2, <2>3 DEF TypeOK
<1>7. Remembered' /\ Unscanned' /\ Walked'
  BY <1>1 DEF IInv, Remembered, Unscanned, Walked
<1>8. FoundAll'
  <2>1. OverBudget'
    BY <1>4 DEF OverBudget
  <2>2. Len(candidates') <= MAX_CANDIDATE_FILES
        /\ Len(candidates') - next' + Len(skipped') <= MAX_DISCOVERY_ENTRIES
    BY <1>1, <1>2, <1>4, <1>5, LimitsType
  <2>3. \A k \in 1 .. next' - 1 : FALSE
    BY <1>1, <1>2
  <2> QED BY <2>1, <2>2, <2>3 DEF FoundAll
<1>9. Spent'
  <2>1. Late(skipped') \in Nat /\ plan.budget.max_file_bytes \in Nat
    BY <1>4, LateType, Types, PlanType
  <2>2. \A m, n \in Nat : m * (n + 1) \in Nat
    OBVIOUS
  <2>3. 0 <= Late(skipped') * (plan.budget.max_file_bytes + 1)
    BY <2>1, <2>2
  <2>4. consumed' <= totalBytes' + Late(skipped') * (plan'.budget.max_file_bytes + 1)
    BY <1>1, <1>2, <2>1, <2>2, <2>3
  <2>5. Late(skipped)' = Late(skipped')
    BY DEF Late
  <2>6. /\ totalBytes' <= plan'.budget.max_total_bytes /\ totalMatches' <= plan'.budget.max_matches
        /\ ranked' \in Seq(ToSet(ranked'))
    BY <1>1 DEF IInv, Spent
  <2>7. Len(skipped') <= MAX_DISCOVERY_ENTRIES + 1
    BY <1>4, LimitsType
  <2> QED BY <1>1, <2>4, <2>5, <2>6, <2>7 DEF Spent
<1>10. Reported'
  BY <1>1, <1>3 DEF Reported, Finished, NoOutcome
<1> QED BY <1>6, <1>7, <1>8, <1>9, <1>10 DEF IInv

\* Sums of lengths, one entry later, free of the sequences they are lengths of.
LEMMA OneMore ==
  \A c, s, e, m \in Nat :
    c + s <= e /\ e + 1 <= m =>
      /\ e + 1 \in Nat /\ c + 1 \in Nat /\ s + 1 \in Nat /\ s <= m + 1
      /\ (c + 1) + s <= e + 1 /\ c + (s + 1) <= e + 1 /\ c + s <= e + 1
      /\ s + 1 <= m + 1
OBVIOUS

\* The candidates kept and the one gap for the rest.
LEMMA Kept ==
  \A c, k, s, e, m \in Nat :
    c + s <= e /\ e <= m /\ k <= c =>
      /\ k + s <= m /\ s <= m /\ 1 \in 1 .. k + 1 /\ k - 1 + s <= m
      /\ k < c => k + (s + 1) <= m /\ s + 1 <= m /\ k - 1 + (s + 1) <= m
OBVIOUS

\* One more entry is at most one more candidate or gap.
LEMMA EntryKeepsInv ==
  ASSUME IInv, NEW p \in Paths, WalkEntry(p)
  PROVE  IInv'
<1> DEFINE secret == tree[p].kind = "file" /\ p \in SecretPaths
           source == tree[p].kind = "file" /\ p \notin SecretPaths
           gap == Gap(p, "secret")
<1>1. /\ pc = "walk" /\ unseen' = unseen \ {p} /\ entries' = entries + 1
      /\ skipped' = IF secret THEN Append(skipped, gap) ELSE skipped
      /\ candidates' = IF source THEN Append(candidates, p) ELSE candidates
      /\ UNCHANGED <<plan, pc, next, window, totalBytes,
                     totalMatches, ranked, outcome, tree, writes, held, scanned, consumed>>
  BY DEF WalkEntry, Walking, Control, totals, environment, history
<1>2. /\ next = 1 /\ window = {} /\ ranked = <<>> /\ scanned = {}
      /\ totalBytes = 0 /\ totalMatches = 0 /\ consumed = 0
  BY <1>1 DEF IInv, Unscanned
<1>3. /\ Len(candidates) + Len(skipped) <= entries
      /\ entries + 1 <= MAX_DISCOVERY_ENTRIES
      /\ outcome = NoOutcome
  <2>1. ~(entries + 1 > MAX_DISCOVERY_ENTRIES)
    BY DEF WalkEntry, Overflows
  <2>2. Len(candidates) + Len(skipped) <= entries /\ outcome = NoOutcome
    BY <1>1 DEF IInv, Walked, Reported
  <2> QED BY <2>1, <2>2, Types, LimitsType
<1>4. gap \in GapType /\ gap.reason = "secret" /\ gap.path = p
  BY GapsType DEF Gap
<1> HIDE DEF gap
<1>5. /\ candidates' \in Seq(Paths \ SecretPaths)
      /\ Len(candidates') = IF source THEN Len(candidates) + 1 ELSE Len(candidates)
      /\ ToSet(candidates) \subseteq ToSet(candidates')
      /\ source => p \in ToSet(candidates')
  <2>1. CASE source
    <3>1. p \in Paths \ SecretPaths /\ candidates' = Append(candidates, p)
      BY <1>1, <2>1
    <3>2. /\ candidates' \in Seq(Paths \ SecretPaths) /\ Len(candidates') = Len(candidates) + 1
          /\ \A k \in 1 .. Len(candidates) : candidates'[k] = candidates[k]
          /\ candidates'[Len(candidates) + 1] = p
      BY <3>1, Types, AppendProperties
    <3>3. /\ DOMAIN candidates' = 1 .. Len(candidates) + 1
          /\ Len(candidates) \in Nat /\ DOMAIN candidates = 1 .. Len(candidates)
      BY <3>2, Types, LenProperties
    <3>4. /\ \A k \in DOMAIN candidates : k \in DOMAIN candidates'
          /\ Len(candidates) + 1 \in DOMAIN candidates'
      BY <3>3
    <3>5. ToSet(candidates) \subseteq ToSet(candidates') /\ p \in ToSet(candidates')
      BY <3>2, <3>3, <3>4 DEF ToSet
    <3> QED BY <2>1, <3>2, <3>5
  <2>2. CASE ~source
    BY <1>1, <2>2, Types
  <2> QED BY <2>1, <2>2
<1>6. /\ skipped' \in Seq(GapType)
      /\ Len(skipped') = IF secret THEN Len(skipped) + 1 ELSE Len(skipped)
      /\ Late(skipped') = Late(skipped)
      /\ \A q \in Paths : Named(q) => Named(q)'
      /\ secret => Named(p)'
  <2>1. CASE secret
    <3>1. skipped' = Append(skipped, gap)
      BY <1>1, <2>1
    <3>2. /\ skipped' \in Seq(GapType) /\ Len(skipped') = Len(skipped) + 1
          /\ \A k \in DOMAIN skipped : k \in DOMAIN skipped' /\ skipped'[k] = skipped[k]
          /\ Len(skipped') \in DOMAIN skipped' /\ skipped'[Len(skipped')] = gap
          /\ Late(skipped') = Late(skipped)
      BY <1>4, <3>1, Types, GapAppended
    <3>3. \A q \in Paths : Named(q) => Named(q)'
      BY <3>2 DEF Named
    <3>4. Named(p)'
      BY <1>4, <3>2 DEF Named
    <3> QED BY <2>1, <3>2, <3>3, <3>4
  <2>2. CASE ~secret
    <3>1. skipped' = skipped
      BY <1>1, <2>2
    <3>2. \A q \in Paths : Named(q) => Named(q)'
      BY <3>1 DEF Named
    <3> QED BY <2>2, <3>1, <3>2, Types
  <2> QED BY <2>1, <2>2
<1>7. Len(candidates') + Len(skipped') <= entries' /\ entries' <= MAX_DISCOVERY_ENTRIES
      /\ Len(skipped') <= MAX_DISCOVERY_ENTRIES + 1
      /\ Len(candidates') \in Nat /\ entries' \in Nat
  <2>1. /\ Len(candidates) \in Nat /\ Len(skipped) \in Nat /\ entries \in Nat
        /\ MAX_DISCOVERY_ENTRIES \in Nat
    BY Types, LimitsType
  <2>2. \/ Len(candidates') = Len(candidates) + 1 /\ Len(skipped') = Len(skipped)
        \/ Len(candidates') = Len(candidates) /\ Len(skipped') = Len(skipped) + 1
        \/ Len(candidates') = Len(candidates) /\ Len(skipped') = Len(skipped)
    BY <1>5, <1>6
  <2>3. /\ entries + 1 \in Nat /\ Len(candidates) + 1 \in Nat
        /\ Len(skipped) <= MAX_DISCOVERY_ENTRIES + 1
        /\ (Len(candidates) + 1) + Len(skipped) <= entries + 1
        /\ Len(candidates) + (Len(skipped) + 1) <= entries + 1
        /\ Len(candidates) + Len(skipped) <= entries + 1
        /\ Len(skipped) + 1 <= MAX_DISCOVERY_ENTRIES + 1
    BY <1>3, <2>1, OneMore
  <2>4. entries' = entries + 1
    BY <1>1
  <2> HIDE DEF secret, source
  <2> QED BY <1>3, <2>1, <2>2, <2>3, <2>4
<1>8. TypeOK'
  <2>1. next' \in 1 .. Len(candidates') + 1 /\ entries' \in 0 .. MAX_DISCOVERY_ENTRIES + 1
    BY <1>1, <1>2, <1>7, LimitsType
  <2>2. /\ tree' \in [Paths -> Nodes] /\ plan' \in Plans /\ held' \in [Paths -> SUBSET Nodes]
        /\ writes' \in 0 .. MaxWrites /\ outcome'.kind \in {"none", "result", "error"}
        /\ totalBytes' \in Nat /\ totalMatches' \in Nat /\ consumed' \in Nat
        /\ unseen' \subseteq Paths
    BY <1>1 DEF IInv, TypeOK
  <2>3. /\ \A k \in DOMAIN ranked' : ranked'[k].path.bytes \in scanned'
        /\ scanned' \subseteq ToSet(candidates') /\ window' \subseteq Contents
    BY <1>1, <1>2
  <2> QED BY <1>1, <1>5, <1>6, <2>1, <2>2, <2>3 DEF TypeOK
<1>9. Remembered' /\ Unscanned' /\ FoundAll'
  BY <1>1, <1>2 DEF IInv, Remembered, Unscanned, FoundAll
<1>10. Walked'
  <2>1. ASSUME NEW q \in Paths \ unseen', AlwaysFile(q)'
        PROVE  q \in ToSet(candidates') \/ Named(q)'
    <3>1. AlwaysFile(q)
      BY <1>1, <2>1 DEF AlwaysFile
    <3>2. CASE q = p
      <4>1. tree[p].kind = "file"
        BY <3>1, <3>2 DEF IInv, Remembered, AlwaysFile
      <4> QED BY <1>5, <1>6, <3>2, <4>1
    <3>3. CASE q # p
      <4>1. q \in Paths \ unseen
        BY <1>1, <3>3
      <4>2. q \in ToSet(candidates) \/ Named(q)
        BY <1>1, <3>1, <4>1 DEF IInv, Walked
      <4> QED BY <1>5, <1>6, <4>2
    <3> QED BY <3>2, <3>3
  <2> QED BY <1>7, <2>1 DEF Walked
<1>11. Spent'
  <2>1. Late(skipped)' = Late(skipped)
    BY <1>6 DEF Late
  <2> QED BY <1>1, <1>7, <2>1 DEF IInv, Spent
<1>12. Reported'
  BY <1>1, <1>3 DEF Reported, Finished, NoOutcome
<1> QED BY <1>8, <1>9, <1>10, <1>11, <1>12 DEF IInv

\* The candidates are sorted; what does not fit leaves a gap for the budget.
LEMMA WalkEndsKeepsInv ==
  ASSUME IInv, WalkEnds
  PROVE  IInv'
<1> DEFINE sorted == PathOrder!Sorted(candidates)
           kept == Smaller(Len(sorted), MAX_CANDIDATE_FILES)
           gap == Gap(sorted[kept + 1], "budget")
<1>1. /\ pc = "walk" /\ unseen = {} /\ pc' = "scan"
      /\ candidates' = SubSeq(sorted, 1, kept)
      /\ skipped' = IF kept < Len(sorted) THEN Append(skipped, gap) ELSE skipped
      /\ UNCHANGED <<plan, unseen, entries, next, window, totalBytes,
                     totalMatches, ranked, outcome, tree, writes, held, scanned, consumed>>
  BY DEF WalkEnds, Control, totals, environment, history
<1>2. /\ next = 1 /\ window = {} /\ ranked = <<>> /\ scanned = {}
      /\ totalBytes = 0 /\ totalMatches = 0 /\ consumed = 0
  BY <1>1 DEF IInv, Unscanned
<1>3. /\ Len(candidates) + Len(skipped) <= entries /\ entries <= MAX_DISCOVERY_ENTRIES
      /\ outcome = NoOutcome
      /\ \A p \in Paths : AlwaysFile(p) => p \in ToSet(candidates) \/ Named(p)
  BY <1>1 DEF IInv, Walked, Reported
<1>4. /\ sorted \in Seq(Paths \ SecretPaths) /\ Len(sorted) = Len(candidates)
      /\ ToSet(sorted) = ToSet(candidates)
  BY Types, CandidatesSorted
<1> HIDE DEF sorted
<1>5. /\ Len(sorted) \in Nat /\ DOMAIN sorted = 1 .. Len(sorted)
      /\ \A k \in 1 .. Len(sorted) : sorted[k] \in Paths \ SecretPaths
  BY <1>4, LenProperties, ElementOfSeq
<1>6. kept \in Nat /\ kept <= Len(sorted) /\ kept <= MAX_CANDIDATE_FILES
  BY <1>5, LimitsType DEF Smaller
<1> HIDE DEF kept
<1>7. candidates' \in Seq(Paths \ SecretPaths) /\ Len(candidates') = kept
      /\ (kept = Len(sorted) => candidates' = sorted)
  <2>1. \A k \in 1 .. kept : sorted[k] \in Paths \ SecretPaths
    BY <1>5, <1>6
  <2>2. /\ SubSeq(sorted, 1, kept) \in Seq(Paths \ SecretPaths)
        /\ Len(SubSeq(sorted, 1, kept)) = IF 1 <= kept THEN kept - 1 + 1 ELSE 0
    BY <1>6, <2>1, SubSeqProperties
  <2>3. (IF 1 <= kept THEN kept - 1 + 1 ELSE 0) = kept
    BY <1>6
  <2>4. SubSeq(sorted, 1, Len(sorted)) = sorted
    BY <1>4, SubSeqFull
  <2>5. kept = Len(sorted) => candidates' = sorted
    BY <1>1, <2>4
  <2>6. candidates' \in Seq(Paths \ SecretPaths) /\ Len(candidates') = kept
    BY <1>1, <2>2, <2>3
  <2> QED BY <2>5, <2>6
<1>8. kept < Len(sorted) => gap \in GapType /\ gap.reason = "budget"
  <2>1. kept < Len(sorted) => sorted[kept + 1] \in Paths \cup {<<>>}
    BY <1>5, <1>6
  <2> QED BY <2>1, GapsType DEF Gap
<1> HIDE DEF gap
<1>9. /\ skipped' \in Seq(GapType)
      /\ Len(skipped') = IF kept < Len(sorted) THEN Len(skipped) + 1 ELSE Len(skipped)
      /\ Late(skipped') = Late(skipped)
      /\ \A q \in Paths : Named(q) => Named(q)'
      /\ kept < Len(sorted) => OverBudget'
  <2>1. CASE kept < Len(sorted)
    <3>1. skipped' = Append(skipped, gap)
      BY <1>1, <2>1
    <3>2. /\ skipped' \in Seq(GapType) /\ Len(skipped') = Len(skipped) + 1
          /\ \A k \in DOMAIN skipped : k \in DOMAIN skipped' /\ skipped'[k] = skipped[k]
          /\ Len(skipped') \in DOMAIN skipped' /\ skipped'[Len(skipped')] = gap
          /\ Late(skipped') = Late(skipped)
      BY <1>8, <2>1, <3>1, Types, GapAppended, SMTT(30)
    <3>3. \A q \in Paths : Named(q) => Named(q)'
      BY <3>2 DEF Named
    <3>4. OverBudget'
      BY <1>8, <2>1, <3>2 DEF OverBudget
    <3> QED BY <2>1, <3>2, <3>3, <3>4
  <2>2. CASE ~(kept < Len(sorted))
    <3>1. skipped' = skipped
      BY <1>1, <2>2
    <3>2. \A q \in Paths : Named(q) => Named(q)'
      BY <3>1 DEF Named
    <3> QED BY <2>2, <3>1, <3>2, Types
  <2> QED BY <2>1, <2>2
<1>10. /\ 1 \in 1 .. Len(candidates') + 1
       /\ Len(candidates') - 1 + Len(skipped') <= MAX_DISCOVERY_ENTRIES
       /\ Len(skipped') <= MAX_DISCOVERY_ENTRIES
  <2>1. /\ Len(candidates) \in Nat /\ Len(skipped) \in Nat /\ entries \in Nat
        /\ MAX_DISCOVERY_ENTRIES \in Nat
    BY Types, LimitsType
  <2>2. kept <= Len(candidates) /\ Len(candidates') = kept
    BY <1>4, <1>6, <1>7
  <2>3. /\ Len(skipped) <= MAX_DISCOVERY_ENTRIES /\ 1 \in 1 .. kept + 1
        /\ kept - 1 + Len(skipped) <= MAX_DISCOVERY_ENTRIES
        /\ kept < Len(candidates) =>
             /\ Len(skipped) + 1 <= MAX_DISCOVERY_ENTRIES
             /\ kept - 1 + (Len(skipped) + 1) <= MAX_DISCOVERY_ENTRIES
    BY <1>3, <1>6, <2>1, <2>2, Kept
  <2>4. \/ Len(skipped') = Len(skipped)
        \/ Len(skipped') = Len(skipped) + 1 /\ kept < Len(candidates)
    BY <1>4, <1>9
  <2> QED BY <2>2, <2>3, <2>4
<1>11. TypeOK'
  <2>1. next' \in 1 .. Len(candidates') + 1
    BY <1>1, <1>2, <1>10
  <2>2. /\ tree' \in [Paths -> Nodes] /\ plan' \in Plans /\ held' \in [Paths -> SUBSET Nodes]
        /\ writes' \in 0 .. MaxWrites /\ outcome'.kind \in {"none", "result", "error"}
        /\ totalBytes' \in Nat /\ totalMatches' \in Nat /\ consumed' \in Nat
        /\ unseen' \subseteq Paths /\ entries' \in 0 .. MAX_DISCOVERY_ENTRIES + 1
    BY <1>1 DEF IInv, TypeOK
  <2>3. /\ \A k \in DOMAIN ranked' : ranked'[k].path.bytes \in scanned'
        /\ scanned' \subseteq ToSet(candidates') /\ window' \subseteq Contents
    BY <1>1, <1>2
  <2> QED BY <1>1, <1>7, <1>9, <2>1, <2>2, <2>3 DEF TypeOK
<1>12. Remembered' /\ Unscanned' /\ Walked'
  BY <1>1 DEF IInv, Remembered, Unscanned, Walked
<1>13. FoundAll'
  <2>1. Len(candidates') <= MAX_CANDIDATE_FILES
        /\ Len(candidates') - next' + Len(skipped') <= MAX_DISCOVERY_ENTRIES
    BY <1>1, <1>2, <1>6, <1>7, <1>10
  <2>2. ASSUME NEW p \in Paths, AlwaysFile(p)'
        PROVE  p \in ToSet(candidates') \/ Named(p)' \/ OverBudget'
    <3>1. AlwaysFile(p)
      BY <1>1, <2>2 DEF AlwaysFile
    <3>2. p \in ToSet(sorted) \/ Named(p)
      BY <1>3, <1>4, <3>1
    <3>3. kept < Len(sorted) \/ kept = Len(sorted)
      BY <1>5, <1>6, LessOrEqual
    <3> QED BY <1>7, <1>9, <3>2, <3>3
  <2>3. \A k \in 1 .. next' - 1 : FALSE
    BY <1>1, <1>2
  <2> QED BY <2>1, <2>2, <2>3 DEF FoundAll
<1>14. Spent'
  <2>1. Late(skipped)' = Late(skipped)
    BY <1>9 DEF Late
  <2>2. Len(skipped') <= MAX_DISCOVERY_ENTRIES + 1
    <3>1. Len(skipped') \in Nat
      BY <1>9, LenProperties
    <3> QED BY <1>10, <3>1, LimitsType
  <2> QED BY <1>1, <2>1, <2>2 DEF IInv, Spent
<1>15. Reported'
  BY <1>1, <1>3 DEF Reported, Finished, NoOutcome
<1> QED BY <1>11, <1>12, <1>13, <1>14, <1>15 DEF IInv

\* What the search has read, when a file is left out, when the scan ends
\* early, and when a file is accepted.
LEMMA LeftOut ==
  \A c, t, l, k, n \in Nat :
    c <= t + l * (k + 1) /\ n <= k + 1 =>
      c + n \in Nat /\ c + n <= t + (l + 1) * (k + 1) /\ c + 0 <= t + l * (k + 1)
<1> SUFFICES ASSUME NEW c \in Nat, NEW t \in Nat, NEW l \in Nat, NEW k \in Nat, NEW n \in Nat,
                    c <= t + l * (k + 1), n <= k + 1
             PROVE  c + n \in Nat /\ c + n <= t + (l + 1) * (k + 1) /\ c + 0 <= t + l * (k + 1)
  OBVIOUS
<1>1. (l + 1) * (k + 1) = l * (k + 1) + (k + 1) /\ l * (k + 1) \in Nat
  OBVIOUS
<1> QED BY <1>1

\* What is left of the total is not exceeded by more than one byte.
LEMMA Spending ==
  \A c, t, x, m, n \in Nat :
    c <= t + x /\ t <= m =>
      /\ n <= m - t + 1 => c + n \in Nat /\ c + n <= m + 1 + x
      /\ n <= m - t => c + n \in Nat /\ c + n <= (t + n) + x /\ t + n <= m
OBVIOUS

\* The place of the next candidate.
LEMMA Places ==
  \A i, c, s, m \in Nat :
    i # 0 /\ i <= c /\ c - i + s <= m =>
      /\ i \in 1 .. c /\ i + 1 \in 1 .. c + 1 /\ c - i + 1 \in Nat /\ 1 \in 1 .. c - i + 1
      /\ c - (i + 1) + (s + 1) <= m /\ c - (i + 1) + s <= m
      /\ s + 1 <= m + 1 /\ s + (c - i + 1) <= m + 1
      /\ \A k \in 1 .. i + 1 - 1 : k = i \/ k \in 1 .. i - 1
OBVIOUS

\* A candidate is left out with a gap of its own.
LEMMA SkipKeepsInv ==
  ASSUME IInv, pc \in {"scan", "read"}, next <= Len(candidates), NEW n \in Nat,
         NEW reason \in {"non_regular", "oversized"}, Skip(reason), consumed' = consumed + n,
         n = 0 \/ (reason = "oversized" /\ n <= plan.budget.max_file_bytes + 1)
  PROVE  IInv'
<1> DEFINE gap == Gap(Candidate, reason)
           k1 == plan.budget.max_file_bytes
<1>1. /\ pc' = "scan" /\ next' = next + 1 /\ window' = {}
      /\ skipped' = Append(skipped, gap)
      /\ UNCHANGED <<plan, unseen, entries, candidates, totalBytes,
                     totalMatches, ranked, outcome, tree, writes, held, scanned>>
  BY DEF Skip, Control, discovery, totals, environment
<1>2. /\ next \in 1 .. Len(candidates) /\ next' \in 1 .. Len(candidates) + 1
      /\ Len(candidates) - next' + (Len(skipped) + 1) <= MAX_DISCOVERY_ENTRIES
      /\ Len(skipped) + 1 <= MAX_DISCOVERY_ENTRIES + 1
      /\ \A k \in 1 .. next' - 1 : k = next \/ k \in 1 .. next - 1
  <2>1. Len(candidates) - next + Len(skipped) <= MAX_DISCOVERY_ENTRIES
    BY DEF IInv, FoundAll
  <2>2. /\ next \in Nat /\ next # 0 /\ Len(candidates) \in Nat /\ Len(skipped) \in Nat
        /\ MAX_DISCOVERY_ENTRIES \in Nat
    BY Types, LimitsType
  <2>3. /\ next \in 1 .. Len(candidates) /\ next + 1 \in 1 .. Len(candidates) + 1
        /\ Len(candidates) - (next + 1) + (Len(skipped) + 1) <= MAX_DISCOVERY_ENTRIES
        /\ Len(skipped) + 1 <= MAX_DISCOVERY_ENTRIES + 1
        /\ \A k \in 1 .. next + 1 - 1 : k = next \/ k \in 1 .. next - 1
    BY <2>1, <2>2, Places
  <2>4. next' = next + 1
    BY <1>1
  <2> QED BY <2>3, <2>4
<1>3. Candidate \in Paths /\ Candidate = candidates[next]
  BY <1>2, Types DEF Candidate
<1>4. gap \in GapType /\ gap.reason = reason /\ gap.path = Candidate
  BY <1>3, GapsType DEF Gap
<1> HIDE DEF gap
<1>5. /\ skipped' \in Seq(GapType) /\ Len(skipped') = Len(skipped) + 1
      /\ \A k \in DOMAIN skipped : k \in DOMAIN skipped' /\ skipped'[k] = skipped[k]
      /\ Len(skipped') \in DOMAIN skipped' /\ skipped'[Len(skipped')] = gap
      /\ Late(skipped') = IF reason = "oversized" THEN Late(skipped) + 1 ELSE Late(skipped)
  BY <1>1, <1>4, Types, GapAppended, SMTT(30)
<1>6. /\ \A q \in Paths : Named(q) => Named(q)'
      /\ OverBudget => OverBudget'
  <2>1. \A q \in Paths : Named(q) => Named(q)'
    BY <1>5 DEF Named
  <2>2. OverBudget => OverBudget'
    BY <1>5 DEF OverBudget
  <2> QED BY <2>1, <2>2
<1>7. consumed' \in Nat
      /\ consumed' <= totalBytes + Late(skipped') * (k1 + 1)
  <2>1. /\ consumed \in Nat /\ totalBytes \in Nat /\ Late(skipped) \in Nat /\ k1 \in Nat
    BY Types, PlanType
  <2>2. consumed <= totalBytes + Late(skipped) * (k1 + 1)
    BY DEF IInv, Spent
  <2> DEFINE late == Late(skipped)
  <2>3. late \in Nat /\ consumed <= totalBytes + late * (k1 + 1)
    BY <2>1, <2>2
  <2>4. Late(skipped') = IF reason = "oversized" THEN late + 1 ELSE late
    BY <1>5
  <2> HIDE DEF late, k1
  <2>5. CASE n = 0
    <3>1. 0 \in Nat /\ 0 <= k1 + 1
      BY <2>1
    <3>2. consumed + 0 \in Nat /\ consumed + 0 <= totalBytes + (late + 1) * (k1 + 1)
          /\ consumed + 0 <= totalBytes + late * (k1 + 1)
      BY <2>1, <2>3, <3>1, LeftOut
    <3> QED BY <2>4, <2>5, <3>2
  <2>6. CASE reason = "oversized" /\ n <= k1 + 1
    <3>1. consumed + n \in Nat /\ consumed + n <= totalBytes + (late + 1) * (k1 + 1)
      BY <2>1, <2>3, <2>6, LeftOut
    <3> QED BY <2>4, <2>6, <3>1
  <2> QED BY <2>5, <2>6 DEF k1
<1>8. TypeOK'
  <2>1. /\ tree' \in [Paths -> Nodes] /\ plan' \in Plans /\ held' \in [Paths -> SUBSET Nodes]
        /\ writes' \in 0 .. MaxWrites /\ outcome'.kind \in {"none", "result", "error"}
        /\ totalBytes' \in Nat /\ totalMatches' \in Nat
        /\ unseen' \subseteq Paths /\ entries' \in 0 .. MAX_DISCOVERY_ENTRIES + 1
        /\ candidates' \in Seq(Paths \ SecretPaths)
    BY <1>1 DEF IInv, TypeOK
  <2>2. /\ \A k \in DOMAIN ranked' : ranked'[k].path.bytes \in scanned'
        /\ scanned' \subseteq ToSet(candidates')
    BY <1>1 DEF IInv, TypeOK
  <2>3. next' \in 1 .. Len(candidates') + 1
    BY <1>1, <1>2
  <2> QED BY <1>1, <1>5, <1>7, <2>1, <2>2, <2>3 DEF TypeOK
<1>9. Remembered' /\ Unscanned' /\ Walked'
  BY <1>1 DEF IInv, Remembered, Unscanned, Walked
<1>10. FoundAll'
  <2>1. /\ Len(candidates') <= MAX_CANDIDATE_FILES
        /\ \A p \in Paths : AlwaysFile(p)' => p \in ToSet(candidates') \/ Named(p)' \/ OverBudget'
    BY <1>1, <1>6 DEF IInv, FoundAll, AlwaysFile
  <2>2. Len(candidates') - next' + Len(skipped') <= MAX_DISCOVERY_ENTRIES
    BY <1>1, <1>2, <1>5
  <2>3. ASSUME NEW k \in 1 .. next' - 1
        PROVE  candidates'[k] \in scanned' \/ (\E j \in DOMAIN skipped' : skipped'[j].path = candidates'[k])
    <3>1. CASE k = next
      <4>1. candidates'[k] = Candidate
        BY <1>1, <1>3, <3>1
      <4> QED BY <1>4, <1>5, <4>1
    <3>2. CASE k \in 1 .. next - 1
      <4>1. candidates[k] \in scanned \/ Named(candidates[k])
        BY <3>2 DEF IInv, FoundAll
      <4> QED BY <1>1, <1>5, <4>1 DEF Named
    <3> QED BY <1>2, <3>1, <3>2
  <2> QED BY <2>1, <2>2, <2>3 DEF FoundAll, Named
<1>11. Spent'
  <2>1. Late(skipped)' = Late(skipped')
    BY DEF Late
  <2>2. /\ totalBytes' <= plan'.budget.max_total_bytes
        /\ totalMatches' <= plan'.budget.max_matches /\ ranked' \in Seq(ToSet(ranked'))
    BY <1>1 DEF IInv, Spent
  <2>3. Len(skipped') <= MAX_DISCOVERY_ENTRIES + 1
    BY <1>2, <1>5
  <2> QED BY <1>1, <1>7, <2>1, <2>2, <2>3 DEF Spent
<1>12. Reported'
  BY <1>1 DEF IInv, Reported, Finished, NoOutcome
<1> QED BY <1>8, <1>9, <1>10, <1>11, <1>12 DEF IInv

\* The scan ends early; every candidate left has a gap for the budget.
LEMMA BreakKeepsInv ==
  ASSUME IInv, pc \in {"scan", "read"}, next <= Len(candidates), NEW n \in Nat,
         Break, consumed' = consumed + n, n <= Remaining + 1
  PROVE  IInv'
<1> DEFINE rest == BudgetSuffix
           left == Len(candidates) - next + 1
<1>1. /\ pc' = "done" /\ skipped' = skipped \o rest
      /\ outcome' = Result(ranked, skipped \o rest)
      /\ UNCHANGED <<plan, unseen, entries, candidates, next, window, totalBytes,
                     totalMatches, ranked, tree, writes, held, scanned>>
  BY DEF Break, Stop, Control, discovery, totals, environment
<1>2. /\ left \in Nat /\ 1 \in 1 .. left
      /\ Len(skipped) + left <= MAX_DISCOVERY_ENTRIES + 1
  <2>1. Len(candidates) - next + Len(skipped) <= MAX_DISCOVERY_ENTRIES
    BY DEF IInv, FoundAll
  <2> QED BY <2>1, Types, LimitsType, Places
<1>3. \A k \in 1 .. left : next + k - 1 \in 1 .. Len(candidates)
  <2>1. Len(candidates) \in Nat /\ next \in Nat \ {0}
    BY Types
  <2> DEFINE last == Len(candidates)
  <2>2. last \in Nat /\ left = last - next + 1
    BY <2>1
  <2> HIDE DEF last, left
  <2>3. \A k \in 1 .. left : next + k - 1 \in 1 .. last
    BY <2>1, <2>2
  <2> QED BY <2>3 DEF last
<1>4. rest = [k \in 1 .. left |-> Gap(candidates[next + k - 1], "budget")]
  BY DEF BudgetSuffix
<1>5. \A k \in 1 .. left : /\ Gap(candidates[next + k - 1], "budget") \in GapType
                           /\ Gap(candidates[next + k - 1], "budget").reason = "budget"
  BY <1>3, Types, GapsType DEF Gap
<1> HIDE DEF rest, left
<1>6. /\ rest \in Seq(GapType) /\ Len(rest) = left /\ DOMAIN rest = 1 .. left
      /\ \A k \in 1 .. left : rest[k].reason = "budget"
  BY <1>2, <1>4, <1>5
<1>7. /\ skipped' \in Seq(GapType) /\ Len(skipped') = Len(skipped) + left
      /\ Late(skipped') = Late(skipped)
      /\ Len(skipped) + 1 \in DOMAIN skipped' /\ skipped'[Len(skipped) + 1].reason = "budget"
  <2>1. /\ skipped' \in Seq(GapType) /\ Len(skipped') = Len(skipped) + Len(rest)
        /\ \A k \in DOMAIN rest : /\ Len(skipped) + k \in DOMAIN skipped'
                                  /\ skipped'[Len(skipped) + k] = rest[k]
        /\ (\A k \in DOMAIN rest : rest[k].reason # "oversized") => Late(skipped') = Late(skipped)
    BY <1>1, <1>6, Types, GapsConcatenated
  <2> QED BY <1>2, <1>6, <2>1
<1>8. consumed' \in Nat
      /\ consumed' <= plan.budget.max_total_bytes + 1 + Late(skipped') * (plan.budget.max_file_bytes + 1)
  <2> DEFINE x == Late(skipped) * (plan.budget.max_file_bytes + 1)
             m == plan.budget.max_total_bytes
  <2>1. x \in Nat /\ m \in Nat /\ consumed \in Nat /\ totalBytes \in Nat
    BY Types, PlanType
  <2>2. consumed <= totalBytes + x /\ totalBytes <= m /\ n <= m - totalBytes + 1
    BY DEF IInv, Spent, Remaining
  <2>3. Late(skipped') * (plan.budget.max_file_bytes + 1) = x
    BY <1>7
  <2> HIDE DEF x, m
  <2>4. consumed + n \in Nat /\ consumed + n <= m + 1 + x
    BY <2>1, <2>2, Spending
  <2> QED BY <2>3, <2>4 DEF m
<1>9. outcome'.kind = "result"
  BY <1>1 DEF Result
<1>10. TypeOK'
  <2>1. /\ tree' \in [Paths -> Nodes] /\ plan' \in Plans /\ held' \in [Paths -> SUBSET Nodes]
        /\ writes' \in 0 .. MaxWrites
        /\ totalBytes' \in Nat /\ totalMatches' \in Nat /\ window' \subseteq Contents
        /\ unseen' \subseteq Paths /\ entries' \in 0 .. MAX_DISCOVERY_ENTRIES + 1
        /\ candidates' \in Seq(Paths \ SecretPaths) /\ next' \in 1 .. Len(candidates') + 1
        /\ \A k \in DOMAIN ranked' : ranked'[k].path.bytes \in scanned'
        /\ scanned' \subseteq ToSet(candidates')
    BY <1>1 DEF IInv, TypeOK
  <2> QED BY <1>1, <1>7, <1>8, <1>9, <2>1 DEF TypeOK
<1>11. Remembered' /\ Unscanned' /\ Walked' /\ FoundAll'
  BY <1>1 DEF IInv, Remembered, Unscanned, Walked, FoundAll
<1>12. Spent'
  <2>1. Late(skipped)' = Late(skipped')
    BY DEF Late
  <2>2. /\ totalBytes' <= plan'.budget.max_total_bytes
        /\ totalMatches' <= plan'.budget.max_matches /\ ranked' \in Seq(ToSet(ranked'))
    BY <1>1 DEF IInv, Spent
  <2>3. Len(skipped') <= MAX_DISCOVERY_ENTRIES + 1
    BY <1>2, <1>7
  <2> QED BY <1>1, <1>8, <2>1, <2>2, <2>3 DEF Spent
<1>13. Reported'
  <2>1. outcome' = Result(ranked, skipped)'
    BY <1>1 DEF Result
  <2>2. OverBudget'
    BY <1>7 DEF OverBudget
  <2> QED BY <1>1, <2>1, <2>2 DEF Reported
<1> QED BY <1>10, <1>11, <1>12, <1>13 DEF IInv

\* A file is accepted: what was read of it is all of it, and within the total.
LEMMA AcceptKeepsInv ==
  ASSUME IInv, pc = "read", NEW raw \in Readable(window),
         NEW n \in Nat, n = Smaller(Len(raw), ReadLimit),
         ~TooLarge(n), ~TooMuch(n), consumed' = consumed + n, Accept(raw), pc' = "scan"
  PROVE  IInv'
<1> DEFINE found == blocks_for_file(plan, Candidate, raw)
           m == plan.budget.max_total_bytes
           x == Late(skipped) * (plan.budget.max_file_bytes + 1)
<1>1. /\ next' = next + 1 /\ window' = {}
      /\ totalBytes' = totalBytes + Len(raw)
      /\ totalMatches' = totalMatches + file_matches(plan, ParseLines(raw))
      /\ totalMatches' <= plan.budget.max_matches
      /\ ranked' = ranked \o found /\ scanned' = scanned \cup {Candidate}
      /\ UNCHANGED <<plan, unseen, entries, candidates, skipped, outcome, tree, writes, held>>
  <2>1. ~Break
    BY DEF Break, Stop
  <2> QED BY <2>1 DEF Accept, Control, discovery, environment
<1>2. next <= Len(candidates) /\ window \in SUBSET Contents
  BY DEF IInv, TypeOK
<1>3. raw \in ByteString /\ IsPlan(plan)
  BY <1>2, Types, ReadableType, PlanType
<1>4. /\ next \in 1 .. Len(candidates) /\ next' \in 1 .. Len(candidates) + 1
      /\ Len(candidates) - next' + Len(skipped) <= MAX_DISCOVERY_ENTRIES
      /\ \A k \in 1 .. next' - 1 : k = next \/ k \in 1 .. next - 1
  <2>1. Len(candidates) - next + Len(skipped) <= MAX_DISCOVERY_ENTRIES
    BY DEF IInv, FoundAll
  <2>2. /\ next \in Nat /\ next # 0 /\ Len(candidates) \in Nat /\ Len(skipped) \in Nat
        /\ MAX_DISCOVERY_ENTRIES \in Nat
    BY Types, LimitsType
  <2>3. /\ next \in 1 .. Len(candidates) /\ next + 1 \in 1 .. Len(candidates) + 1
        /\ Len(candidates) - (next + 1) + Len(skipped) <= MAX_DISCOVERY_ENTRIES
        /\ \A k \in 1 .. next + 1 - 1 : k = next \/ k \in 1 .. next - 1
    BY <1>2, <2>1, <2>2, Places
  <2>4. next' = next + 1
    BY <1>1
  <2> QED BY <2>3, <2>4
<1>5. Candidate \in Paths /\ Candidate = candidates[next] /\ Candidate \in ToSet(candidates)
  BY <1>4, Types DEF Candidate, ToSet
<1>6. /\ totalBytes' \in Nat /\ totalBytes' <= m /\ consumed' \in Nat
      /\ consumed' <= totalBytes' + x
  <2>1. /\ x \in Nat /\ m \in Nat /\ consumed \in Nat /\ totalBytes \in Nat
        /\ plan.budget.max_file_bytes \in Nat
    BY Types, PlanType
  <2>2. consumed <= totalBytes + x /\ totalBytes <= m
    BY DEF IInv, Spent
  <2>3. Len(raw) \in Nat
    BY <1>3, LenProperties DEF ByteString
  <2>4. n = Len(raw) /\ n <= m - totalBytes
    <3> DEFINE l == Len(raw)
    <3>1. l \in Nat /\ n = Smaller(l, ReadLimit)
      BY <2>3
    <3> DEFINE f == plan.budget.max_file_bytes
    <3>2. ~(n > f) /\ ~(n > m - totalBytes)
      BY DEF TooLarge, TooMuch, Remaining
    <3>3. ReadLimit = Smaller(f, m - totalBytes) + 1
      BY DEF ReadLimit, Remaining
    <3>4. m - totalBytes \in Nat /\ f \in Nat
      BY <2>1, <2>2, SMTT(30)
    <3> HIDE DEF l, f, m
    <3>5. n = l
      <4>1. Smaller(f, m - totalBytes) \in {f, m - totalBytes}
        BY DEF Smaller
      <4>2. n \in {l, Smaller(f, m - totalBytes) + 1}
        BY <3>1, <3>3 DEF Smaller
      <4>3. n # f + 1 /\ n # m - totalBytes + 1
        BY <3>2, <3>4
      <4> QED BY <4>1, <4>2, <4>3
    <3>6. n <= m - totalBytes
      BY <3>2, <3>4
    <3> QED BY <3>5, <3>6 DEF l
  <2> HIDE DEF x, m
  <2>5. consumed + n \in Nat /\ consumed + n <= (totalBytes + n) + x /\ totalBytes + n <= m
    BY <2>1, <2>2, <2>4, Spending
  <2>6. totalBytes + n \in Nat
    BY <2>1
  <2>7. totalBytes' = totalBytes + n
    BY <1>1, <2>4
  <2> QED BY <2>5, <2>6, <2>7
<1>7. totalMatches' \in Nat
  <2>1. file_matches(plan, ParseLines(raw)) \in Nat
    BY <1>3, LinesType, FileMatchesType
  <2>2. \A a, b \in Nat : a + b \in Nat
    OBVIOUS
  <2>3. totalMatches + file_matches(plan, ParseLines(raw)) \in Nat
    BY <2>1, <2>2, Types
  <2> QED BY <1>1, <2>3
<1>8. /\ ranked' \in Seq(ToSet(ranked'))
      /\ \A k \in DOMAIN ranked' : ranked'[k].path.bytes \in scanned'
  <2>1. /\ found \in Seq(ToSet(found))
        /\ \A k \in DOMAIN found : found[k].path.bytes = Candidate
    BY <1>3, BlocksType
  <2>2. /\ ranked \in Seq(ToSet(ranked))
        /\ \A k \in DOMAIN ranked : ranked[k].path.bytes \in scanned
    BY DEF IInv, TypeOK, Spent
  <2> HIDE DEF found
  <2> DEFINE S == ToSet(ranked) \cup ToSet(found)
  <2>3. ranked \in Seq(S) /\ found \in Seq(S)
    BY <2>1, <2>2
  <2> HIDE DEF S
  <2>4. /\ ranked' \in Seq(S) /\ Len(ranked') = Len(ranked) + Len(found)
        /\ \A i \in 1 .. Len(ranked) + Len(found) :
             ranked'[i] = IF i <= Len(ranked) THEN ranked[i] ELSE found[i - Len(ranked)]
    BY <1>1, <2>3, ConcatProperties
  <2>5. /\ DOMAIN ranked' = 1 .. Len(ranked) + Len(found)
        /\ Len(ranked) \in Nat /\ DOMAIN ranked = 1 .. Len(ranked)
        /\ Len(found) \in Nat /\ DOMAIN found = 1 .. Len(found)
    BY <2>3, <2>4, LenProperties
  <2>6. ranked' \in Seq(ToSet(ranked'))
    <3>1. ranked' = [i \in 1 .. Len(ranked) + Len(found) |-> ranked'[i]]
      BY <2>4, <2>5
    <3>2. \A i \in 1 .. Len(ranked) + Len(found) : ranked'[i] \in ToSet(ranked')
      BY <2>5 DEF ToSet
    <3>3. Len(ranked) + Len(found) \in Nat
      BY <2>5
    <3> QED BY <3>1, <3>2, <3>3
  <2>7. ASSUME NEW k \in DOMAIN ranked'
        PROVE  ranked'[k].path.bytes \in scanned'
    <3>1. CASE k <= Len(ranked)
      <4>1. k \in DOMAIN ranked /\ ranked'[k] = ranked[k]
        BY <2>4, <2>5, <3>1
      <4> QED BY <1>1, <2>2, <4>1
    <3>2. CASE ~(k <= Len(ranked))
      <4>1. k - Len(ranked) \in DOMAIN found
        BY <2>5, <3>2
      <4>2. ranked'[k] = found[k - Len(ranked)]
        BY <2>4, <2>5, <3>2
      <4>3. ranked'[k].path.bytes = Candidate
        BY <2>1, <4>1, <4>2
      <4> QED BY <1>1, <4>3
    <3> QED BY <3>1, <3>2
  <2> QED BY <2>6, <2>7
<1> HIDE DEF found
<1>9. TypeOK'
  <2>1. /\ tree' \in [Paths -> Nodes] /\ plan' \in Plans /\ held' \in [Paths -> SUBSET Nodes]
        /\ writes' \in 0 .. MaxWrites /\ outcome'.kind \in {"none", "result", "error"}
        /\ unseen' \subseteq Paths /\ entries' \in 0 .. MAX_DISCOVERY_ENTRIES + 1
        /\ candidates' \in Seq(Paths \ SecretPaths) /\ skipped' \in Seq(GapType)
    BY <1>1 DEF IInv, TypeOK
  <2>2. scanned' \subseteq ToSet(candidates') /\ window' \subseteq Contents
    BY <1>1, <1>5 DEF IInv, TypeOK
  <2>3. next' \in 1 .. Len(candidates') + 1
    BY <1>1, <1>4
  <2> QED BY <1>6, <1>7, <1>8, <2>1, <2>2, <2>3 DEF TypeOK
<1>10. Remembered' /\ Unscanned' /\ Walked'
  BY <1>1 DEF IInv, Remembered, Unscanned, Walked
<1>11. FoundAll'
  <2>1. /\ Len(candidates') <= MAX_CANDIDATE_FILES
        /\ \A p \in Paths : AlwaysFile(p)' => p \in ToSet(candidates') \/ Named(p)' \/ OverBudget'
    BY <1>1 DEF IInv, FoundAll, AlwaysFile, Named, OverBudget
  <2>2. Len(candidates') - next' + Len(skipped') <= MAX_DISCOVERY_ENTRIES
    BY <1>1, <1>4
  <2>3. ASSUME NEW k \in 1 .. next' - 1
        PROVE  candidates'[k] \in scanned' \/ (\E j \in DOMAIN skipped' : skipped'[j].path = candidates'[k])
    <3>1. CASE k = next
      BY <1>1, <1>5, <3>1
    <3>2. CASE k \in 1 .. next - 1
      <4>1. candidates[k] \in scanned \/ Named(candidates[k])
        BY <3>2 DEF IInv, FoundAll
      <4> QED BY <1>1, <4>1 DEF Named
    <3> QED BY <1>4, <3>1, <3>2
  <2> QED BY <2>1, <2>2, <2>3 DEF FoundAll, Named
<1>12. Spent'
  <2>1. Late(skipped)' = Late(skipped)
    BY <1>1 DEF Late
  <2>2. Len(skipped') <= MAX_DISCOVERY_ENTRIES + 1
    BY <1>1 DEF IInv, Spent
  <2> QED BY <1>1, <1>6, <1>8, <2>1, <2>2 DEF Spent
<1>13. Reported'
  BY <1>1 DEF IInv, Reported, Finished, NoOutcome
<1> QED BY <1>9, <1>10, <1>11, <1>12, <1>13 DEF IInv

\* A file within the limits is opened.
LEMMA OpeningKeepsInv ==
  ASSUME IInv, AtCandidate, tree[Candidate].kind = "file",
         pc' = "read", window' = {tree[Candidate].raw},
         UNCHANGED <<discovery, skipped, next, totals, outcome, history>>, Control
  PROVE  IInv'
<1>1. /\ pc = "scan" /\ next <= Len(candidates)
      /\ UNCHANGED <<plan, unseen, entries, candidates, skipped, next, totalBytes,
                     totalMatches, ranked, outcome, tree, writes, held, scanned, consumed>>
  BY DEF AtCandidate, Control, discovery, totals, environment, history
<1>2. window' \subseteq Contents
  <2>1. next \in 1 .. Len(candidates)
    BY <1>1, Types
  <2>2. Candidate \in Paths
    BY <2>1, Types DEF Candidate
  <2>3. tree[Candidate] \in Nodes
    BY <2>2, Types
  <2> QED BY <2>3, FileNodes
<1>3. TypeOK'
  BY <1>1, <1>2 DEF IInv, TypeOK
<1>4. Remembered' /\ Unscanned' /\ Walked'
  BY <1>1 DEF IInv, Remembered, Unscanned, Walked
<1>5. FoundAll'
  BY <1>1 DEF IInv, FoundAll, AlwaysFile, Named, OverBudget
<1>6. Spent'
  BY <1>1 DEF IInv, Spent, Late
<1>7. Reported'
  BY <1>1 DEF IInv, Reported, Finished, NoOutcome
<1> QED BY <1>3, <1>4, <1>5, <1>6, <1>7 DEF IInv

\* When no candidate is left, the result misses none.
LEMMA ScanEndsKeepsInv ==
  ASSUME IInv, ScanEnds
  PROVE  IInv'
<1>1. /\ pc = "scan" /\ next > Len(candidates) /\ pc' = "done"
      /\ outcome' = Result(ranked, skipped)
      /\ UNCHANGED <<plan, unseen, entries, candidates, skipped, next, window, totalBytes,
                     totalMatches, ranked, tree, writes, held, scanned, consumed>>
  BY DEF ScanEnds, Stop, Control, discovery, totals, environment, history
<1>2. outcome'.kind = "result"
  BY <1>1 DEF Result
<1>3. TypeOK'
  BY <1>1, <1>2 DEF IInv, TypeOK
<1>4. Remembered' /\ Unscanned' /\ Walked' /\ FoundAll'
  BY <1>1 DEF IInv, Remembered, Unscanned, Walked, FoundAll
<1>5. Spent'
  <2> DEFINE x == Late(skipped) * (plan.budget.max_file_bytes + 1)
             m == plan.budget.max_total_bytes
  <2>1. x \in Nat /\ m \in Nat /\ consumed \in Nat /\ totalBytes \in Nat
    BY Types, PlanType
  <2>2. consumed <= totalBytes + x /\ totalBytes <= m
    BY <1>1 DEF IInv, Spent
  <2> HIDE DEF x, m
  <2>3. consumed <= m + 1 + x
    BY <2>1, <2>2
  <2> QED BY <1>1, <2>3 DEF IInv, Spent, Late, x, m
<1>6. Reported'
  <2>1. outcome' = Result(ranked, skipped)'
    BY <1>1 DEF Result
  <2>2. ASSUME NEW p \in Paths, AlwaysFile(p)
        PROVE  p \in scanned \/ Named(p) \/ OverBudget
    <3>1. p \in ToSet(candidates) \/ Named(p) \/ OverBudget
      BY <1>1, <2>2 DEF IInv, FoundAll
    <3>2. ASSUME p \in ToSet(candidates)
          PROVE  p \in scanned \/ Named(p)
      <4>1. PICK k \in DOMAIN candidates : candidates[k] = p
        BY <3>2 DEF ToSet
      <4>2. k \in 1 .. next - 1
        BY <1>1, Types
      <4> QED BY <1>1, <4>1, <4>2 DEF IInv, FoundAll
    <3> QED BY <3>1, <3>2
  <2>3. \A p \in Paths : AlwaysFile(p)' => p \in scanned' \/ Named(p)' \/ OverBudget'
    BY <1>1, <2>2 DEF AlwaysFile, Named, OverBudget
  <2> QED BY <1>1, <2>1, <2>3 DEF Reported
<1> QED BY <1>3, <1>4, <1>5, <1>6 DEF IInv

\* A write only adds to what a path has held.
LEMMA WriteKeepsInv ==
  ASSUME IInv, NEW p \in Paths, NEW node \in Nodes, Write(p, node)
  PROVE  IInv'
<1>1. /\ pc \in {"walk", "scan", "read"} /\ writes < MaxWrites /\ writes' = writes + 1
      /\ tree' = [tree EXCEPT ![p] = node]
      /\ held' = [held EXCEPT ![p] = @ \cup {node}]
      /\ window' = window \/ (pc = "read" /\ node.kind = "file" /\ window' = window \cup {node.raw})
      /\ UNCHANGED <<plan, pc, unseen, entries, candidates, skipped, next, totalBytes,
                     totalMatches, ranked, outcome, scanned, consumed>>
  BY DEF Write, discovery, totals, history
<1>2. tree \in [Paths -> Nodes] /\ held \in [Paths -> SUBSET Nodes]
  BY DEF IInv, TypeOK
<1>3. TypeOK'
  <2>1. tree' \in [Paths -> Nodes] /\ held' \in [Paths -> SUBSET Nodes]
    BY <1>1, <1>2
  <2>2. window' \subseteq Contents
    <3>1. window \subseteq Contents
      BY DEF IInv, TypeOK
    <3> QED BY <1>1, <3>1, FileNodes
  <2>3. writes' \in 0 .. MaxWrites
    <3>1. writes \in 0 .. MaxWrites
      BY DEF IInv, TypeOK
    <3> QED BY <1>1, <3>1, LimitsType
  <2> QED BY <1>1, <2>1, <2>2, <2>3 DEF IInv, TypeOK
<1>4. Remembered'
  BY <1>1, <1>2 DEF IInv, Remembered
<1>5. \A q \in Paths : AlwaysFile(q)' => AlwaysFile(q)
  <2>1. \A q \in Paths : held[q] \subseteq held'[q]
    BY <1>1, <1>2
  <2> QED BY <2>1 DEF AlwaysFile
<1>6. Unscanned'
  BY <1>1 DEF IInv, Unscanned
<1>7. Walked'
  <2>1. pc \in {"plan", "root", "walk"} =>
          /\ Len(candidates) + Len(skipped) <= entries /\ entries <= MAX_DISCOVERY_ENTRIES
          /\ \A q \in Paths \ unseen : AlwaysFile(q)' => q \in ToSet(candidates) \/ Named(q)
    BY <1>5 DEF IInv, Walked
  <2> QED BY <1>1, <2>1 DEF Walked, Named
<1>8. FoundAll'
  <2>1. pc \in {"scan", "read"} =>
          /\ Len(candidates) <= MAX_CANDIDATE_FILES
          /\ Len(candidates) - next + Len(skipped) <= MAX_DISCOVERY_ENTRIES
          /\ \A q \in Paths : AlwaysFile(q)' => q \in ToSet(candidates) \/ Named(q) \/ OverBudget
          /\ \A k \in 1 .. next - 1 : candidates[k] \in scanned \/ Named(candidates[k])
    BY <1>5 DEF IInv, FoundAll
  <2> QED BY <1>1, <2>1 DEF FoundAll, Named, OverBudget
<1>9. Spent'
  BY <1>1 DEF IInv, Spent, Late
<1>10. Reported'
  <2>1. outcome = NoOutcome
    BY <1>1 DEF IInv, Reported
  <2> QED BY <1>1, <2>1 DEF Reported, Finished, NoOutcome
<1> QED BY <1>3, <1>4, <1>6, <1>7, <1>8, <1>9, <1>10 DEF IInv

\* A step that changes nothing.
LEMMA StutterKeepsInv ==
  ASSUME IInv, UNCHANGED vars
  PROVE  IInv'
<1>1. UNCHANGED <<plan, pc, unseen, entries, candidates, skipped, next, window, totalBytes,
                  totalMatches, ranked, outcome, tree, writes, held, scanned, consumed>>
  BY DEF vars, discovery, totals, environment, history
<1>2. TypeOK' /\ Remembered' /\ Unscanned'
  BY <1>1 DEF IInv, TypeOK, Remembered, Unscanned
<1>3. Walked'
  BY <1>1 DEF IInv, Walked, AlwaysFile, Named
<1>4. FoundAll'
  BY <1>1 DEF IInv, FoundAll, AlwaysFile, Named, OverBudget
<1>5. Spent'
  BY <1>1 DEF IInv, Spent, Late
<1>6. Reported'
  <2>1. Result(ranked, skipped)' = Result(ranked, skipped)
    BY <1>1 DEF Result
  <2> QED BY <1>1, <2>1 DEF IInv, Reported, Finished, AlwaysFile, Named, OverBudget, NoOutcome
<1> QED BY <1>2, <1>3, <1>4, <1>5, <1>6 DEF IInv

\* Reading the open file: it is too large, too much, or accepted.
LEMMA ReadKeepsInv ==
  ASSUME IInv, ReadCandidate
  PROVE  IInv'
<1>1. PICK raw \in Readable(window) :
        LET n == Smaller(Len(raw), ReadLimit)
        IN  /\ consumed' = consumed + n
            /\ \/ TooLarge(n) /\ Skip("oversized")
               \/ TooMuch(n) /\ Break
               \/ ~TooLarge(n) /\ ~TooMuch(n) /\ Accept(raw)
  BY DEF ReadCandidate
<1> DEFINE n == Smaller(Len(raw), ReadLimit)
<1>2. pc = "read" /\ next <= Len(candidates)
  BY DEF ReadCandidate, IInv, TypeOK
<1>3. /\ n \in Nat /\ n <= Remaining + 1 /\ n <= plan.budget.max_file_bytes + 1
  <2>1. Len(raw) \in Nat
    <3>1. raw \in ByteString
      BY ReadableType DEF IInv, TypeOK
    <3> QED BY <3>1, LenProperties DEF ByteString
  <2>2. Remaining \in Nat
    <3>1. totalBytes <= plan.budget.max_total_bytes
      BY DEF IInv, Spent
    <3> QED BY <3>1, Types, PlanType, SMTT(30) DEF Remaining
  <2>3. plan.budget.max_file_bytes \in Nat
    BY Types, PlanType
  <2> DEFINE l == Len(raw)
             f == plan.budget.max_file_bytes
             r == Remaining
  <2>4. n = Smaller(l, Smaller(f, r) + 1)
    BY DEF ReadLimit
  <2> HIDE DEF l, f, r, n
  <2>5. l \in Nat /\ f \in Nat /\ r \in Nat
    BY <2>1, <2>2, <2>3 DEF l, f, r
  <2>6. n \in Nat /\ n <= r + 1 /\ n <= f + 1
    BY <2>4, <2>5 DEF Smaller
  <2> QED BY <2>6 DEF f, r
<1>4. CASE Skip("oversized")
  <2> HIDE DEF n
  <2> QED BY <1>1, <1>2, <1>3, <1>4, SkipKeepsInv DEF n
<1>5. CASE Break
  <2> HIDE DEF n
  <2> QED BY <1>1, <1>2, <1>3, <1>5, BreakKeepsInv DEF n
<1>6. CASE ~TooLarge(n) /\ ~TooMuch(n) /\ Accept(raw)
  <2>1. Break \/ pc' = "scan"
    BY <1>6 DEF Accept
  <2>2. CASE Break
    BY <1>5, <2>2
  <2>3. CASE pc' = "scan"
    <3>1. consumed' = consumed + n
      BY <1>1
    <3>2. n = Smaller(Len(raw), ReadLimit)
      OBVIOUS
    <3> HIDE DEF n
    <3> QED BY <1>2, <1>3, <1>6, <2>3, <3>1, <3>2, AcceptKeepsInv
  <2> QED BY <2>1, <2>2, <2>3
<1> QED BY <1>1, <1>4, <1>5, <1>6

\* Opening the next candidate: it is too large, too much, or opened.
LEMMA OpenKeepsInv ==
  ASSUME IInv, OpenCandidate
  PROVE  IInv'
<1>1. AtCandidate /\ tree[Candidate].kind = "file" /\ pc \in {"scan", "read"}
      /\ next <= Len(candidates)
  BY DEF OpenCandidate, AtCandidate
<1>2. consumed \in Nat /\ (UNCHANGED consumed => consumed' = consumed + 0)
  BY Types
<1>3. 0 <= Remaining + 1
  <2>1. totalBytes <= plan.budget.max_total_bytes
    BY DEF IInv, Spent
  <2> QED BY <2>1, Types, PlanType, SMTT(30) DEF Remaining
<1>4. CASE Skip("oversized") /\ UNCHANGED consumed
  BY <1>1, <1>2, <1>4, SkipKeepsInv
<1>5. CASE Break /\ UNCHANGED consumed
  BY <1>1, <1>2, <1>3, <1>5, BreakKeepsInv
<1>6. CASE /\ pc' = "read" /\ window' = {tree[Candidate].raw}
           /\ UNCHANGED <<discovery, skipped, next, totals, outcome, history>>
           /\ Control
  BY <1>1, <1>6, OpeningKeepsInv
<1> QED BY <1>4, <1>5, <1>6 DEF OpenCandidate

\* Every step keeps the invariant.
LEMMA StepInv == IInv /\ [Next]_vars => IInv'
<1> SUFFICES ASSUME IInv, [Next]_vars
             PROVE  IInv'
  OBVIOUS
<1>1. CASE UNCHANGED vars
  BY <1>1, StutterKeepsInv
<1>2. CASE RejectPlan
  <2>1. PICK error : Stop(Failed(error))
    BY <1>2 DEF RejectPlan
  <2> QED BY <1>2, <2>1, FailureKeepsInv DEF RejectPlan
<1>3. CASE AdmitPlan \/ OpenRoot
  BY <1>3, EnteringKeepsInv
<1>4. CASE RootOpenFails
  <2>1. PICK error : Stop(Failed(error))
    BY <1>4 DEF RootOpenFails
  <2> QED BY <1>4, <2>1, FailureKeepsInv DEF RootOpenFails
<1>5. ASSUME NEW p \in Paths, Walk(p)
      PROVE  IInv'
  <2>1. CASE WalkPast(p)
    BY <2>1, PastKeepsInv
  <2>2. CASE WalkOverflows(p)
    BY <2>2, OverflowKeepsInv
  <2>3. CASE WalkFails(p)
    BY <2>3, FailureKeepsInv DEF WalkFails
  <2>4. CASE WalkEntry(p)
    BY <2>4, EntryKeepsInv
  <2> QED BY <1>5, <2>1, <2>2, <2>3, <2>4 DEF Walk
<1>6. CASE WalkEnds
  BY <1>6, WalkEndsKeepsInv
<1>7. CASE CandidateGone \/ ScanFault
  BY <1>7, FailureKeepsInv DEF CandidateGone, ScanFault
<1>8. CASE CandidateNonRegular
  <2>1. /\ pc \in {"scan", "read"} /\ next <= Len(candidates)
        /\ Skip("non_regular") /\ consumed' = consumed + 0
    BY <1>8, Types DEF CandidateNonRegular, AtCandidate
  <2> QED BY <2>1, SkipKeepsInv
<1>9. CASE OpenCandidate
  BY <1>9, OpenKeepsInv
<1>10. CASE ReadCandidate
  BY <1>10, ReadKeepsInv
<1>11. CASE ScanEnds
  BY <1>11, ScanEndsKeepsInv
<1>12. ASSUME NEW p \in Paths, NEW node \in Nodes, Write(p, node)
       PROVE  IInv'
  BY <1>12, WriteKeepsInv
<1>13. CASE Done
  BY <1>13, StutterKeepsInv DEF Done
<1> QED BY <1>1, <1>2, <1>3, <1>4, <1>5, <1>6, <1>7, <1>8, <1>9, <1>10, <1>11, <1>12, <1>13
        DEF Next, Searcher, Scan

\* The invariant holds of every reachable state.
THEOREM SearchInv == Spec => []IInv
BY InitInv, StepInv, PTL DEF Spec

(***************************************************************************)
(* What the invariant says of a search.                                    *)
(***************************************************************************)

\* Every variable has its type, and the scan stays within its candidates
\* (search, discover).
THEOREM TypeCorrect == Spec => []TypeOK
<1>1. IInv => TypeOK
  BY DEF IInv
<1> QED BY <1>1, SearchInv, PTL

\* The invariant bounds the work.
LEMMA InvBoundsWork == IInv => WorkIsBounded
<1> SUFFICES ASSUME IInv
             PROVE  WorkIsBounded
  OBVIOUS
<1> DEFINE late == Cardinality({k \in DOMAIN skipped : skipped[k].reason = "oversized"})
           x == late * (plan.budget.max_file_bytes + 1)
           m == plan.budget.max_total_bytes
<1>1. late = Late(skipped)
  BY DEF Late
<1>2. x \in Nat /\ m \in Nat /\ consumed \in Nat /\ totalBytes \in Nat
  BY <1>1, Types, PlanType
<1>3. /\ totalBytes <= m /\ totalMatches <= plan.budget.max_matches
      /\ Len(skipped) <= MAX_DISCOVERY_ENTRIES + 1
      /\ ranked \in Seq(ToSet(ranked))
      /\ consumed <= (IF pc = "done" THEN m + 1 ELSE totalBytes) + x
  BY <1>1 DEF IInv, Spent
<1>4. pc \in {"scan", "read"} => Len(candidates) <= MAX_CANDIDATE_FILES
  BY DEF IInv, FoundAll
<1>5. Finished => Len(outcome.blocks) <= plan.budget.max_blocks
  <2>1. Finished => outcome = Result(ranked, skipped)
    BY DEF IInv, Reported
  <2> QED BY <1>3, <2>1, Types, BlocksCut
<1> HIDE DEF x, m
<1>6. consumed <= totalBytes + 1 + (m - totalBytes) + x
  BY <1>2, <1>3
<1> QED BY <1>3, <1>4, <1>5, <1>6 DEF WorkIsBounded, Remaining, x, m

\* The budgets hold against a tree that changes (search, read_candidate,
\* discover).
THEOREM WorkBounded == Spec => []WorkIsBounded
BY InvBoundsWork, SearchInv, PTL

\* A source that was neither scanned nor named by a gap implies a gap for
\* the budget, and with one of those the bundle is rejected.
LEMMA InvOmitsNothing == IInv => AcceptedOmitsNothing
<1> SUFFICES ASSUME IInv, Finished, Bundle.critic.verdict = "accepted",
                    NEW p \in Paths, AlwaysFile(p), p \notin scanned
             PROVE  GapsOf(p) # {}
  BY DEF AcceptedOmitsNothing, AlwaysFile
<1>1. outcome = Result(ranked, skipped) /\ (Named(p) \/ OverBudget)
  BY DEF IInv, Reported
<1>2. ~OverBudget
  <2> SUFFICES ASSUME NEW k \in DOMAIN skipped, skipped[k].reason = "budget"
               PROVE  FALSE
    BY DEF OverBudget
  <2>1. PICK g \in ToSet(outcome.skipped) : g.reason = "budget"
    BY <1>1, Types, GapsReported
  <2>2. Bundle.critic.verdict = "rejected"
    BY <2>1, BudgetRejects DEF Bundle
  <2> QED BY <2>2
<1>3. PICK k \in DOMAIN skipped : skipped[k].path = p
  BY <1>1, <1>2 DEF Named
<1>4. PICK g \in ToSet(outcome.skipped) : g.path.bytes = p
  BY <1>1, <1>3, Types, GapsReported, SMTT(30)
<1> QED BY <1>4 DEF GapsOf

\* An accepted bundle omits no source: whatever was a file all along was
\* scanned or is named by a gap (search, discover, assemble_bundle).
THEOREM OmitsNothing == Spec => []AcceptedOmitsNothing
BY InvOmitsNothing, SearchInv, PTL

(***************************************************************************)
(* A search of a tree at rest.  While nobody writes, what the walk has     *)
(* found is a function of what it has seen, and what the scan has kept of  *)
(* how far it is.                                                          *)
(***************************************************************************)

Still == \A p \in Paths : held[p] = {tree[p]}

\* s has each element of S once.
Lists(s, S) == IsInjective(s) /\ ToSet(s) = S

Sources(t, P) == {p \in P \ SecretPaths : t[p].kind = "file"}
Secrets(t, P) == {Gap(p, "secret") : p \in {q \in P \cap SecretPaths : t[q].kind = "file"}}

WalkedStill ==
  pc \in {"plan", "root", "walk"} =>
    LET seen == Paths \ unseen
    IN  /\ entries = Cardinality({p \in seen : tree[p] # Missing})
        /\ \A p \in seen : tree[p] # Missing => Depth(p) <= MAX_DISCOVERY_DEPTH
        /\ \A p \in seen : tree[p] # Unlisted
        /\ Lists(candidates, Sources(tree, seen)) /\ Lists(skipped, Secrets(tree, seen))

\* What the scan is to go through, and the gaps there are before it does.
Share == Smaller(Len(Eligible(tree)), MAX_CANDIDATE_FILES)
FirstGaps == Secrets(tree, Paths) \cup {Gap(Eligible(tree)[k], "budget") :
                                    k \in {Share + 1} \cap DOMAIN Eligible(tree)}
UpTo(k) == Sums(Given(tree), SubSeq(candidates, 1, k))
LargeGaps(k) == {Gap(candidates[j], "oversized") :
                   j \in {i \in 1 .. k : ~Fits(Given(tree), candidates[i])}}

Overflown ==
  /\ TooManyEntries(tree) /\ candidates = <<>> /\ next = 1
  /\ skipped = <<Gap(<<>>, "budget")>> /\ ranked = <<>>

Passed ==
  /\ ~TooManyEntries(tree) /\ ~CannotList(tree)
  /\ candidates = SubSeq(Eligible(tree), 1, Share)
  /\ \A k \in 1 .. next - 1 : ~Exceeds(Given(tree), UpTo(k))
  /\ UpTo(next - 1) = [bytes |-> totalBytes, matches |-> totalMatches, blocks |-> ranked]
  /\ Lists(skipped, FirstGaps \cup LargeGaps(next - 1))
  /\ pc = "read" => /\ window = {tree[Candidate].raw} /\ Fits(Given(tree), Candidate)
                    /\ Len(tree[Candidate].raw) <= Remaining

ScannedStill == pc \in {"scan", "read"} => (pc = "scan" /\ Overflown) \/ Passed

QuietInv == (Still => WalkedStill /\ ScannedStill) /\ DeterminedByTree

(***************************************************************************)
(* Listing, sorting and adding up.                                         *)
(***************************************************************************)

\* An entry more is listed once more.
LEMMA ListsMore ==
  ASSUME NEW X, NEW s \in Seq(X), NEW S, Lists(s, S), NEW x \in X, x \notin S
  PROVE  Append(s, x) \in Seq(X) /\ Lists(Append(s, x), S \cup {x})
<1> DEFINE t == Append(s, x)
           n == Len(s)
<1>1. /\ n \in Nat /\ DOMAIN s = 1 .. n
      /\ t \in Seq(X) /\ Len(t) = n + 1 /\ DOMAIN t = 1 .. n + 1
      /\ t[n + 1] = x /\ \A k \in 1 .. n : t[k] = s[k] /\ s[k] \in S
  <2>1. \A k \in DOMAIN s : s[k] \in S
    BY DEF Lists, ToSet
  <2> QED BY <2>1
<1>2. \A i \in 1 .. n + 1 : i \in 1 .. n \/ i = n + 1
  BY <1>1
<1>3. \A i, j \in 1 .. n : s[i] = s[j] => i = j
  BY <1>1 DEF Lists, IsInjective
<1> HIDE DEF t
<1>4. \A i, j \in 1 .. n + 1 : t[i] = t[j] => i = j
  BY <1>1, <1>2, <1>3
<1>5. \A y : (\E k \in 1 .. n + 1 : t[k] = y) <=> y \in S \cup {x}
  <2>1. \A y : (\E k \in 1 .. n : s[k] = y) <=> y \in S
    BY <1>1 DEF Lists, ToSet
  <2>2. n + 1 \in 1 .. n + 1 /\ 1 .. n \subseteq 1 .. n + 1
    BY <1>1
  <2> QED BY <1>1, <1>2, <2>1, <2>2
<1>6. ToSet(t) = S \cup {x}
  BY <1>1, <1>5 DEF ToSet
<1> QED BY <1>1, <1>4, <1>6 DEF Lists, IsInjective, t

\* Two lists of different things, one after the other, list all of them.
LEMMA ListsBoth ==
  ASSUME NEW X, NEW s \in Seq(X), NEW r \in Seq(X), NEW S, NEW R,
         Lists(s, S), Lists(r, R), S \cap R = {}
  PROVE  Lists(s \o r, S \cup R)
<1> DEFINE t == s \o r
           n == Len(s)
           m == Len(r)
<1>1. /\ n \in Nat /\ DOMAIN s = 1 .. n /\ m \in Nat /\ DOMAIN r = 1 .. m
      /\ Len(t) = n + m /\ DOMAIN t = 1 .. n + m
      /\ \A k \in 1 .. n : t[k] = s[k]
      /\ \A k \in 1 .. n + m : k \notin 1 .. n => t[k] = r[k - n] /\ k - n \in 1 .. m
      /\ \A k \in 1 .. m : t[n + k] = r[k] /\ n + k \in 1 .. n + m
      /\ 1 .. n \subseteq 1 .. n + m
  OBVIOUS
<1>2. \A y : (\E k \in 1 .. n : s[k] = y) <=> y \in S
  BY <1>1 DEF Lists, ToSet
<1>3. \A y : (\E k \in 1 .. m : r[k] = y) <=> y \in R
  BY <1>1 DEF Lists, ToSet
<1>4. /\ \A i, j \in 1 .. n : s[i] = s[j] => i = j
      /\ \A i, j \in 1 .. m : r[i] = r[j] => i = j
  BY <1>1 DEF Lists, IsInjective
<1> HIDE DEF t, n, m
<1>5. \A y : (\E k \in 1 .. n + m : t[k] = y) <=> y \in S \cup R
  <2>1. ASSUME NEW y, NEW k \in 1 .. n + m, t[k] = y
        PROVE  y \in S \cup R
    BY <1>1, <1>2, <1>3, <2>1
  <2>2. ASSUME NEW y \in S
        PROVE  \E k \in 1 .. n + m : t[k] = y
    BY <1>1, <1>2
  <2>3. ASSUME NEW y \in R
        PROVE  \E k \in 1 .. n + m : t[k] = y
    BY <1>1, <1>3
  <2> QED BY <2>1, <2>2, <2>3
<1>6. ASSUME NEW i \in 1 .. n + m, NEW j \in 1 .. n + m, t[i] = t[j]
      PROVE  i = j
  <2>1. i \in 1 .. n => t[i] \in S
    BY <1>1, <1>2
  <2>2. i \notin 1 .. n => t[i] \in R
    BY <1>1, <1>3
  <2>3. j \in 1 .. n => t[j] \in S
    BY <1>1, <1>2
  <2>4. j \notin 1 .. n => t[j] \in R
    BY <1>1, <1>3
  <2>5. CASE i \in 1 .. n /\ j \in 1 .. n
    BY <1>1, <1>4, <1>6, <2>5
  <2>6. CASE i \notin 1 .. n /\ j \notin 1 .. n
    <3>1. r[i - n] = r[j - n] /\ i - n \in 1 .. m /\ j - n \in 1 .. m
      BY <1>1, <1>6, <2>6
    <3>2. i - n = j - n
      BY <1>4, <3>1
    <3> QED BY <1>1, <3>2
  <2> QED BY <1>6, <2>1, <2>2, <2>3, <2>4, <2>5, <2>6
<1>7. ToSet(t) = S \cup R
  BY <1>1, <1>5 DEF ToSet
<1> QED BY <1>1, <1>6, <1>7 DEF Lists, IsInjective, t

\* An empty list lists nothing.
LEMMA ListsNothing == Lists(<<>>, {})
BY DEF Lists, IsInjective, ToSet

\* What a list sorts to depends on what it lists: the sorted paths are those
\* of the set, in order.
LEMMA PathsInOrder ==
  ASSUME NEW P \in SUBSET Paths, NEW s \in Seq(P), Lists(s, P)
  PROVE  /\ PathOrder!Sorted(s) = InOrder(P)
         /\ InOrder(P) \in Seq(P) /\ Lists(InOrder(P), P)
<1>1. P \in SUBSET ByteString
  BY PathsAssumption DEF ByteString
<1>2. StrictWeakOrder(PathPairs(P), P)
  BY <1>1, PathsOrdered
<1>3. \A x, y \in P : x # y => BytesBefore(x, y) \/ BytesBefore(y, x)
  BY <1>1, BytesOrdered
<1>4. \A i, j \in DOMAIN s : s[i] = s[j] => i = j
  BY DEF Lists, IsInjective
<1>5. \A p \in P : \E i \in DOMAIN s : s[i] = p
  BY DEF Lists, ToSet
<1> DEFINE R == PathPairs(P)
<1>6. /\ SortedBy(R, s) = Ranked(R, P)
      /\ \A k \in 1 .. Len(s) : Below(R, P, Ranked(R, P)[k]) = k - 1
  <2>1. \A p, q \in P : p # q => Precedes(R, p, q) \/ Precedes(R, q, p)
    BY <1>3 DEF Precedes, PathPairs
  <2> HIDE DEF R
  <2>2. StrictWeakOrder(R, P)
    BY <1>2 DEF R
  <2> QED BY <1>4, <1>5, <2>1, <2>2, SortedIsRanked
<1>7. PathOrder!Sorted(s) = SortedBy(R, s)
  BY PathsSortedBy
<1>8. PathOrder!Sorted(s) = InOrder(P)
  <2>1. \A p, q \in P : Precedes(R, q, p) <=> BytesBefore(q, p)
    BY DEF Precedes, PathPairs
  <2> HIDE DEF R
  <2>2. \A p \in P : {q \in P : Precedes(R, q, p)} = {q \in P : BytesBefore(q, p)}
    BY <2>1
  <2>3. \A k : \A p \in P : Below(R, P, p) = k - 1
                         <=> Cardinality({q \in P : BytesBefore(q, p)}) = k - 1
    BY <2>2 DEF Below
  <2>4. \A k : (CHOOSE p \in P : Below(R, P, p) = k - 1)
              = CHOOSE p \in P : Cardinality({q \in P : BytesBefore(q, p)}) = k - 1
    BY <2>3
  <2>5. Ranked(R, P) = InOrder(P)
    <3> DEFINE C == Cardinality(P)
               f(k) == CHOOSE p \in P : Below(R, P, p) = k - 1
               g(k) == CHOOSE p \in P : Cardinality({q \in P : BytesBefore(q, p)}) = k - 1
    <3>1. \A k \in 1 .. C : f(k) = g(k)
      BY <2>4
    <3>2. Ranked(R, P) = [k \in 1 .. C |-> f(k)] /\ InOrder(P) = [k \in 1 .. C |-> g(k)]
      BY Zenon DEF Ranked, InOrder
    <3> HIDE DEF C, f, g
    <3>3. [k \in 1 .. C |-> f(k)] = [k \in 1 .. C |-> g(k)]
      BY <3>1
    <3> QED BY <3>2, <3>3
  <2> QED BY <1>6, <1>7, <2>5
<1> DEFINE e == InOrder(P)
<1>9. e \in Seq(P) /\ Len(e) = Len(s) /\ ToSet(e) = P
  BY <1>8, CandidatesSorted DEF Lists
<1>10. \A k \in 1 .. Len(e) : Below(R, P, e[k]) = k - 1
  BY <1>6, <1>7, <1>8, <1>9
<1> HIDE DEF e, R
<1>11. IsInjective(e)
  <2>1. ASSUME NEW i \in DOMAIN e, NEW j \in DOMAIN e, e[i] = e[j]
        PROVE  i = j
    <3>1. i \in 1 .. Len(e) /\ j \in 1 .. Len(e) /\ Len(e) \in Nat
      BY <1>9
    <3>2. i - 1 = j - 1
      BY <1>10, <2>1, <3>1
    <3> QED BY <3>1, <3>2
  <2> QED BY <2>1 DEF IsInjective
<1> QED BY <1>8, <1>9, <1>11 DEF e, Lists

\* So it is for the sources of a tree (discover).
LEMMA EligibleListed ==
  /\ Eligible(tree) \in Seq(Sources(tree, Paths))
  /\ Lists(Eligible(tree), Sources(tree, Paths))
<1> DEFINE P == Sources(tree, Paths)
<1>1. P \in SUBSET Paths
  BY DEF Sources
<1>2. IsFiniteSet(P) /\ Cardinality(P) \in Nat /\ ExistsBijection(1 .. Cardinality(P), P)
  BY <1>1, PathsAssumption, FS_Subset, FS_CardinalityType
<1>3. PICK s : s \in Bijection(1 .. Cardinality(P), P)
  BY <1>2 DEF ExistsBijection
<1>4. /\ s \in [1 .. Cardinality(P) -> P]
      /\ \A i, j \in 1 .. Cardinality(P) : s[i] = s[j] => i = j
      /\ \A p \in P : \E i \in 1 .. Cardinality(P) : s[i] = p
  BY <1>3 DEF Bijection, Injection, Surjection, IsInjective
<1> HIDE DEF P
<1>5. s \in Seq(P) /\ DOMAIN s = 1 .. Cardinality(P)
  BY <1>2, <1>4
<1>6. Lists(s, P)
  BY <1>4, <1>5 DEF Lists, IsInjective, ToSet
<1>7. InOrder(P) \in Seq(P) /\ Lists(InOrder(P), P)
  BY <1>1, <1>5, <1>6, PathsInOrder
<1>8. Eligible(tree) = InOrder(P)
  BY DEF Eligible, P, Sources
<1> QED BY <1>7, <1>8 DEF P

\* The set of what is listed, enumerated.
LEMMA ListedSet ==
  ASSUME NEW X, NEW s \in Seq(X), NEW S, Lists(s, S)
  PROVE  SetToSeq(S) \in Seq(S) /\ Lists(SetToSeq(S), S)
<1> DEFINE n == Len(s)
           f == SetToSeq(S)
<1>1. /\ n \in Nat /\ DOMAIN s = 1 .. n
      /\ \A y : (\E k \in 1 .. n : s[k] = y) <=> y \in S
      /\ \A i, j \in 1 .. n : s[i] = s[j] => i = j
  BY DEF Lists, IsInjective, ToSet
<1>2. IsFiniteSet(1 .. n) /\ Cardinality(1 .. n) = n
  <2>1. IsFiniteSet(1 .. n) /\ Cardinality(1 .. n) = IF 1 > n THEN 0 ELSE n - 1 + 1
    BY <1>1, FS_Interval, SMTT(30)
  <2> QED BY <1>1, <2>1
<1> HIDE DEF n
<1>3. s \in [1 .. n -> S]
  <2>1. s = [k \in 1 .. n |-> s[k]]
    BY <1>1
  <2>2. \A k \in 1 .. n : s[k] \in S
    BY <1>1
  <2> QED BY <2>1, <2>2
<1>4. IsFiniteSet(S) /\ Cardinality(S) = n
  <2>1. s \in Injection(1 .. n, S)
    BY <1>1, <1>3, Fun_IsInj
  <2>2. s \in Surjection(1 .. n, S)
    BY <1>1, <1>3 DEF Surjection
  <2> QED BY <1>2, <2>1, <2>2, FS_Surjection
<1>5. f \in [1 .. n -> S] /\ IsInjective(f)
  <2>1. IsInjective(s)
    BY DEF Lists
  <2> QED BY <1>3, <1>4, <2>1 DEF SetToSeq
<1> HIDE DEF f
<1>6. f \in Injection(1 .. n, S)
  BY <1>5, Fun_IsInj DEF IsInjective
<1>7. f \in Surjection(1 .. n, S)
  BY <1>2, <1>4, <1>6, FS_Injection
<1>8. ToSet(f) = S
  BY <1>5, <1>7 DEF ToSet, Surjection
<1>9. f \in Seq(S)
  BY <1>1, <1>5
<1> QED BY <1>5, <1>8, <1>9 DEF f, Lists

\* A gap as a bundle shows it.
Shown(gap) == [path |-> Encoded(gap.path), reason |-> gap.reason]
ShownGaps(S) == {Shown(gap) : gap \in S}

\* Gaps that are shown alike are the same, and any two are told apart when
\* they are sorted.
LEMMA ShownApart ==
  ASSUME NEW S \in SUBSET GapType
  PROVE  /\ StrictWeakOrder(GapPairs(ShownGaps(S)), ShownGaps(S))
         /\ \A x, y \in ShownGaps(S) : x # y => SkipBefore(x, y) \/ SkipBefore(y, x)
         /\ \A g, h \in S : Shown(g) = Shown(h) => g = h
<1>1. ASSUME NEW x \in ShownGaps(S)
      PROVE  /\ x.path.bytes \in ByteString /\ x.path = Encoded(x.path.bytes)
             /\ x = [path |-> x.path, reason |-> x.reason]
             /\ x.reason \in ToSet(SkipReasons)
  <2>1. PICK gap \in S : x = Shown(gap)
    BY DEF ShownGaps
  <2>2. gap.path \in ByteString /\ gap.reason \in ToSet(SkipReasons)
    BY PathsAssumption, EmptySeq DEF GapType, ByteString
  <2>3. x.path = Encoded(gap.path) /\ x.reason = gap.reason /\ Encoded(gap.path).bytes = gap.path
    BY <2>1 DEF Shown, Encoded
  <2>4. x = [path |-> x.path, reason |-> x.reason]
    BY <2>1 DEF Shown
  <2> QED BY <2>2, <2>3, <2>4
<1>2. \A r \in ToSet(SkipReasons) :
        ReasonOrder(r) \in DOMAIN SkipReasons /\ SkipReasons[ReasonOrder(r)] = r
  <2> TAKE r \in ToSet(SkipReasons)
  <2>1. \E k \in DOMAIN SkipReasons : SkipReasons[k] = r
    BY DEF ToSet
  <2> HIDE DEF SkipReasons
  <2> QED BY <2>1 DEF ReasonOrder
<1>3. \A r \in ToSet(SkipReasons) : ReasonOrder(r) \in Nat
  BY ReasonOrderType
<1>4. StrictWeakOrder(GapPairs(ShownGaps(S)), ShownGaps(S))
  BY <1>1, <1>3, GapsOrdered
<1>5. ASSUME NEW x \in ShownGaps(S), NEW y \in ShownGaps(S), x # y
      PROVE  SkipBefore(x, y) \/ SkipBefore(y, x)
  <2>1. CASE x.path.bytes # y.path.bytes
    BY <1>1, <2>1, BytesOrdered DEF SkipBefore
  <2>2. CASE x.path.bytes = y.path.bytes
    <3>1. x.reason # y.reason
      BY <1>1, <1>5, <2>2
    <3>2. ReasonOrder(x.reason) # ReasonOrder(y.reason)
      BY <1>1, <1>2, <3>1
    <3>3. ReasonOrder(x.reason) \in Nat /\ ReasonOrder(y.reason) \in Nat
      BY <1>1, <1>3
    <3>4. \/ ReasonOrder(x.reason) < ReasonOrder(y.reason)
          \/ ReasonOrder(y.reason) < ReasonOrder(x.reason)
      BY <3>2, <3>3
    <3> QED BY <2>2, <3>4 DEF SkipBefore
  <2> QED BY <2>1, <2>2
<1>6. ASSUME NEW g \in S, NEW h \in S, Shown(g) = Shown(h)
      PROVE  g = h
  <2>1. g = [path |-> g.path, reason |-> g.reason] /\ h = [path |-> h.path, reason |-> h.reason]
    BY DEF GapType
  <2>2. Shown(g).path.bytes = g.path /\ Shown(g).reason = g.reason
    BY DEF Shown, Encoded
  <2>3. Shown(h).path.bytes = h.path /\ Shown(h).reason = h.reason
    BY DEF Shown, Encoded
  <2> QED BY <1>6, <2>1, <2>2, <2>3
<1> QED BY <1>4, <1>5, <1>6

\* The gaps of a result depend on which gaps there are, not on the order they
\* were found in (search, sort_skips).
LEMMA GapsRanked ==
  ASSUME NEW blocks, NEW gaps \in Seq(GapType), NEW S, Lists(gaps, S)
  PROVE  Result(blocks, gaps).skipped = Ranked(GapPairs(ShownGaps(S)), ShownGaps(S))
<1> DEFINE Z == ShownGaps(S)
           shown == [k \in DOMAIN gaps |-> [path   |-> Encoded(gaps[k].path),
                                            reason |-> gaps[k].reason]]
<1>1. /\ Len(gaps) \in Nat /\ DOMAIN gaps = 1 .. Len(gaps)
      /\ \A k \in DOMAIN gaps : gaps[k] \in GapType
  OBVIOUS
<1>2. /\ \A k \in DOMAIN gaps : gaps[k] \in S
      /\ \A g \in S : \E k \in DOMAIN gaps : gaps[k] = g
      /\ \A i, j \in DOMAIN gaps : gaps[i] = gaps[j] => i = j
  BY DEF Lists, IsInjective, ToSet
<1>3. S \in SUBSET GapType
  BY <1>1, <1>2
<1>4. /\ StrictWeakOrder(GapPairs(Z), Z)
      /\ \A x, y \in Z : x # y => SkipBefore(x, y) \/ SkipBefore(y, x)
      /\ \A g, h \in S : Shown(g) = Shown(h) => g = h
  BY <1>3, ShownApart
<1>5. shown = [k \in DOMAIN gaps |-> Shown(gaps[k])]
  BY DEF Shown
<1>6. Result(blocks, gaps).skipped = GapOrder!Sorted(shown)
  BY DEF Result
<1> HIDE DEF shown
<1>7. /\ DOMAIN shown = DOMAIN gaps
      /\ \A k \in DOMAIN gaps : shown[k] = Shown(gaps[k]) /\ shown[k] \in Z
  BY <1>2, <1>5 DEF ShownGaps
<1> HIDE DEF Z
<1>8. shown \in Seq(Z)
  BY <1>1, <1>5, <1>7
<1>9. \A i, j \in DOMAIN shown : shown[i] = shown[j] => i = j
  BY <1>2, <1>4, <1>7
<1>10. \A x \in Z : \E i \in DOMAIN shown : shown[i] = x
  BY <1>2, <1>7 DEF Z, ShownGaps
<1>11. SortedBy(GapPairs(Z), shown) = Ranked(GapPairs(Z), Z)
  <2>1. \A x, y \in Z : x # y => Precedes(GapPairs(Z), x, y) \/ Precedes(GapPairs(Z), y, x)
    BY <1>4 DEF Precedes, GapPairs
  <2> QED BY <1>4, <1>8, <1>9, <1>10, <2>1, SortedIsRanked
<1>12. GapOrder!Sorted(shown) = SortedBy(GapPairs(Z), shown)
  BY <1>8, GapsSortedBy
<1> QED BY <1>6, <1>11, <1>12 DEF Z

LEMMA ResultOfSet ==
  ASSUME NEW blocks, NEW gaps \in Seq(GapType), NEW S, Lists(gaps, S)
  PROVE  Result(blocks, gaps) = Result(blocks, SetToSeq(S))
<1>1. S \in SUBSET GapType
  BY DEF Lists, ToSet
<1>2. SetToSeq(S) \in Seq(S) /\ Lists(SetToSeq(S), S)
  BY ListedSet
<1>3. SetToSeq(S) \in Seq(GapType)
  BY <1>1, <1>2
<1>4. Result(blocks, gaps).skipped = Result(blocks, SetToSeq(S)).skipped
  BY <1>2, <1>3, GapsRanked
<1>5. Result(blocks, gaps).blocks = Result(blocks, SetToSeq(S)).blocks
  BY DEF Result
<1>6. \A g : Result(blocks, g) = [kind    |-> "result", blocks |-> Result(blocks, g).blocks,
                                  skipped |-> Result(blocks, g).skipped]
  BY DEF Result
<1> QED BY <1>4, <1>5, <1>6

(***************************************************************************)
(* Sums.                                                                   *)
(***************************************************************************)

NoSum(given) == [bytes |-> 0, matches |-> 0, blocks |-> <<>>]
AddFile(given, sum, p) ==
  IF Fits(given, p)
  THEN LET raw == given.tree[p].raw
       IN  [bytes   |-> sum.bytes + Len(raw),
            matches |-> sum.matches + file_matches(given.plan, ParseLines(raw)),
            blocks  |-> sum.blocks \o blocks_for_file(given.plan, p, raw)]
  ELSE sum

Summed == INSTANCE Folding WITH Start <- NoSum, Step <- AddFile

\* One source more adds to the sums if it fits.
LEMMA SumsGrow ==
  ASSUME NEW given, NEW s \in Seq(Paths), NEW k \in 1 .. Len(s)
  PROVE  Sums(given, SubSeq(s, 1, k)) = AddFile(given, Sums(given, SubSeq(s, 1, k - 1)), s[k])
<1>1. \A r : Sums(given, r) = Summed!Fold(given, r)
  BY DEF Sums, FoldLeft, MapThenFoldSet, Max, NoSum, AddFile,
         Summed!Fold, Summed!FoldLeft, Summed!MapThenFoldSet, Summed!Max
<1>2. /\ SubSeq(s, 1, k - 1) \in Seq(Paths) /\ s[k] \in Paths
      /\ SubSeq(s, 1, k) = Append(SubSeq(s, 1, k - 1), s[k])
  OBVIOUS
<1>3. Summed!Fold(given, Append(SubSeq(s, 1, k - 1), s[k]))
        = AddFile(given, Summed!Fold(given, SubSeq(s, 1, k - 1)), s[k])
  BY <1>2, Summed!FoldAppend, ZenonT(40)
<1> QED BY <1>1, <1>2, <1>3

\* Nothing adds up to nothing.
LEMMA SumsBegin ==
  ASSUME NEW given, NEW s \in Seq(Paths)
  PROVE  SubSeq(s, 1, 0) = <<>> /\ Sums(given, <<>>) = NoSum(given)
<1>1. \A r : Sums(given, r) = Summed!Fold(given, r)
  BY DEF Sums, FoldLeft, MapThenFoldSet, Max, NoSum, AddFile,
         Summed!Fold, Summed!FoldLeft, Summed!MapThenFoldSet, Summed!Max
<1> DEFINE nothing == <<>>
<1>2. nothing \in Seq(Paths) /\ Len(nothing) = 0 /\ SubSeq(s, 1, 0) = nothing
  OBVIOUS
<1> HIDE DEF nothing
<1>3. PICK trace : Summed!IsTrace(given, nothing, trace)
                     /\ Summed!Fold(given, nothing) = trace[Len(nothing)]
  BY <1>2, Summed!FoldHasTrace
<1>4. trace[0] = NoSum(given)
  BY <1>3 DEF Summed!IsTrace
<1> QED BY <1>1, <1>2, <1>3, <1>4 DEF nothing

(***************************************************************************)
(* What a search of a tree at rest answers.                                *)
(***************************************************************************)

\* The sources scanned are some of the eligible, each once.
LEMMA ShareListed ==
  LET e == Eligible(tree)
  IN  /\ Share \in Nat /\ Share <= Len(e)
      /\ SubSeq(e, 1, Share) \in Seq(Sources(tree, Paths)) /\ Len(SubSeq(e, 1, Share)) = Share
      /\ \A k \in 1 .. Share : SubSeq(e, 1, Share)[k] = e[k] /\ e[k] \in Sources(tree, Paths)
      /\ \A j, k \in 1 .. Len(e) : e[j] = e[k] => j = k
<1> DEFINE e == Eligible(tree)
<1>1. e \in Seq(Sources(tree, Paths)) /\ Lists(e, Sources(tree, Paths))
  BY EligibleListed
<1> HIDE DEF e
<1>2. Len(e) \in Nat /\ DOMAIN e = 1 .. Len(e) /\ \A k \in 1 .. Len(e) : e[k] \in Sources(tree, Paths)
  BY <1>1
<1>3. Share \in Nat /\ Share <= Len(e)
  BY <1>2, LimitsType DEF Share, Smaller, e
<1>4. \A k \in 1 .. Share : k \in 1 .. Len(e)
  BY <1>2, <1>3
<1>5. \A j, k \in 1 .. Len(e) : e[j] = e[k] => j = k
  BY <1>1, <1>2 DEF Lists, IsInjective
<1>6. SubSeq(e, 1, Share) \in Seq(Sources(tree, Paths)) /\ Len(SubSeq(e, 1, Share)) = Share
      /\ \A k \in 1 .. Share : SubSeq(e, 1, Share)[k] = e[k]
  BY <1>1, <1>2, <1>3, <1>4
<1> QED BY <1>2, <1>3, <1>4, <1>5, <1>6 DEF e

BudgetGaps(k) == {Gap(candidates[j], "budget") : j \in k .. Len(candidates)}

\* The scan that stops where a budget is first exceeded, or at the end.
LEMMA QuietStops ==
  ASSUME ~TooManyEntries(tree), candidates = SubSeq(Eligible(tree), 1, Share),
         NEW m \in 0 .. Len(candidates),
         \A k \in 1 .. m : ~Exceeds(Given(tree), UpTo(k)),
         m < Len(candidates) => Exceeds(Given(tree), UpTo(m + 1)),
         NEW gaps \in Seq(GapType),
         Lists(gaps, (FirstGaps \cup LargeGaps(m)) \cup BudgetGaps(m + 1))
  PROVE  QuietResult(tree) = Result(UpTo(m).blocks, gaps)
<1> DEFINE g == Given(tree)
           n == Len(candidates)
           over == {k \in 1 .. n : Exceeds(g, Sums(g, SubSeq(candidates, 1, k)))}
           reached == {k \in 1 .. n : \A o \in over : k < o}
           large == {k \in reached : ~Fits(g, candidates[k])}
           all == FirstGaps \cup {Gap(candidates[k], "oversized") : k \in large}
                    \cup {Gap(candidates[k], "budget") : k \in (1 .. n) \ reached}
<1>1. n \in Nat /\ m \in Nat /\ m <= n
  BY ShareListed
<1>2. \A k \in 1 .. n : k \in over <=> Exceeds(g, UpTo(k))
  BY DEF UpTo
<1>3. over \subseteq 1 .. n
  OBVIOUS
<1> HIDE DEF over, n
<1>4. \A o \in over : m < o
  <2> SUFFICES ASSUME NEW o \in over, ~(m < o)
               PROVE  FALSE
    OBVIOUS
  <2>1. o \in 1 .. m
    BY <1>1, <1>3
  <2> QED BY <1>2, <1>3, <2>1
<1>5. m < n => m + 1 \in over
  <2>1. m < n => m + 1 \in 1 .. n
    BY <1>1
  <2> QED BY <1>2, <2>1 DEF n
<1>6. reached = 1 .. m
  <2>1. ASSUME NEW k \in 1 .. n, \A o \in over : k < o
        PROVE  k \in 1 .. m
    BY <1>1, <1>5, <2>1
  <2>2. ASSUME NEW k \in 1 .. m
        PROVE  k \in 1 .. n /\ \A o \in over : k < o
    <3>1. \A o \in over : o \in Int /\ m < o
      BY <1>1, <1>3, <1>4
    <3> QED BY <1>1, <3>1
  <2> QED BY <2>1, <2>2
<1>7. Cardinality(reached) = m
  <2>1. Cardinality(1 .. m) = IF 1 > m THEN 0 ELSE m - 1 + 1
    BY <1>1, FS_Interval
  <2>2. Cardinality(1 .. m) = m
    BY <1>1, <2>1
  <2> HIDE DEF reached
  <2> QED BY <1>6, <2>2
<1>8. (1 .. n) \ reached = m + 1 .. n
  BY <1>1, <1>6
<1> DEFINE eligible == Eligible(tree)
           gaps0 == {Gap(p, "secret") : p \in {q \in SecretPaths : tree[q].kind = "file"}}
                      \cup {Gap(eligible[k], "budget") : k \in {Share + 1} \cap DOMAIN eligible}
<1>9. QuietResult(tree) = QuietScan(g, SubSeq(eligible, 1, Share), gaps0)
  BY DEF QuietResult, Share
<1>10. gaps0 = FirstGaps
  <2>1. {q \in SecretPaths : tree[q].kind = "file"} = {q \in Paths \cap SecretPaths : tree[q].kind = "file"}
    BY PathsAssumption
  <2> QED BY <2>1 DEF FirstGaps, Secrets
<1> HIDE DEF gaps0, eligible
<1>11. QuietResult(tree) = QuietScan(g, candidates, FirstGaps)
  BY <1>9, <1>10 DEF eligible
<1>12. QuietScan(g, candidates, FirstGaps)
         = Result(Sums(g, SubSeq(candidates, 1, Cardinality(reached))).blocks, SetToSeq(all))
  BY DEF QuietScan, over, n
<1>13. all = (FirstGaps \cup LargeGaps(m)) \cup BudgetGaps(m + 1)
  <2>1. large = {i \in 1 .. m : ~Fits(g, candidates[i])}
    BY <1>6
  <2>2. {Gap(candidates[k], "oversized") : k \in large} = LargeGaps(m)
    BY <2>1 DEF LargeGaps
  <2>3. {Gap(candidates[k], "budget") : k \in (1 .. n) \ reached} = BudgetGaps(m + 1)
    BY <1>8 DEF BudgetGaps, n
  <2> QED BY <2>2, <2>3
<1> HIDE DEF reached, all, g
<1>14. Result(UpTo(m).blocks, gaps) = Result(UpTo(m).blocks, SetToSeq(all))
  <2>1. Lists(gaps, all)
    BY <1>13
  <2> QED BY <2>1, ResultOfSet
<1>15. UpTo(m) = Sums(g, SubSeq(candidates, 1, m))
  BY DEF UpTo, g
<1> QED BY <1>7, <1>11, <1>12, <1>14, <1>15

\* Nothing that a result is made of changes in a step of the search.
LEMMA SameAnswer ==
  ASSUME UNCHANGED <<tree, plan>>
  PROVE  /\ QuietResult(tree)' = QuietResult(tree)
         /\ \A blocks, gaps : Result(blocks, gaps)' = Result(blocks, gaps)
         /\ TooManyEntries(tree)' <=> TooManyEntries(tree)
         /\ CannotList(tree)' <=> CannotList(tree)
         /\ Given(tree)' = Given(tree) /\ FirstGaps' = FirstGaps /\ Share' = Share
<1>1. \A blocks, gaps : Result(blocks, gaps)' = Result(blocks, gaps)
  BY DEF Result
<1>2. Given(tree)' = Given(tree)
  BY DEF Given
<1>3. QuietResult(tree)' = QuietResult(tree)
  BY DEF QuietResult, QuietScan, Result, Given
<1>4. FirstGaps' = FirstGaps /\ Share' = Share
  BY DEF FirstGaps, Secrets, Share
<1> QED BY <1>1, <1>2, <1>3, <1>4

(***************************************************************************)
(* The steps of a quiet search.                                            *)
(***************************************************************************)

\* Before the search is over, nothing is to be shown of its outcome.
LEMMA NotOver == pc # "done" => DeterminedByTree
BY DEF DeterminedByTree, Undisturbed

\* What is left to show of a step that ends the search.
LEMMA OverNow ==
  ASSUME QuietInv, UNCHANGED <<tree, held, plan>>, pc' = "done",
         Still => /\ CannotList(tree) \/ outcome' = QuietResult(tree)
                  /\ CannotList(tree) /\ ~TooManyEntries(tree) => outcome' = Failed("walk")
  PROVE  QuietInv'
<1>1. Still' => Still
  BY DEF Still
<1>2. WalkedStill' /\ ScannedStill'
  BY DEF WalkedStill, ScannedStill
<1>3. Undisturbed' => Still'
  BY DEF Undisturbed, Still
<1>4. DeterminedByTree'
  <2> SUFFICES ASSUME Undisturbed'
               PROVE  /\ CannotList(tree)' \/ outcome' = QuietResult(tree)'
                      /\ CannotList(tree)' /\ ~TooManyEntries(tree)' => outcome' = Failed("walk")
    BY DEF DeterminedByTree
  <2> QED BY <1>1, <1>3, SameAnswer
<1> QED BY <1>2, <1>4 DEF QuietInv

\* A search that fails for another reason than its tree is not looked at.
LEMMA FailsElsewhere ==
  ASSUME QuietInv, UNCHANGED <<tree, held, plan>>, pc' = "done",
         NEW error, outcome' = Failed(error),
         \/ error \in {"root_symlink", "unsafe_path", "root_open", "file_io"}
         \/ plan.schema_version # SchemaVersion \/ ~ValidLimits(plan)
  PROVE  QuietInv'
<1>1. ~Undisturbed'
  <2>1. \A e \in {"root_symlink", "unsafe_path", "root_open", "file_io"} :
          Failed(e) \in {Failed(f) : f \in {"root_symlink", "unsafe_path", "root_open", "file_io"}}
    OBVIOUS
  <2>2. ValidLimits(plan)' <=> ValidLimits(plan)
    OBVIOUS
  <2> QED BY <2>1, <2>2 DEF Undisturbed
<1>2. WalkedStill' /\ ScannedStill'
  BY DEF WalkedStill, ScannedStill
<1> QED BY <1>1, <1>2 DEF QuietInv, DeterminedByTree

\* A search that has not begun has seen nothing.
LEMMA InitQuiet == Init => QuietInv
<1> SUFFICES ASSUME Init
             PROVE  QuietInv
  OBVIOUS
<1>1. /\ pc = "plan" /\ Paths \ unseen = {} /\ entries = 0 /\ candidates = <<>> /\ skipped = <<>>
  BY DEF Init
<1>2. WalkedStill
  <2>1. Sources(tree, {}) = {} /\ Secrets(tree, {}) = {}
    BY DEF Sources, Secrets
  <2>2. {p \in {} : tree[p] # Missing} = {}
    OBVIOUS
  <2>3. Cardinality({}) = 0
    BY FS_EmptySet
  <2> QED BY <1>1, <2>1, <2>2, <2>3, ListsNothing DEF WalkedStill
<1> QED BY <1>1, <1>2, NotOver DEF QuietInv, ScannedStill

\* Entering the walk changes nothing of it.
LEMMA EnteringQuiet ==
  ASSUME QuietInv, AdmitPlan \/ OpenRoot
  PROVE  QuietInv'
<1>1. /\ pc \in {"plan", "root"} /\ pc' \in {"root", "walk"}
      /\ UNCHANGED <<plan, unseen, entries, candidates, skipped, tree, held>>
  BY DEF AdmitPlan, OpenRoot, Control, discovery, totals, environment, history
<1>2. Still' => Still
  BY <1>1 DEF Still
<1>3. WalkedStill => WalkedStill'
  BY <1>1 DEF WalkedStill, Sources, Secrets
<1>4. ScannedStill' /\ DeterminedByTree'
  BY <1>1 DEF ScannedStill, DeterminedByTree, Undisturbed
<1> QED BY <1>2, <1>3, <1>4 DEF QuietInv

\* What the walker has seen once it has looked at p.
LEMMA SeenMore ==
  ASSUME NEW p \in Paths, unseen \subseteq Paths, p \in unseen, unseen' = unseen \ {p},
         UNCHANGED tree
  PROVE  LET seen == Paths \ unseen
             now  == Paths \ unseen'
         IN  /\ now = seen \cup {p} /\ p \notin seen
             /\ Sources(tree, now) = IF tree[p].kind = "file" /\ p \notin SecretPaths
                                THEN Sources(tree, seen) \cup {p} ELSE Sources(tree, seen)
             /\ Secrets(tree, now) = IF tree[p].kind = "file" /\ p \in SecretPaths
                                THEN Secrets(tree, seen) \cup {Gap(p, "secret")} ELSE Secrets(tree, seen)
             /\ IsFiniteSet({q \in seen : tree[q] # Missing})
             /\ Cardinality({q \in now : tree[q] # Missing})
                  = IF tree[p] # Missing THEN Cardinality({q \in seen : tree[q] # Missing}) + 1
                                         ELSE Cardinality({q \in seen : tree[q] # Missing})
<1> DEFINE seen == Paths \ unseen
           now == Paths \ unseen'
           there(P) == {q \in P : tree[q] # Missing}
<1>1. now = seen \cup {p} /\ p \notin seen
  OBVIOUS
<1> HIDE DEF seen, now
<1>2. Sources(tree, now) = IF tree[p].kind = "file" /\ p \notin SecretPaths
                      THEN Sources(tree, seen) \cup {p} ELSE Sources(tree, seen)
  BY <1>1 DEF Sources, seen, now
<1>3. Secrets(tree, now) = IF tree[p].kind = "file" /\ p \in SecretPaths
                      THEN Secrets(tree, seen) \cup {Gap(p, "secret")} ELSE Secrets(tree, seen)
  <2> DEFINE of(P) == {q \in P \cap SecretPaths : tree[q].kind = "file"}
  <2>1. of(now) = IF tree[p].kind = "file" /\ p \in SecretPaths THEN of(seen) \cup {p} ELSE of(seen)
    BY <1>1
  <2>2. Secrets(tree, now) = {Gap(q, "secret") : q \in of(now)}
    BY DEF Secrets, now
  <2>3. Secrets(tree, seen) = {Gap(q, "secret") : q \in of(seen)}
    BY DEF Secrets
  <2> HIDE DEF of
  <2> QED BY <2>1, <2>2, <2>3
<1>4. IsFiniteSet(there(seen))
  <2>1. there(seen) \in SUBSET Paths
    BY DEF seen
  <2> QED BY <2>1, PathsAssumption, FS_Subset
<1>5. there(now) = IF tree[p] # Missing THEN there(seen) \cup {p} ELSE there(seen)
  BY <1>1
<1>6. p \notin there(seen)
  BY <1>1
<1>7. Cardinality(there(now))
        = IF tree[p] # Missing THEN Cardinality(there(seen)) + 1 ELSE Cardinality(there(seen))
  <2> HIDE DEF there
  <2> QED BY <1>4, <1>5, <1>6, FS_AddElement
<1> QED BY <1>1, <1>2, <1>3, <1>4, <1>7 DEF seen, now

\* What an empty place adds is nothing.
LEMMA PastQuiet ==
  ASSUME IInv, QuietInv, NEW p \in Paths, WalkPast(p)
  PROVE  QuietInv'
<1>1. /\ pc = "walk" /\ tree[p] = Missing /\ p \in unseen /\ unseen' = unseen \ {p}
      /\ UNCHANGED <<plan, pc, entries, candidates, skipped, tree, held>>
  BY DEF WalkPast, Walking, Control, totals, environment, history
<1>2. Still' => Still
  BY <1>1 DEF Still
<1>3. unseen \subseteq Paths
  BY DEF IInv, TypeOK
<1>4. tree[p].kind # "file"
  BY <1>1 DEF Missing, Node
<1> DEFINE seen == Paths \ unseen
           now  == Paths \ unseen'
<1>5. /\ now = seen \cup {p}
      /\ Sources(tree, now) = Sources(tree, seen) /\ Secrets(tree, now) = Secrets(tree, seen)
      /\ Cardinality({q \in now : tree[q] # Missing}) = Cardinality({q \in seen : tree[q] # Missing})
  BY <1>1, <1>3, <1>4, SeenMore
<1>6. tree[p] # Unlisted
  BY <1>1 DEF Missing, Unlisted, Node
<1>7. WalkedStill => WalkedStill'
  <2> SUFFICES ASSUME WalkedStill
               PROVE  WalkedStill'
    OBVIOUS
  <2>1. /\ entries = Cardinality({q \in seen : tree[q] # Missing})
        /\ \A q \in seen : tree[q] # Missing => Depth(q) <= MAX_DISCOVERY_DEPTH
        /\ \A q \in seen : tree[q] # Unlisted
        /\ Lists(candidates, Sources(tree, seen)) /\ Lists(skipped, Secrets(tree, seen))
    BY <1>1 DEF WalkedStill
  <2> HIDE DEF seen, now
  <2>2. /\ entries' = Cardinality({q \in now : tree'[q] # Missing})
        /\ \A q \in now : tree'[q] # Missing => Depth(q) <= MAX_DISCOVERY_DEPTH
        /\ \A q \in now : tree'[q] # Unlisted
        /\ Lists(candidates', Sources(tree', now)) /\ Lists(skipped', Secrets(tree', now))
    BY <1>1, <1>5, <1>6, <2>1
  <2> QED BY <2>2 DEF WalkedStill, now
<1>8. ScannedStill' /\ DeterminedByTree'
  BY <1>1 DEF ScannedStill, DeterminedByTree, Undisturbed
<1> QED BY <1>2, <1>7, <1>8 DEF QuietInv

\* An entry too many, or too deep, is one of the tree.
LEMMA OverflowQuiet ==
  ASSUME IInv, QuietInv, NEW p \in Paths, WalkOverflows(p)
  PROVE  QuietInv'
<1>1. /\ pc = "walk" /\ tree[p] # Missing /\ p \in unseen /\ pc' = "scan" /\ Overflows(p)
      /\ candidates' = <<>> /\ skipped' = <<Gap(<<>>, "budget")>>
      /\ UNCHANGED <<plan, next, ranked, tree, held>>
  BY DEF WalkOverflows, Walking, Control, totals, environment, history
<1>2. next = 1 /\ ranked = <<>>
  BY <1>1 DEF IInv, Unscanned
<1>3. Still' => Still
  BY <1>1 DEF Still
<1> DEFINE seen == Paths \ unseen
           there(P) == {q \in P : tree[q] # Missing}
<1>4. Still => TooManyEntries(tree)
  <2> SUFFICES ASSUME Still
               PROVE  TooManyEntries(tree)
    OBVIOUS
  <2>1. entries = Cardinality(there(seen))
    BY <1>1 DEF QuietInv, WalkedStill
  <2>2. CASE Depth(p) > MAX_DISCOVERY_DEPTH
    BY <1>1, <2>2 DEF TooManyEntries
  <2>3. CASE entries + 1 > MAX_DISCOVERY_ENTRIES
    <3>1. there(seen) \cup {p} \in SUBSET there(Paths) /\ p \notin there(seen)
      BY <1>1
    <3>2. IsFiniteSet(there(Paths)) /\ IsFiniteSet(there(seen))
      <4>1. there(Paths) \in SUBSET Paths /\ there(seen) \in SUBSET Paths
        OBVIOUS
      <4> QED BY <4>1, PathsAssumption, FS_Subset
    <3> HIDE DEF there
    <3>3. /\ IsFiniteSet(there(seen) \cup {p})
          /\ Cardinality(there(seen) \cup {p}) = Cardinality(there(seen)) + 1
      BY <3>1, <3>2, FS_AddElement
    <3>4. Cardinality(there(seen)) + 1 <= Cardinality(there(Paths))
      BY <3>1, <3>2, <3>3, FS_Subset
    <3>5. Cardinality(there(Paths)) \in Nat /\ Cardinality(there(seen)) \in Nat
      BY <3>2, FS_CardinalityType
    <3>6. Cardinality(there(Paths)) > MAX_DISCOVERY_ENTRIES
      BY <2>1, <2>3, <3>4, <3>5, LimitsType
    <3> QED BY <3>6 DEF TooManyEntries, there
  <2> QED BY <1>1, <2>2, <2>3 DEF Overflows
<1>5. Still => Overflown'
  BY <1>1, <1>2, <1>4 DEF Overflown, TooManyEntries
<1>6. WalkedStill' /\ DeterminedByTree'
  BY <1>1 DEF WalkedStill, DeterminedByTree, Undisturbed
<1>7. Still => ScannedStill'
  BY <1>1, <1>5 DEF ScannedStill
<1> QED BY <1>3, <1>6, <1>7 DEF QuietInv

\* A listing fails only where there is one that does.
LEMMA ListingQuiet ==
  ASSUME QuietInv, NEW p \in Paths, WalkFails(p)
  PROVE  QuietInv'
<1>1. /\ tree[p] = Unlisted /\ pc' = "done" /\ outcome' = Failed("walk")
      /\ UNCHANGED <<tree, held, plan>>
  BY DEF WalkFails, Stop, Control, environment
<1>2. CannotList(tree)
  BY <1>1 DEF CannotList
<1> QED BY <1>1, <1>2, OverNow

\* A file is a candidate or a gap, once.
LEMMA EntryQuiet ==
  ASSUME IInv, QuietInv, NEW p \in Paths, WalkEntry(p)
  PROVE  QuietInv'
<1> DEFINE secret == tree[p].kind = "file" /\ p \in SecretPaths
           source == tree[p].kind = "file" /\ p \notin SecretPaths
           gap == Gap(p, "secret")
<1>1. /\ pc = "walk" /\ tree[p] # Missing /\ tree[p] # Unlisted /\ ~Overflows(p)
      /\ p \in unseen /\ unseen' = unseen \ {p} /\ entries' = entries + 1
      /\ skipped' = IF secret THEN Append(skipped, gap) ELSE skipped
      /\ candidates' = IF source THEN Append(candidates, p) ELSE candidates
      /\ UNCHANGED <<plan, pc, tree, held>>
  BY DEF WalkEntry, Walking, Control, totals, environment, history
<1>2. Still' => Still
  BY <1>1 DEF Still
<1>3. unseen \subseteq Paths /\ candidates \in Seq(Paths \ SecretPaths) /\ skipped \in Seq(GapType)
  BY DEF IInv, TypeOK
<1> DEFINE seen == Paths \ unseen
           now  == Paths \ unseen'
<1>4. /\ now = seen \cup {p} /\ p \notin seen
      /\ Sources(tree, now) = IF source THEN Sources(tree, seen) \cup {p} ELSE Sources(tree, seen)
      /\ Secrets(tree, now) = IF secret THEN Secrets(tree, seen) \cup {gap} ELSE Secrets(tree, seen)
      /\ Cardinality({q \in now : tree[q] # Missing}) = Cardinality({q \in seen : tree[q] # Missing}) + 1
  BY <1>1, <1>3, SeenMore
<1>5. ~(Depth(p) > MAX_DISCOVERY_DEPTH) => Depth(p) <= MAX_DISCOVERY_DEPTH
  <2>1. Cardinality(Slashes(p)) \in Nat
    <3>1. p \in ByteString
      BY PathsAssumption DEF ByteString
    <3>2. DOMAIN p = 1 .. Len(p) /\ Len(p) \in Nat
      BY <3>1 DEF ByteString
    <3>3. Slashes(p) \in SUBSET (1 .. Len(p)) /\ IsFiniteSet(1 .. Len(p))
      BY <3>2, FS_Interval DEF Slashes
    <3> QED BY <3>3, FS_Subset, FS_CardinalityType
  <2> QED BY <2>1, LimitsType DEF Depth
<1>6. WalkedStill => WalkedStill'
  <2> SUFFICES ASSUME WalkedStill
               PROVE  WalkedStill'
    OBVIOUS
  <2>1. /\ entries = Cardinality({q \in seen : tree[q] # Missing})
        /\ \A q \in seen : tree[q] # Missing => Depth(q) <= MAX_DISCOVERY_DEPTH
        /\ \A q \in seen : tree[q] # Unlisted
        /\ Lists(candidates, Sources(tree, seen)) /\ Lists(skipped, Secrets(tree, seen))
    BY <1>1 DEF WalkedStill
  <2>2. gap \notin Secrets(tree, seen) /\ p \notin Sources(tree, seen)
    BY <1>4, ZenonT(40) DEF Secrets, Sources, Gap
  <2>3. Depth(p) <= MAX_DISCOVERY_DEPTH
    BY <1>1, <1>5 DEF Overflows
  <2> HIDE DEF seen, now
  <2>4. Lists(candidates', Sources(tree, now))
    <3>1. CASE source
      <4>1. p \in Paths \ SecretPaths
        BY <3>1
      <4> HIDE DEF source
      <4>2. Lists(Append(candidates, p), Sources(tree, seen) \cup {p})
        BY <1>3, <2>1, <2>2, <4>1, ListsMore
      <4> QED BY <1>1, <1>4, <3>1, <4>2
    <3>2. CASE ~source
      <4> HIDE DEF source
      <4> QED BY <1>1, <1>4, <2>1, <3>2
    <3> QED BY <3>1, <3>2
  <2>5. Lists(skipped', Secrets(tree, now))
    <3>1. CASE secret
      <4>1. gap \in GapType
        BY GapsType
      <4> HIDE DEF secret, gap
      <4>2. Lists(Append(skipped, gap), Secrets(tree, seen) \cup {gap})
        BY <1>3, <2>1, <2>2, <4>1, ListsMore
      <4> QED BY <1>1, <1>4, <3>1, <4>2
    <3>2. CASE ~secret
      <4> HIDE DEF secret
      <4> QED BY <1>1, <1>4, <2>1, <3>2
    <3> QED BY <3>1, <3>2
  <2>6. /\ entries' = Cardinality({q \in now : tree'[q] # Missing})
        /\ \A q \in now : tree'[q] # Missing => Depth(q) <= MAX_DISCOVERY_DEPTH
        /\ \A q \in now : tree'[q] # Unlisted
    BY <1>1, <1>4, <2>1, <2>3
  <2>7. Lists(candidates', Sources(tree', now)) /\ Lists(skipped', Secrets(tree', now))
    BY <1>1, <2>4, <2>5
  <2> QED BY <2>6, <2>7 DEF WalkedStill, now
<1>7. ScannedStill' /\ DeterminedByTree'
  BY <1>1 DEF ScannedStill, DeterminedByTree, Undisturbed
<1> QED BY <1>2, <1>6, <1>7 DEF QuietInv

\* The scan begins with the eligible sources in order, whatever order the
\* walker found them in (discover).
LEMMA WalkEndsQuiet ==
  ASSUME IInv, QuietInv, WalkEnds
  PROVE  QuietInv'
<1> DEFINE sorted == PathOrder!Sorted(candidates)
           kept == Smaller(Len(sorted), MAX_CANDIDATE_FILES)
           gap == Gap(sorted[kept + 1], "budget")
           e == Eligible(tree)
<1>1. /\ pc = "walk" /\ unseen = {} /\ pc' = "scan"
      /\ candidates' = SubSeq(sorted, 1, kept)
      /\ skipped' = IF kept < Len(sorted) THEN Append(skipped, gap) ELSE skipped
      /\ UNCHANGED <<plan, next, totalBytes, totalMatches, ranked, tree, held>>
  BY DEF WalkEnds, Control, totals, environment
<1>2. /\ next = 1 /\ totalBytes = 0 /\ totalMatches = 0 /\ ranked = <<>>
      /\ entries <= MAX_DISCOVERY_ENTRIES
  BY <1>1 DEF IInv, Unscanned, Walked
<1>3. candidates \in Seq(Paths \ SecretPaths) /\ skipped \in Seq(GapType)
  BY DEF IInv, TypeOK
<1>4. (Still' => Still) /\ WalkedStill' /\ DeterminedByTree'
  BY <1>1 DEF Still, WalkedStill, DeterminedByTree, Undisturbed
<1> SUFFICES ASSUME Still
             PROVE  Passed'
  BY <1>1, <1>4 DEF QuietInv, ScannedStill
<1>5. /\ entries = Cardinality({q \in Paths : tree[q] # Missing})
      /\ \A q \in Paths : tree[q] # Missing => Depth(q) <= MAX_DISCOVERY_DEPTH
      /\ \A q \in Paths : tree[q] # Unlisted
      /\ Lists(candidates, Sources(tree, Paths)) /\ Lists(skipped, Secrets(tree, Paths))
  <2>1. Paths \ unseen = Paths
    BY <1>1
  <2> QED BY <1>1, <2>1 DEF QuietInv, WalkedStill
<1>6. ~TooManyEntries(tree) /\ ~CannotList(tree)
  <2>1. ~CannotList(tree)
    BY <1>5 DEF CannotList
  <2>2. entries \in Nat
    BY Types
  <2>3. ~(entries > MAX_DISCOVERY_ENTRIES)
    BY <1>2, <2>2, LimitsType
  <2>4. ASSUME NEW q \in Paths, tree[q] # Missing
        PROVE  ~(Depth(q) > MAX_DISCOVERY_DEPTH)
    <3>1. Depth(q) <= MAX_DISCOVERY_DEPTH
      BY <1>5, <2>4
    <3>2. Depth(q) \in Nat
      <4>1. q \in ByteString
        BY PathsAssumption DEF ByteString
      <4>2. DOMAIN q = 1 .. Len(q) /\ Len(q) \in Nat
        BY <4>1 DEF ByteString
      <4>3. Slashes(q) \in SUBSET (1 .. Len(q)) /\ IsFiniteSet(1 .. Len(q))
        BY <4>2, FS_Interval DEF Slashes
      <4>4. Cardinality(Slashes(q)) \in Nat
        BY <4>3, FS_Subset, FS_CardinalityType
      <4> QED BY <4>4 DEF Depth
    <3> QED BY <3>1, <3>2, LimitsType
  <2> QED BY <1>5, <2>1, <2>3, <2>4 DEF TooManyEntries
<1>7. sorted = e
  <2> DEFINE P == Sources(tree, Paths)
  <2>1. P \in SUBSET Paths
    BY DEF Sources
  <2>2. candidates \in Seq(P)
    <3>1. \A k \in DOMAIN candidates : candidates[k] \in P
      BY <1>5 DEF Lists, ToSet
    <3> HIDE DEF P
    <3> QED BY <1>3, <3>1
  <2>3. Lists(candidates, P)
    BY <1>5
  <2>4. e = InOrder(P)
    BY DEF Eligible, Sources
  <2> HIDE DEF P, e
  <2> QED BY <2>1, <2>2, <2>3, <2>4, PathsInOrder
<1>8. kept = Share
  BY <1>7 DEF Share
<1> HIDE DEF sorted, kept
<1>9. /\ e \in Seq(Sources(tree, Paths)) /\ Share \in Nat /\ Share <= Len(e)
      /\ \A k \in 1 .. Len(e) : e[k] \in Paths
  <2>1. e \in Seq(Sources(tree, Paths)) /\ Share \in Nat /\ Share <= Len(e)
    BY EligibleListed, ShareListed
  <2> HIDE DEF e
  <2>2. \A k \in 1 .. Len(e) : e[k] \in Sources(tree, Paths)
    BY <2>1
  <2> QED BY <2>1, <2>2 DEF Sources
<1>10. Lists(skipped', FirstGaps)
  <2> HIDE DEF e
  <2>1. Len(e) \in Nat /\ DOMAIN e = 1 .. Len(e)
    BY <1>9
  <2>2. CASE Share < Len(e)
    <3>1. Share + 1 \in 1 .. Len(e)
      BY <1>9, <2>1, <2>2
    <3>2. {Share + 1} \cap DOMAIN e = {Share + 1}
      BY <2>1, <3>1
    <3>3. gap = Gap(e[Share + 1], "budget")
      BY <1>7, <1>8
    <3>4. FirstGaps = Secrets(tree, Paths) \cup {gap}
      BY <3>2, <3>3 DEF FirstGaps, e
    <3>5. gap \notin Secrets(tree, Paths)
      BY <3>3 DEF Secrets, Gap
    <3>6. gap \in GapType
      BY <1>9, <3>1, <3>3, GapsType
    <3> HIDE DEF gap
    <3>7. Lists(Append(skipped, gap), Secrets(tree, Paths) \cup {gap})
      BY <1>3, <1>5, <3>5, <3>6, ListsMore
    <3> QED BY <1>1, <1>7, <1>8, <2>2, <3>4, <3>7
  <2>3. CASE ~(Share < Len(e))
    <3>1. Share + 1 \notin 1 .. Len(e)
      BY <1>9, <2>1, <2>3
    <3>2. FirstGaps = Secrets(tree, Paths)
      BY <2>1, <3>1 DEF FirstGaps, e
    <3> QED BY <1>1, <1>5, <1>7, <1>8, <2>3, <3>2
  <2> QED BY <2>2, <2>3
<1>11. /\ SubSeq(candidates', 1, 0) = <<>>
       /\ Sums(Given(tree), <<>>) = [bytes |-> 0, matches |-> 0, blocks |-> <<>>]
  <2>1. SubSeq(e, 1, Share) \in Seq(Paths)
    <3>1. SubSeq(e, 1, Share) \in Seq(Sources(tree, Paths))
      BY ShareListed
    <3>2. Sources(tree, Paths) \subseteq Paths
      BY DEF Sources
    <3> HIDE DEF e
    <3> QED BY <3>1, <3>2
  <2>2. candidates' \in Seq(Paths)
    BY <1>1, <1>7, <1>8, <2>1
  <2>3. NoSum(Given(tree)) = [bytes |-> 0, matches |-> 0, blocks |-> <<>>]
    BY DEF NoSum
  <2> QED BY <2>2, <2>3, SumsBegin
<1>12. /\ ~TooManyEntries(tree)' /\ ~CannotList(tree)' /\ Given(tree)' = Given(tree)
       /\ FirstGaps' = FirstGaps /\ Share' = Share
  BY <1>1, <1>6, SameAnswer
<1>13. candidates' = SubSeq(Eligible(tree'), 1, Share')
  BY <1>1, <1>7, <1>8, <1>12
<1>14. next' = 1 /\ 1 .. next' - 1 = {} /\ next' - 1 = 0
  BY <1>1, <1>2
<1>15. UpTo(next - 1)' = [bytes |-> totalBytes, matches |-> totalMatches, blocks |-> ranked]'
  <2>1. UpTo(next - 1)' = Sums(Given(tree)', SubSeq(candidates', 1, next' - 1))
    BY DEF UpTo
  <2> QED BY <1>1, <1>2, <1>11, <1>12, <1>14, <2>1
<1>16. LargeGaps(next - 1)' = {}
  <2>1. LargeGaps(next - 1)' = {Gap(candidates'[j], "oversized") :
                                  j \in {i \in 1 .. next' - 1 : ~Fits(Given(tree)', candidates'[i])}}
    BY DEF LargeGaps
  <2> QED BY <1>14, <2>1
<1>17. Lists(skipped, FirstGaps \cup LargeGaps(next - 1))'
  <2>1. FirstGaps' \cup LargeGaps(next - 1)' = FirstGaps
    BY <1>12, <1>16
  <2> QED BY <1>10, <2>1
<1> QED BY <1>1, <1>12, <1>13, <1>14, <1>15, <1>17 DEF Passed

(***************************************************************************)
(* The scan of a quiet search.                                             *)
(***************************************************************************)

\* At a candidate, the scan has passed those before it.
LEMMA AtPassed ==
  ASSUME IInv, QuietInv, Still, pc \in {"scan", "read"}, next <= Len(candidates)
  PROVE  /\ Passed
         /\ next \in 1 .. Len(candidates) /\ Len(candidates) \in Nat /\ next - 1 \in 0 .. Len(candidates)
         /\ Candidate \in Paths \ SecretPaths /\ candidates \in Seq(Paths)
         /\ tree[Candidate].kind = "file" /\ tree[Candidate].raw \in ByteString
         /\ UpTo(next) = AddFile(Given(tree), UpTo(next - 1), Candidate)
         /\ UpTo(next - 1) = [bytes |-> totalBytes, matches |-> totalMatches, blocks |-> ranked]
         /\ ~Exceeds(Given(tree), UpTo(next - 1))
         /\ \A k \in 1 .. next - 1 : ~Exceeds(Given(tree), UpTo(k))
         /\ \A j, k \in 1 .. Len(candidates) : candidates[j] = candidates[k] => j = k
<1>1. /\ Len(candidates) \in Nat /\ next \in Nat \ {0} /\ next <= Len(candidates)
      /\ candidates \in Seq(Paths \ SecretPaths)
      /\ \A k \in 1 .. Len(candidates) : candidates[k] \in Paths \ SecretPaths
      /\ plan \in Plans /\ totalBytes \in Nat /\ totalMatches \in Nat /\ tree \in [Paths -> Nodes]
  BY Types
<1>2. next \in 1 .. Len(candidates) /\ next - 1 \in 0 .. Len(candidates)
  BY <1>1
<1>3. Passed
  <2>1. ~Overflown
    BY <1>1 DEF Overflown
  <2> QED BY <2>1 DEF QuietInv, ScannedStill
<1>4. Candidate \in Paths \ SecretPaths /\ Candidate = candidates[next]
  BY <1>1, <1>2 DEF Candidate
<1>5. candidates \in Seq(Paths)
  BY <1>1
<1>6. /\ candidates = SubSeq(Eligible(tree), 1, Share) /\ Len(candidates) = Share
      /\ \A k \in 1 .. Share : candidates[k] = Eligible(tree)[k]
                               /\ Eligible(tree)[k] \in Sources(tree, Paths)
      /\ \A j, k \in 1 .. Len(Eligible(tree)) : Eligible(tree)[j] = Eligible(tree)[k] => j = k
      /\ Share \in Nat /\ Share <= Len(Eligible(tree))
  BY <1>3, ShareListed DEF Passed
<1>7. tree[Candidate].kind = "file"
  BY <1>2, <1>4, <1>6 DEF Sources
<1>8. tree[Candidate].raw \in ByteString
  BY <1>1, <1>4, <1>7, FileNodes
<1>9. UpTo(next) = AddFile(Given(tree), UpTo(next - 1), Candidate)
  BY <1>2, <1>4, <1>5, SumsGrow DEF UpTo
<1>10. UpTo(next - 1) = [bytes |-> totalBytes, matches |-> totalMatches, blocks |-> ranked]
       /\ \A k \in 1 .. next - 1 : ~Exceeds(Given(tree), UpTo(k))
  BY <1>3 DEF Passed
<1>11. ~Exceeds(Given(tree), UpTo(next - 1))
  <2>1. totalBytes <= plan.budget.max_total_bytes /\ totalMatches <= plan.budget.max_matches
    BY DEF IInv, Spent
  <2>2. plan.budget.max_total_bytes \in Nat /\ plan.budget.max_matches \in Nat
    BY <1>1, PlanType
  <2>3. Given(tree).plan = plan
    BY DEF Given
  <2> QED BY <1>1, <1>10, <2>1, <2>2, <2>3 DEF Exceeds
<1>12. \A j, k \in 1 .. Len(candidates) : candidates[j] = candidates[k] => j = k
  <2> TAKE j, k \in 1 .. Len(candidates)
  <2>1. Len(Eligible(tree)) \in Nat
    BY EligibleListed
  <2>2. j \in 1 .. Len(Eligible(tree)) /\ k \in 1 .. Len(Eligible(tree))
    BY <1>6, <2>1
  <2>3. candidates[j] = Eligible(tree)[j] /\ candidates[k] = Eligible(tree)[k]
    BY <1>6
  <2> QED BY <1>6, <2>2, <2>3
<1> QED BY <1>1, <1>2, <1>3, <1>4, <1>5, <1>7, <1>8, <1>9, <1>10, <1>11, <1>12

\* The sums depend on nothing that a step of the scan changes.
LEMMA SameScan ==
  ASSUME UNCHANGED <<tree, plan, candidates>>
  PROVE  /\ \A k : UpTo(k)' = UpTo(k) /\ LargeGaps(k)' = LargeGaps(k)
         /\ Given(tree)' = Given(tree) /\ FirstGaps' = FirstGaps /\ Share' = Share
         /\ candidates' = candidates /\ Eligible(tree)' = Eligible(tree)
         /\ TooManyEntries(tree)' <=> TooManyEntries(tree)
         /\ CannotList(tree)' <=> CannotList(tree)
BY SameAnswer DEF UpTo, LargeGaps, Given

\* What the scan has passed once it is one candidate further.
LEMMA NextScan ==
  ASSUME UNCHANGED <<tree, plan, candidates>>, next' - 1 = next
  PROVE  UpTo(next - 1)' = UpTo(next) /\ LargeGaps(next - 1)' = LargeGaps(next)
<1>1. UpTo(next - 1)' = Sums(Given(tree)', SubSeq(candidates', 1, next' - 1))
  BY DEF UpTo
<1>2. UpTo(next) = Sums(Given(tree), SubSeq(candidates, 1, next))
  BY DEF UpTo
<1>3. LargeGaps(next - 1)' = {Gap(candidates'[j], "oversized") :
                                j \in {i \in 1 .. next' - 1 : ~Fits(Given(tree)', candidates'[i])}}
  BY DEF LargeGaps
<1>4. LargeGaps(next) = {Gap(candidates[j], "oversized") :
                                j \in {i \in 1 .. next : ~Fits(Given(tree), candidates[i])}}
  BY DEF LargeGaps
<1>5. Given(tree)' = Given(tree) /\ candidates' = candidates
  BY SameScan
<1> QED BY <1>1, <1>2, <1>3, <1>4, <1>5

\* The gaps of the scan are not those from before it, nor of other candidates.
LEMMA GapsApart ==
  ASSUME IInv, QuietInv, Still, pc \in {"scan", "read"}, next <= Len(candidates)
  PROVE  /\ Gap(Candidate, "oversized") \notin FirstGaps \cup LargeGaps(next - 1)
         /\ (FirstGaps \cup LargeGaps(next - 1)) \cap BudgetGaps(next) = {}
<1>1. /\ next \in 1 .. Len(candidates) /\ Len(candidates) \in Nat
      /\ \A j, k \in 1 .. Len(candidates) : candidates[j] = candidates[k] => j = k
      /\ Passed
  BY AtPassed
<1>2. \A g \in FirstGaps : g.reason # "oversized"
  BY DEF FirstGaps, Secrets, Gap
<1>3. Gap(Candidate, "oversized") \notin LargeGaps(next - 1)
  <2> SUFFICES ASSUME NEW j \in 1 .. next - 1, Gap(Candidate, "oversized") = Gap(candidates[j], "oversized")
               PROVE  FALSE
    BY DEF LargeGaps
  <2>1. candidates[next] = candidates[j]
    BY DEF Gap, Candidate
  <2>2. j \in 1 .. Len(candidates) /\ j # next
    BY <1>1
  <2> QED BY <1>1, <2>1, <2>2
<1>4. Gap(Candidate, "oversized").reason = "oversized"
  BY DEF Gap
<1>5. ASSUME NEW g \in BudgetGaps(next)
      PROVE  g \notin FirstGaps /\ g \notin LargeGaps(next - 1)
  <2>1. PICK j \in next .. Len(candidates) : g = Gap(candidates[j], "budget")
    BY DEF BudgetGaps
  <2>2. g.reason = "budget" /\ g.path = candidates[j]
    BY <2>1 DEF Gap
  <2>3. g \notin LargeGaps(next - 1)
    BY <2>2 DEF LargeGaps, Gap
  <2>4. g \notin Secrets(tree, Paths)
    BY <2>2 DEF Secrets, Gap
  <2>5. ASSUME Share + 1 \in DOMAIN Eligible(tree), g = Gap(Eligible(tree)[Share + 1], "budget")
        PROVE  FALSE
    <3>1. Eligible(tree)[Share + 1] = candidates[j]
      BY <2>2, <2>5 DEF Gap
    <3>2. /\ candidates = SubSeq(Eligible(tree), 1, Share) /\ Len(candidates) = Share
          /\ \A k \in 1 .. Share : candidates[k] = Eligible(tree)[k]
          /\ \A i, k \in 1 .. Len(Eligible(tree)) : Eligible(tree)[i] = Eligible(tree)[k] => i = k
      BY <1>1, ShareListed DEF Passed
    <3>3. DOMAIN Eligible(tree) = 1 .. Len(Eligible(tree)) /\ Len(Eligible(tree)) \in Nat
          /\ Share \in Nat /\ Share <= Len(Eligible(tree))
      BY EligibleListed, ShareListed
    <3>4. j \in 1 .. Share
      <4>1. Len(candidates) = Share
        BY <3>2
      <4>2. j \in next .. Share
        BY <4>1
      <4>3. next \in Int /\ 1 <= next
        BY <1>1
      <4>4. \A i \in Int, k \in Nat : 1 <= i => i .. k \subseteq 1 .. k
        OBVIOUS
      <4> QED BY <3>3, <4>2, <4>3, <4>4
    <3>5. j \in 1 .. Len(Eligible(tree)) /\ Share + 1 \in 1 .. Len(Eligible(tree)) /\ j # Share + 1
      BY <2>5, <3>3, <3>4
    <3> QED BY <3>1, <3>2, <3>4, <3>5
  <2> QED BY <2>3, <2>4, <2>5 DEF FirstGaps
<1> QED BY <1>2, <1>3, <1>4, <1>5

\* A source that is too large adds a gap and nothing else.
LEMMA LargeQuiet ==
  ASSUME IInv, QuietInv, Still, pc \in {"scan", "read"}, next <= Len(candidates),
         ~Fits(Given(tree), Candidate), Skip("oversized")
  PROVE  QuietInv'
<1> DEFINE gap == Gap(Candidate, "oversized")
           S == FirstGaps \cup LargeGaps(next - 1)
<1>1. /\ pc' = "scan" /\ next' = next + 1 /\ skipped' = Append(skipped, gap)
      /\ UNCHANGED <<plan, candidates, totalBytes, totalMatches, ranked, tree, held>>
  BY DEF Skip, Control, discovery, totals, environment
<1>2. /\ Passed /\ next \in 1 .. Len(candidates) /\ Len(candidates) \in Nat
      /\ Candidate \in Paths \ SecretPaths
      /\ UpTo(next) = AddFile(Given(tree), UpTo(next - 1), Candidate)
      /\ UpTo(next - 1) = [bytes |-> totalBytes, matches |-> totalMatches, blocks |-> ranked]
      /\ ~Exceeds(Given(tree), UpTo(next - 1))
      /\ \A k \in 1 .. next - 1 : ~Exceeds(Given(tree), UpTo(k))
  BY AtPassed
<1>3. UpTo(next) = UpTo(next - 1)
  BY <1>2 DEF AddFile
<1>4. LargeGaps(next) = LargeGaps(next - 1) \cup {gap}
  <2> DEFINE large(k) == {i \in 1 .. k : ~Fits(Given(tree), candidates[i])}
  <2>1. large(next) = large(next - 1) \cup {next}
    BY <1>2 DEF Candidate
  <2>2. LargeGaps(next) = {Gap(candidates[j], "oversized") : j \in large(next)}
        /\ LargeGaps(next - 1) = {Gap(candidates[j], "oversized") : j \in large(next - 1)}
    BY DEF LargeGaps
  <2>3. gap = Gap(candidates[next], "oversized")
    BY DEF Candidate
  <2> HIDE DEF large, gap
  <2> QED BY <2>1, <2>2, <2>3
<1>5. Lists(skipped', FirstGaps \cup LargeGaps(next))
  <2>1. gap \notin S
    BY GapsApart
  <2>2. Lists(skipped, S)
    BY <1>2 DEF Passed
  <2>3. gap \in GapType /\ skipped \in Seq(GapType)
    BY <1>2, GapsType DEF IInv, TypeOK
  <2> HIDE DEF gap
  <2>4. Lists(Append(skipped, gap), S \cup {gap})
    <3> HIDE DEF S
    <3> QED BY <2>1, <2>2, <2>3, ListsMore
  <2>5. FirstGaps \cup LargeGaps(next) = S \cup {gap}
    BY <1>4
  <2> QED BY <1>1, <2>4, <2>5
<1>6. \A k \in 1 .. next : ~Exceeds(Given(tree), UpTo(k))
  <2>1. \A k \in 1 .. next : k = next \/ k \in 1 .. next - 1
    BY <1>2
  <2> QED BY <1>2, <1>3, <2>1
<1>7. next' - 1 = next
  BY <1>1, <1>2
<1>8. Passed'
  <2>1. ~TooManyEntries(tree)' /\ ~CannotList(tree)' /\ candidates' = SubSeq(Eligible(tree)', 1, Share')
    BY <1>1, <1>2, SameScan DEF Passed
  <2>2. \A k \in 1 .. next' - 1 : ~Exceeds(Given(tree)', UpTo(k)')
    BY <1>1, <1>6, <1>7, SameScan
  <2>3. UpTo(next - 1)' = UpTo(next) /\ LargeGaps(next - 1)' = LargeGaps(next)
    BY <1>1, <1>7, NextScan
  <2>4. UpTo(next - 1)' = [bytes |-> totalBytes', matches |-> totalMatches', blocks |-> ranked']
    BY <1>1, <1>2, <1>3, <2>3
  <2>5. Lists(skipped', FirstGaps' \cup LargeGaps(next - 1)')
    BY <1>1, <1>5, <2>3, SameScan
  <2> QED BY <1>1, <2>1, <2>2, <2>4, <2>5 DEF Passed
<1>9. WalkedStill' /\ DeterminedByTree'
  BY <1>1 DEF WalkedStill, DeterminedByTree, Undisturbed
<1> QED BY <1>1, <1>8, <1>9 DEF QuietInv, ScannedStill

\* The scan that stops at a candidate that exceeds a budget.
LEMMA BreakQuiet ==
  ASSUME IInv, QuietInv, Still, pc \in {"scan", "read"}, next <= Len(candidates),
         Exceeds(Given(tree), UpTo(next)), Break
  PROVE  QuietInv'
<1> DEFINE gaps == skipped \o BudgetSuffix
           n == Len(candidates)
<1>1. /\ pc' = "done" /\ outcome' = Result(ranked, gaps)
      /\ UNCHANGED <<tree, held, plan>>
  BY DEF Break, Stop, Control, environment
<1>2. /\ Passed /\ next \in 1 .. n /\ n \in Nat /\ next - 1 \in 0 .. n
      /\ UpTo(next - 1) = [bytes |-> totalBytes, matches |-> totalMatches, blocks |-> ranked]
      /\ \A k \in 1 .. next - 1 : ~Exceeds(Given(tree), UpTo(k))
      /\ \A j, k \in 1 .. n : candidates[j] = candidates[k] => j = k
  BY AtPassed
<1>3. /\ \A k \in 1 .. n : candidates[k] \in Paths
      /\ skipped \in Seq(GapType)
  BY Types
<1>4. BudgetSuffix = [k \in 1 .. n - next + 1 |-> Gap(candidates[next + k - 1], "budget")]
  BY DEF BudgetSuffix
<1> HIDE DEF n
<1>5. \A k \in 1 .. n - next + 1 : next + k - 1 \in next .. n /\ next + k - 1 \in 1 .. n
  BY <1>2
<1>6. \A j \in next .. n : j - next + 1 \in 1 .. n - next + 1 /\ next + (j - next + 1) - 1 = j
  BY <1>2
<1>7. BudgetSuffix \in Seq(GapType) /\ DOMAIN BudgetSuffix = 1 .. n - next + 1
  <2>1. \A k \in 1 .. n - next + 1 : Gap(candidates[next + k - 1], "budget") \in GapType
    BY <1>3, <1>5, GapsType
  <2>2. n - next + 1 \in Nat
    BY <1>2
  <2> QED BY <1>4, <2>1, <2>2
<1>8. Lists(BudgetSuffix, BudgetGaps(next))
  <2>1. IsInjective(BudgetSuffix)
    <3> SUFFICES ASSUME NEW i \in 1 .. n - next + 1, NEW j \in 1 .. n - next + 1,
                        BudgetSuffix[i] = BudgetSuffix[j]
                 PROVE  i = j
      BY <1>7 DEF IsInjective
    <3>1. Gap(candidates[next + i - 1], "budget") = Gap(candidates[next + j - 1], "budget")
      BY <1>4
    <3>2. candidates[next + i - 1] = candidates[next + j - 1]
      BY <3>1 DEF Gap
    <3>3. next + i - 1 = next + j - 1
      BY <1>2, <1>5, <3>2
    <3> QED BY <1>2, <3>3
  <2>2. ASSUME NEW k \in 1 .. n - next + 1
        PROVE  BudgetSuffix[k] \in BudgetGaps(next)
    BY <1>4, <1>5 DEF BudgetGaps, n
  <2>3. ASSUME NEW g \in BudgetGaps(next)
        PROVE  \E k \in 1 .. n - next + 1 : BudgetSuffix[k] = g
    <3>1. PICK j \in next .. n : g = Gap(candidates[j], "budget")
      BY DEF BudgetGaps, n
    <3>2. BudgetSuffix[j - next + 1] = Gap(candidates[j], "budget")
      <4>1. BudgetSuffix[j - next + 1] = Gap(candidates[next + (j - next + 1) - 1], "budget")
        BY <1>4, <1>6
      <4> QED BY <1>6, <4>1
    <3> QED BY <1>6, <3>1, <3>2
  <2>4. ToSet(BudgetSuffix) = BudgetGaps(next)
    <3>1. ToSet(BudgetSuffix) = {BudgetSuffix[k] : k \in 1 .. n - next + 1}
      BY <1>7 DEF ToSet
    <3> QED BY <2>2, <2>3, <3>1
  <2> QED BY <2>1, <2>4 DEF Lists
<1>9. /\ gaps \in Seq(GapType)
      /\ Lists(gaps, (FirstGaps \cup LargeGaps(next - 1)) \cup BudgetGaps(next))
  <2> DEFINE S == FirstGaps \cup LargeGaps(next - 1)
  <2>1. Lists(skipped, S)
    BY <1>2 DEF Passed
  <2>2. S \cap BudgetGaps(next) = {}
    BY GapsApart
  <2> HIDE DEF S
  <2>3. Lists(gaps, S \cup BudgetGaps(next))
    BY <1>3, <1>7, <1>8, <2>1, <2>2, ListsBoth
  <2>4. gaps \in Seq(GapType)
    BY <1>3, <1>7
  <2> QED BY <2>3, <2>4 DEF S
<1>10. ~TooManyEntries(tree) /\ ~CannotList(tree) /\ candidates = SubSeq(Eligible(tree), 1, Share)
  BY <1>2 DEF Passed
<1> HIDE DEF gaps
<1>11. QuietResult(tree) = Result(UpTo(next - 1).blocks, gaps)
  <2> DEFINE m == next - 1
  <2>1. m \in 0 .. Len(candidates) /\ m + 1 = next
    BY <1>2 DEF n
  <2>2. \A k \in 1 .. m : ~Exceeds(Given(tree), UpTo(k))
    BY <1>2
  <2>3. Exceeds(Given(tree), UpTo(m + 1))
    BY <2>1
  <2>4. Lists(gaps, (FirstGaps \cup LargeGaps(m)) \cup BudgetGaps(m + 1))
    BY <1>9, <2>1
  <2> HIDE DEF m
  <2>5. QuietResult(tree) = Result(UpTo(m).blocks, gaps)
    BY <1>9, <1>10, <2>1, <2>2, <2>3, <2>4, QuietStops
  <2> QED BY <2>5 DEF m
<1>12. outcome' = QuietResult(tree)
  BY <1>1, <1>2, <1>11
<1> QED BY <1>1, <1>10, <1>12, OverNow

\* The scan that gets to the end of its candidates.
LEMMA ScanEndsQuiet ==
  ASSUME IInv, QuietInv, ScanEnds
  PROVE  QuietInv'
<1>1. /\ pc = "scan" /\ next > Len(candidates) /\ pc' = "done"
      /\ outcome' = Result(ranked, skipped)
      /\ UNCHANGED <<tree, held, plan>>
  BY DEF ScanEnds, Stop, Control, environment
<1>2. CASE Still /\ Overflown
  <2>1. QuietResult(tree) = Result(<<>>, <<Gap(<<>>, "budget")>>)
    BY <1>2 DEF Overflown, QuietResult
  <2>2. outcome' = QuietResult(tree)
    BY <1>1, <1>2, <2>1 DEF Overflown
  <2> QED BY <1>1, <1>2, <2>2, OverNow DEF Overflown
<1>3. CASE Still /\ Passed
  <2> DEFINE n == Len(candidates)
  <2>1. n \in Nat /\ n \in 0 .. n /\ next \in Nat /\ next <= n + 1 /\ skipped \in Seq(GapType)
    BY Types
  <2>2. next - 1 = n /\ n + 1 > Len(candidates)
    BY <1>1, <2>1
  <2>3. BudgetGaps(n + 1) = {}
    BY <2>1 DEF BudgetGaps
  <2>4. /\ ~TooManyEntries(tree) /\ ~CannotList(tree) /\ candidates = SubSeq(Eligible(tree), 1, Share)
        /\ \A k \in 1 .. next - 1 : ~Exceeds(Given(tree), UpTo(k))
        /\ UpTo(next - 1) = [bytes |-> totalBytes, matches |-> totalMatches, blocks |-> ranked]
        /\ Lists(skipped, FirstGaps \cup LargeGaps(next - 1))
    BY <1>3 DEF Passed
  <2>5. /\ \A k \in 1 .. n : ~Exceeds(Given(tree), UpTo(k))
        /\ UpTo(n).blocks = ranked
        /\ Lists(skipped, (FirstGaps \cup LargeGaps(n)) \cup BudgetGaps(n + 1))
    <3>1. (FirstGaps \cup LargeGaps(n)) \cup BudgetGaps(n + 1) = FirstGaps \cup LargeGaps(n)
      BY <2>3
    <3> HIDE DEF n
    <3>2. \A k \in 1 .. n : ~Exceeds(Given(tree), UpTo(k))
      BY <2>2, <2>4
    <3>3. UpTo(n).blocks = ranked
      <4>1. UpTo(n) = [bytes |-> totalBytes, matches |-> totalMatches, blocks |-> ranked]
        BY <2>2, <2>4
      <4> QED BY <4>1
    <3>4. Lists(skipped, FirstGaps \cup LargeGaps(n))
      BY <2>2, <2>4
    <3> QED BY <3>1, <3>2, <3>3, <3>4
  <2>6. n \in 0 .. Len(candidates) /\ ~(n < Len(candidates))
    BY <2>1
  <2> HIDE DEF n
  <2>7. QuietResult(tree) = Result(UpTo(n).blocks, skipped)
    BY <2>1, <2>4, <2>5, <2>6, QuietStops
  <2>8. outcome' = QuietResult(tree)
    BY <1>1, <2>5, <2>7
  <2> QED BY <1>1, <2>4, <2>8, OverNow
<1>4. CASE ~Still
  BY <1>1, <1>4, OverNow
<1> QED BY <1>1, <1>2, <1>3, <1>4 DEF QuietInv, ScannedStill

\* Once something was written, nothing is to be shown.
LEMMA RestlessQuiet ==
  ASSUME ~Still'
  PROVE  QuietInv'
BY DEF QuietInv, DeterminedByTree, Undisturbed, Still

\* A file that nobody writes yields what it holds.
LEMMA OneReading ==
  ASSUME NEW raw \in ByteString
  PROVE  Readable({raw}) = {raw}
<1>1. ASSUME NEW k \in 0 .. Len(raw)
      PROVE  SubSeq(raw, 1, k) \o SubSeq(raw, k + 1, Len(raw)) = raw
  <2> DEFINE s == SubSeq(raw, 1, k)
             r == SubSeq(raw, k + 1, Len(raw))
             n == Len(raw)
  <2>1. n \in Nat /\ k \in 0 .. n /\ raw \in Seq(Byte)
    BY DEF ByteString
  <2>2. s \in Seq(Byte) /\ Len(s) = k /\ \A i \in 1 .. k : s[i] = raw[i]
    BY <2>1
  <2>3. r \in Seq(Byte) /\ Len(r) = n - k /\ \A i \in 1 .. n - k : r[i] = raw[k + i]
    BY <2>1
  <2> HIDE DEF s, r
  <2>4. s \o r \in Seq(Byte) /\ Len(s \o r) = n
        /\ \A i \in 1 .. n : (s \o r)[i] = IF i <= k THEN s[i] ELSE r[i - k]
    BY <2>1, <2>2, <2>3
  <2>5. \A i \in 1 .. n : (s \o r)[i] = raw[i]
    <3> SUFFICES ASSUME NEW i \in 1 .. n
                 PROVE  (s \o r)[i] = raw[i]
      OBVIOUS
    <3>1. CASE i <= k
      BY <2>1, <2>2, <2>4, <3>1
    <3>2. CASE ~(i <= k)
      <4>1. i - k \in 1 .. n - k /\ k + (i - k) = i
        BY <2>1, <3>2
      <4> QED BY <2>3, <2>4, <3>2, <4>1
    <3> QED BY <3>1, <3>2
  <2>6. s \o r \in Seq(Byte) /\ raw \in Seq(Byte) /\ Len(s \o r) = Len(raw)
        /\ \A i \in 1 .. Len(s \o r) : (s \o r)[i] = raw[i]
    BY <2>1, <2>4, <2>5
  <2>7. s \o r = raw
    BY <2>6, SeqEqual
  <2> QED BY <2>7 DEF s, r
<1>2. 0 \in 0 .. Len(raw)
  BY DEF ByteString
<1>3. Splices(raw, raw) = {raw}
  BY <1>1, <1>2 DEF Splices
<1>4. {Splices(v[1], v[2]) : v \in {raw} \X {raw}} = {Splices(raw, raw)}
  <2>1. {raw} \X {raw} = {<<raw, raw>>}
    OBVIOUS
  <2> QED BY <2>1
<1> QED BY <1>3, <1>4 DEF Readable

\* A candidate that fits, within the budgets, is added to the sums.
LEMMA AcceptQuiet ==
  ASSUME IInv, QuietInv, Still, pc = "read", Accept(tree[Candidate].raw)
  PROVE  QuietInv'
<1> DEFINE raw == tree[Candidate].raw
           matches == totalMatches + file_matches(plan, ParseLines(raw))
           sum == [bytes |-> totalBytes + Len(raw), matches |-> matches,
                   blocks |-> ranked \o blocks_for_file(plan, Candidate, raw)]
<1>1. pc \in {"scan", "read"} /\ next <= Len(candidates)
  BY DEF IInv, TypeOK
<1>2. /\ Passed /\ next \in 1 .. Len(candidates) /\ Len(candidates) \in Nat
      /\ UpTo(next) = AddFile(Given(tree), UpTo(next - 1), Candidate)
      /\ UpTo(next - 1) = [bytes |-> totalBytes, matches |-> totalMatches, blocks |-> ranked]
      /\ \A k \in 1 .. next - 1 : ~Exceeds(Given(tree), UpTo(k))
      /\ raw \in ByteString
  BY <1>1, AtPassed
<1>3. Fits(Given(tree), Candidate) /\ Len(raw) <= Remaining
  BY <1>2 DEF Passed
<1>4. UpTo(next) = sum
  <2>1. Given(tree).plan = plan /\ Given(tree).tree = tree
    BY DEF Given
  <2>2. UpTo(next)
          = [bytes   |-> UpTo(next - 1).bytes + Len(raw),
             matches |-> UpTo(next - 1).matches + file_matches(plan, ParseLines(raw)),
             blocks  |-> UpTo(next - 1).blocks \o blocks_for_file(plan, Candidate, raw)]
    BY <1>2, <1>3, <2>1 DEF AddFile
  <2>3. /\ UpTo(next - 1).bytes = totalBytes /\ UpTo(next - 1).matches = totalMatches
        /\ UpTo(next - 1).blocks = ranked
    BY <1>2
  <2> QED BY <2>2, <2>3
<1>5. CASE matches > plan.budget.max_matches /\ Break
  <2>1. Exceeds(Given(tree), UpTo(next))
    BY <1>4, <1>5 DEF Exceeds, Given
  <2> QED BY <1>1, <1>5, <2>1, BreakQuiet
<1>6. CASE /\ matches <= plan.budget.max_matches
           /\ pc' = "scan" /\ next' = next + 1 /\ window' = {}
           /\ totalBytes' = totalBytes + Len(raw)
           /\ totalMatches' = matches
           /\ ranked' = ranked \o blocks_for_file(plan, Candidate, raw)
           /\ scanned' = scanned \cup {Candidate}
           /\ UNCHANGED <<discovery, skipped, outcome>>
           /\ Control
  <2>1. UNCHANGED <<plan, candidates, skipped, tree, held>>
    BY <1>6 DEF Control, discovery, environment
  <2>2. ~Exceeds(Given(tree), UpTo(next))
    <3>1. /\ Len(raw) \in Nat /\ totalBytes \in Nat /\ totalMatches \in Nat
          /\ plan.budget.max_total_bytes \in Nat /\ plan.budget.max_matches \in Nat
      BY <1>2, Types, PlanType, SMTT(30) DEF ByteString
    <3>2. matches \in Nat
      <4>1. file_matches(plan, ParseLines(raw)) \in Nat
        BY <1>2, Types, PlanType, LinesType, FileMatchesType
      <4> HIDE DEF raw
      <4> QED BY <3>1, <4>1
    <3> HIDE DEF raw, matches
    <3>3. ~(matches > plan.budget.max_matches)
      BY <1>6, <3>1, <3>2
    <3>4. ~(totalBytes + Len(raw) > plan.budget.max_total_bytes)
      BY <1>3, <3>1 DEF Remaining
    <3> QED BY <1>4, <3>3, <3>4 DEF Exceeds, Given
  <2>3. \A k \in 1 .. next : ~Exceeds(Given(tree), UpTo(k))
    <3>1. \A k \in 1 .. next : k = next \/ k \in 1 .. next - 1
      BY <1>2
    <3> QED BY <1>2, <2>2, <3>1
  <2>4. LargeGaps(next) = LargeGaps(next - 1)
    <3> DEFINE large(k) == {i \in 1 .. k : ~Fits(Given(tree), candidates[i])}
    <3>1. large(next) = large(next - 1)
      BY <1>2, <1>3 DEF Candidate
    <3>2. LargeGaps(next) = {Gap(candidates[j], "oversized") : j \in large(next)}
          /\ LargeGaps(next - 1) = {Gap(candidates[j], "oversized") : j \in large(next - 1)}
      BY DEF LargeGaps
    <3> HIDE DEF large
    <3> QED BY <3>1, <3>2
  <2>5. next' - 1 = next
    BY <1>2, <1>6
  <2> HIDE DEF raw, matches
  <2>6. Passed'
    <3>1. ~TooManyEntries(tree)' /\ ~CannotList(tree)' /\ candidates' = SubSeq(Eligible(tree)', 1, Share')
      BY <1>2, <2>1, SameScan DEF Passed
    <3>2. \A k \in 1 .. next' - 1 : ~Exceeds(Given(tree)', UpTo(k)')
      BY <2>1, <2>3, <2>5, SameScan
    <3>3. UpTo(next - 1)' = UpTo(next) /\ LargeGaps(next - 1)' = LargeGaps(next)
      BY <2>1, <2>5, NextScan
    <3>4. UpTo(next - 1)' = [bytes |-> totalBytes', matches |-> totalMatches', blocks |-> ranked']
      BY <1>4, <1>6, <3>3
    <3>5. Lists(skipped', FirstGaps' \cup LargeGaps(next - 1)')
      <4>1. Lists(skipped, FirstGaps \cup LargeGaps(next - 1))
        BY <1>2 DEF Passed
      <4>2. FirstGaps' = FirstGaps
        BY <2>1, SameScan
      <4> QED BY <2>1, <2>4, <3>3, <4>1, <4>2
    <3> QED BY <1>6, <3>1, <3>2, <3>4, <3>5 DEF Passed
  <2>7. WalkedStill' /\ DeterminedByTree'
    BY <1>6 DEF WalkedStill, DeterminedByTree, Undisturbed
  <2> QED BY <1>6, <2>6, <2>7 DEF QuietInv, ScannedStill
<1> QED BY <1>5, <1>6 DEF Accept

\* What is read of a file at rest is all of it.
LEMMA ReadQuiet ==
  ASSUME IInv, QuietInv, Still, ReadCandidate
  PROVE  QuietInv'
<1>1. PICK raw \in Readable(window) :
        LET n == Smaller(Len(raw), ReadLimit)
        IN  /\ consumed' = consumed + n
            /\ \/ TooLarge(n) /\ Skip("oversized")
               \/ TooMuch(n) /\ Break
               \/ ~TooLarge(n) /\ ~TooMuch(n) /\ Accept(raw)
  BY DEF ReadCandidate
<1>2. pc = "read" /\ pc \in {"scan", "read"} /\ next <= Len(candidates)
  BY DEF ReadCandidate, IInv, TypeOK
<1>3. Passed /\ tree[Candidate].raw \in ByteString
  BY <1>2, AtPassed
<1>4. /\ window = {tree[Candidate].raw} /\ Fits(Given(tree), Candidate)
      /\ Len(tree[Candidate].raw) <= Remaining
  BY <1>2, <1>3 DEF Passed
<1>5. raw = tree[Candidate].raw
  BY <1>3, <1>4, OneReading
<1> DEFINE l == Len(raw)
           f == plan.budget.max_file_bytes
           r == Remaining
<1>6. l \in Nat /\ f \in Nat /\ r \in Int /\ l <= f /\ l <= r
  <2>1. l \in Nat /\ f \in Nat
    BY <1>3, <1>5, Types, PlanType DEF ByteString
  <2>2. r \in Int
    BY Types, PlanType, SMTT(30) DEF Remaining
  <2>3. l <= f
    BY <1>4, <1>5 DEF Fits, Given
  <2> QED BY <1>4, <1>5, <2>1, <2>2, <2>3
<1>7. Smaller(l, ReadLimit) = l
  <2>1. ReadLimit = Smaller(f, r) + 1
    BY DEF ReadLimit
  <2> HIDE DEF l, f, r
  <2> QED BY <1>6, <2>1 DEF Smaller
<1>8. ~TooLarge(l) /\ ~TooMuch(l)
  <2> HIDE DEF l
  <2> QED BY <1>6 DEF TooLarge, TooMuch
<1>9. Accept(raw)
  BY <1>1, <1>7, <1>8
<1> QED BY <1>2, <1>5, <1>9, AcceptQuiet

\* A candidate is opened if it fits.
LEMMA OpenQuiet ==
  ASSUME IInv, QuietInv, Still, OpenCandidate
  PROVE  QuietInv'
<1> DEFINE raw == tree[Candidate].raw
           size == Len(raw)
<1>1. pc = "scan" /\ pc \in {"scan", "read"} /\ next <= Len(candidates)
  BY DEF OpenCandidate, AtCandidate
<1>2. /\ Passed /\ raw \in ByteString
      /\ UpTo(next) = AddFile(Given(tree), UpTo(next - 1), Candidate)
      /\ UpTo(next - 1) = [bytes |-> totalBytes, matches |-> totalMatches, blocks |-> ranked]
  BY <1>1, AtPassed
<1>3. /\ size \in Nat /\ plan.budget.max_file_bytes \in Nat /\ totalBytes \in Nat
      /\ plan.budget.max_total_bytes \in Nat /\ Remaining \in Int
  <2>1. size \in Nat
    BY <1>2 DEF ByteString
  <2>2. /\ plan.budget.max_file_bytes \in Nat /\ totalBytes \in Nat
        /\ plan.budget.max_total_bytes \in Nat
    BY Types, PlanType
  <2> HIDE DEF size
  <2> QED BY <2>1, <2>2 DEF Remaining
<1>4. Given(tree).plan = plan /\ Given(tree).tree = tree
  BY DEF Given
<1>5. Fits(Given(tree), Candidate) <=> ~TooLarge(size)
  <2>1. Fits(Given(tree), Candidate) <=> size <= plan.budget.max_file_bytes
    BY <1>4 DEF Fits
  <2> HIDE DEF size
  <2> QED BY <1>3, <2>1 DEF TooLarge
<1>6. CASE TooLarge(size) /\ Skip("oversized")
  BY <1>1, <1>5, <1>6, LargeQuiet
<1>7. CASE TooMuch(size) /\ Break
  <2>1. Fits(Given(tree), Candidate) /\ size > Remaining
    BY <1>5, <1>7 DEF TooMuch
  <2>2. UpTo(next).bytes = totalBytes + size
    <3>1. UpTo(next).bytes = UpTo(next - 1).bytes + size
      BY <1>2, <1>4, <2>1 DEF AddFile
    <3> QED BY <1>2, <3>1
  <2>3. totalBytes + size > plan.budget.max_total_bytes
    <3> HIDE DEF size
    <3> QED BY <1>3, <2>1 DEF Remaining
  <2>4. Exceeds(Given(tree), UpTo(next))
    BY <1>4, <2>2, <2>3 DEF Exceeds
  <2> QED BY <1>1, <1>7, <2>4, BreakQuiet
<1>8. CASE /\ ~TooLarge(size) /\ ~TooMuch(size)
           /\ pc' = "read" /\ window' = {raw}
           /\ UNCHANGED <<discovery, skipped, next, totals, outcome, history>>
           /\ Control
  <2>1. UNCHANGED <<plan, tree, held, candidates, skipped, next, totalBytes, totalMatches, ranked>>
    BY <1>8 DEF Control, discovery, totals, environment
  <2>2. Fits(Given(tree), Candidate) /\ size <= Remaining
    <3>1. ~(size > Remaining)
      BY <1>8 DEF TooMuch
    <3> HIDE DEF size
    <3> QED BY <1>3, <1>5, <1>8, <3>1
  <2>3. Passed'
    <3>1. ~TooManyEntries(tree)' /\ ~CannotList(tree)' /\ candidates' = SubSeq(Eligible(tree)', 1, Share')
      BY <1>2, <2>1, SameScan DEF Passed
    <3>2. /\ \A k \in 1 .. next - 1 : ~Exceeds(Given(tree), UpTo(k))
          /\ Lists(skipped, FirstGaps \cup LargeGaps(next - 1))
      BY <1>2 DEF Passed
    <3>3. /\ UpTo(next - 1)' = UpTo(next - 1) /\ LargeGaps(next - 1)' = LargeGaps(next - 1)
          /\ FirstGaps' = FirstGaps /\ Given(tree)' = Given(tree)
          /\ \A k : UpTo(k)' = UpTo(k)
      <4>1. UpTo(next - 1)' = Sums(Given(tree)', SubSeq(candidates', 1, next' - 1))
        BY DEF UpTo
      <4>2. UpTo(next - 1) = Sums(Given(tree), SubSeq(candidates, 1, next - 1))
        BY DEF UpTo
      <4>3. LargeGaps(next - 1)' = {Gap(candidates'[j], "oversized") :
                                 j \in {i \in 1 .. next' - 1 : ~Fits(Given(tree)', candidates'[i])}}
        BY DEF LargeGaps
      <4>4. LargeGaps(next - 1) = {Gap(candidates[j], "oversized") :
                                 j \in {i \in 1 .. next - 1 : ~Fits(Given(tree), candidates[i])}}
        BY DEF LargeGaps
      <4>5. /\ FirstGaps' = FirstGaps /\ Given(tree)' = Given(tree)
            /\ \A k : UpTo(k)' = UpTo(k)
        BY <2>1, SameScan
      <4> QED BY <2>1, <4>1, <4>2, <4>3, <4>4, <4>5
    <3>4. \A k \in 1 .. next' - 1 : ~Exceeds(Given(tree)', UpTo(k)')
      BY <2>1, <3>2, <3>3
    <3>5. UpTo(next - 1)' = [bytes |-> totalBytes', matches |-> totalMatches', blocks |-> ranked']
      BY <1>2, <2>1, <3>3
    <3>6. Lists(skipped', FirstGaps' \cup LargeGaps(next - 1)')
      BY <2>1, <3>2, <3>3
    <3>7. /\ window' = {tree'[Candidate'].raw} /\ Fits(Given(tree)', Candidate')
          /\ Len(tree'[Candidate'].raw) <= Remaining'
      <4>1. Candidate' = Candidate /\ Remaining' = Remaining
        BY <2>1 DEF Candidate, Remaining
      <4> QED BY <1>8, <2>1, <2>2, <3>3, <4>1
    <3> QED BY <3>1, <3>4, <3>5, <3>6, <3>7 DEF Passed
  <2>4. WalkedStill' /\ DeterminedByTree'
    BY <1>8 DEF WalkedStill, DeterminedByTree, Undisturbed
  <2> QED BY <1>8, <2>3, <2>4 DEF QuietInv, ScannedStill
<1> QED BY <1>6, <1>7, <1>8 DEF OpenCandidate

\* No step of the search writes.
LEMMA SearcherReads == Searcher => UNCHANGED <<tree, held, plan>>
<1> USE DEF Control, Stop, environment
<1>1. RejectPlan \/ AdmitPlan \/ RootOpenFails \/ OpenRoot => UNCHANGED <<tree, held, plan>>
  BY DEF RejectPlan, AdmitPlan, RootOpenFails, OpenRoot
<1>2. \A p \in Paths : Walk(p) => UNCHANGED <<tree, held, plan>>
  BY DEF Walk, WalkPast, WalkOverflows, WalkFails, WalkEntry
<1>3. WalkEnds => UNCHANGED <<tree, held, plan>>
  BY DEF WalkEnds
<1>4. CandidateGone \/ CandidateNonRegular \/ OpenCandidate \/ ScanFault \/ ScanEnds
        => UNCHANGED <<tree, held, plan>>
  BY DEF CandidateGone, CandidateNonRegular, OpenCandidate, ScanFault, ScanEnds, Skip, Break
<1>5. ReadCandidate => UNCHANGED <<tree, held, plan>>
  <2>1. \A raw : Accept(raw) => UNCHANGED <<tree, held, plan>>
    BY DEF Accept, Break
  <2>2. Skip("oversized") \/ Break => UNCHANGED <<tree, held, plan>>
    BY DEF Skip, Break
  <2> QED BY <2>1, <2>2 DEF ReadCandidate
<1> QED BY <1>1, <1>2, <1>3, <1>4, <1>5 DEF Searcher, Scan

\* A write leaves no tree at rest.
LEMMA WriteDisturbs ==
  ASSUME IInv, NEW p \in Paths, NEW node \in Nodes, Write(p, node)
  PROVE  ~Still'
<1>1. tree[p] # node /\ held' = [held EXCEPT ![p] = @ \cup {node}]
  BY DEF Write
<1>2. held \in [Paths -> SUBSET Nodes] /\ tree[p] \in held[p]
  BY DEF IInv, TypeOK, Remembered
<1>3. {tree[p], node} \subseteq held'[p]
  BY <1>1, <1>2
<1>4. held'[p] # {tree'[p]}
  BY <1>1, <1>3
<1> QED BY <1>4 DEF Still

\* Every step keeps what holds of a quiet search.
LEMMA StepQuiet == IInv /\ QuietInv /\ [Next]_vars => QuietInv'
<1> SUFFICES ASSUME IInv, QuietInv, [Next]_vars
             PROVE  QuietInv'
  OBVIOUS
<1>1. CASE UNCHANGED vars
  <2>1. UNCHANGED <<plan, pc, unseen, entries, candidates, skipped, next, window, totalBytes,
                    totalMatches, ranked, outcome, tree, held>>
    BY <1>1 DEF vars, discovery, totals, environment
  <2>2. Still' <=> Still
    BY <2>1 DEF Still
  <2>3. WalkedStill => WalkedStill'
    BY <2>1 DEF WalkedStill, Sources, Secrets
  <2>4. ScannedStill => ScannedStill'
    BY <2>1 DEF ScannedStill, Overflown, Passed, UpTo, LargeGaps, Given, FirstGaps, Secrets,
                Share, Candidate, Remaining
  <2>5. DeterminedByTree => DeterminedByTree'
    <3>1. (Undisturbed' <=> Undisturbed)
      BY <2>1 DEF Undisturbed
    <3> QED BY <2>1, <3>1, SameAnswer DEF DeterminedByTree
  <2> QED BY <2>2, <2>3, <2>4, <2>5 DEF QuietInv
<1>2. CASE Done
  BY <1>1, <1>2 DEF Done
<1>3. ASSUME NEW p \in Paths, NEW node \in Nodes, Write(p, node)
      PROVE  QuietInv'
  BY <1>3, WriteDisturbs, RestlessQuiet
<1>4. CASE Searcher /\ ~Still
  <2>1. ~Still'
    BY <1>4, SearcherReads DEF Still
  <2> QED BY <2>1, RestlessQuiet
<1>5. CASE Searcher /\ Still
  <2>1. UNCHANGED <<tree, held, plan>>
    BY <1>5, SearcherReads
  <2>2. CASE RejectPlan
    <3>1. PICK error : /\ pc' = "done" /\ outcome' = Failed(error)
                       /\ plan.schema_version # SchemaVersion \/ ~ValidLimits(plan)
      BY <2>2 DEF RejectPlan, Stop
    <3> QED BY <2>1, <3>1, FailsElsewhere
  <2>3. CASE AdmitPlan \/ OpenRoot
    BY <2>3, EnteringQuiet
  <2>4. CASE RootOpenFails
    <3>1. PICK error \in {"root_symlink", "unsafe_path", "root_open"} :
            pc' = "done" /\ outcome' = Failed(error)
      BY <2>4 DEF RootOpenFails, Stop
    <3> QED BY <2>1, <3>1, FailsElsewhere
  <2>5. ASSUME NEW p \in Paths, Walk(p)
        PROVE  QuietInv'
    BY <2>5, PastQuiet, OverflowQuiet, ListingQuiet, EntryQuiet DEF Walk
  <2>6. CASE WalkEnds
    BY <2>6, WalkEndsQuiet
  <2>7. CASE CandidateGone \/ ScanFault
    <3>1. pc' = "done" /\ outcome' = Failed("file_io")
      BY <2>7 DEF CandidateGone, ScanFault, Stop
    <3> QED BY <2>1, <3>1, FailsElsewhere
  <2>8. CASE CandidateNonRegular
    <3>1. pc \in {"scan", "read"} /\ next <= Len(candidates) /\ tree[Candidate] = Directory
      BY <2>8 DEF CandidateNonRegular, AtCandidate
    <3>2. tree[Candidate].kind = "file"
      BY <1>5, <3>1, AtPassed
    <3> QED BY <3>1, <3>2 DEF Directory, Node
  <2>9. CASE OpenCandidate
    BY <1>5, <2>9, OpenQuiet
  <2>10. CASE ReadCandidate
    BY <1>5, <2>10, ReadQuiet
  <2>11. CASE ScanEnds
    BY <2>11, ScanEndsQuiet
  <2> QED BY <1>5, <2>2, <2>3, <2>4, <2>5, <2>6, <2>7, <2>8, <2>9, <2>10, <2>11
          DEF Searcher, Scan
<1> QED BY <1>1, <1>2, <1>3, <1>4, <1>5 DEF Next

\* The result of a search is a function of the plan and the tree: neither the
\* order of the walker nor that in which files were created ever shows
\* (search, discover).
THEOREM SearchDeterminedByTree == Spec => []DeterminedByTree
<1>1. Init => IInv /\ QuietInv
  BY InitInv, InitQuiet
<1>2. (IInv /\ QuietInv) /\ [Next]_vars => (IInv /\ QuietInv)'
  BY StepInv, StepQuiet
<1>3. IInv /\ QuietInv => DeterminedByTree
  BY DEF QuietInv
<1> QED BY <1>1, <1>2, <1>3, PTL DEF Spec

(***************************************************************************)
(* A search while others write.  Each candidate is read once, and what the *)
(* search has kept are all blocks of what it read.                         *)
(***************************************************************************)

IsReading(reading) ==
  /\ \A p \in scanned : reading[p] \in Readable(Versions(p))
  /\ ToSet(ranked) = BlocksOf(reading)

\* The walker names a path once, the scan comes to it once, and what it reads
\* the path has held.
ReadOnce ==
  /\ pc \in {"plan", "root", "walk"} =>
       /\ IsInjective(candidates)
       /\ \A k \in DOMAIN candidates : candidates[k] \notin unseen
  /\ pc \in {"scan", "read"} =>
       /\ IsInjective(candidates)
       /\ \A k \in next .. Len(candidates) : candidates[k] \notin scanned
  /\ pc = "read" => window \subseteq Versions(Candidate)
  /\ \E reading \in [scanned -> ByteString] : IsReading(reading)

\* More versions, more that reading may yield.
LEMMA MoreToRead ==
  ASSUME NEW V, NEW W, V \subseteq W
  PROVE  Readable(V) \subseteq Readable(W)
BY DEF Readable

\* A path has held contents, and reading them yields byte strings.
LEMMA VersionsType ==
  ASSUME IInv, NEW p \in Paths
  PROVE  Versions(p) \subseteq Contents /\ Readable(Versions(p)) \subseteq ByteString
<1>1. held[p] \in SUBSET Nodes
  BY DEF IInv, TypeOK
<1>2. Versions(p) \in SUBSET Contents
  BY <1>1, FileNodes DEF Versions
<1> QED BY <1>2, ReadableType

\* Only scanned files have blocks.
LEMMA ScannedPaths == IInv => scanned \subseteq Paths
<1> SUFFICES ASSUME IInv, NEW p \in scanned
             PROVE  p \in Paths
  OBVIOUS
<1>1. p \in ToSet(candidates)
  BY DEF IInv, TypeOK
<1> QED BY <1>1, Types DEF ToSet

\* While no file is accepted, the reading stays what it was.
LEMMA ReadingKept ==
  ASSUME IInv, ReadOnce, UNCHANGED <<plan, scanned, ranked>>,
         \A p \in Paths : held[p] \subseteq held'[p]
  PROVE  (\E reading \in [scanned -> ByteString] : IsReading(reading))'
<1>1. PICK reading \in [scanned -> ByteString] : IsReading(reading)
  BY DEF ReadOnce
<1>2. ASSUME NEW p \in scanned
      PROVE  reading[p] \in Readable(Versions(p)')
  <2>1. p \in Paths
    BY ScannedPaths
  <2>2. Versions(p) \subseteq Versions(p)'
    BY <2>1 DEF Versions
  <2> QED BY <1>1, <2>2, MoreToRead DEF IsReading
<1>3. BlocksOf(reading)' = BlocksOf(reading)
  BY DEF BlocksOf
<1>4. IsReading(reading)'
  BY <1>1, <1>2, <1>3 DEF IsReading
<1> QED BY <1>4

\* A search that has not begun has read nothing.
LEMMA InitReads == Init => ReadOnce
<1> SUFFICES ASSUME Init
             PROVE  ReadOnce
  OBVIOUS
<1>1. pc = "plan" /\ candidates = <<>> /\ scanned = {} /\ ranked = <<>>
  BY DEF Init
<1>2. IsInjective(candidates) /\ DOMAIN candidates = {}
  BY <1>1 DEF IsInjective
<1>3. \E reading \in [scanned -> ByteString] : IsReading(reading)
  <2>1. [p \in {} |-> <<>>] \in [scanned -> ByteString]
    BY <1>1
  <2>2. ToSet(ranked) = {} /\ \A reading : BlocksOf(reading) = {}
    BY <1>1 DEF BlocksOf, ToSet
  <2> QED BY <1>1, <2>1, <2>2 DEF IsReading
<1> QED BY <1>1, <1>2, <1>3 DEF ReadOnce

\* A search that stops keeps what it has read.
LEMMA StopReads ==
  ASSUME IInv, ReadOnce, pc' = "done", UNCHANGED <<plan, scanned, ranked, held>>
  PROVE  ReadOnce'
<1>1. (\E reading \in [scanned -> ByteString] : IsReading(reading))'
  BY ReadingKept
<1> QED BY <1>1 DEF ReadOnce

\* Before the scan the candidates are paths that the walker has seen.
LEMMA WalkReads ==
  ASSUME IInv, ReadOnce, NEW p \in Paths, WalkPast(p) \/ WalkEntry(p)
  PROVE  ReadOnce'
<1>1. /\ pc = "walk" /\ pc' = "walk" /\ p \in unseen /\ unseen' = unseen \ {p}
      /\ candidates' \in {candidates, Append(candidates, p)}
      /\ UNCHANGED <<plan, scanned, ranked, held>>
  BY DEF WalkPast, WalkEntry, Walking, Control, environment, history, totals
<1>2. (\E reading \in [scanned -> ByteString] : IsReading(reading))'
  BY <1>1, ReadingKept
<1>3. IsInjective(candidates) /\ \A k \in DOMAIN candidates : candidates[k] \notin unseen
  BY <1>1 DEF ReadOnce
<1>4. IsInjective(candidates') /\ \A k \in DOMAIN candidates' : candidates'[k] \notin unseen'
  <2>1. CASE candidates' = candidates
    BY <1>1, <1>3, <2>1
  <2>2. CASE candidates' = Append(candidates, p)
    <3> DEFINE S == ToSet(candidates)
    <3>1. candidates \in Seq(Paths) /\ Lists(candidates, S) /\ p \notin S
      <4>1. candidates \in Seq(Paths)
        BY Types
      <4> QED BY <1>1, <1>3, <4>1 DEF Lists, ToSet
    <3>2. \A q \in S : q \notin unseen
      BY <1>3 DEF ToSet
    <3> HIDE DEF S
    <3>3. Lists(Append(candidates, p), S \cup {p})
      BY <3>1, ListsMore
    <3>4. \A k \in DOMAIN candidates' : candidates'[k] \in S \cup {p}
      BY <2>2, <3>3 DEF Lists, ToSet
    <3> QED BY <1>1, <2>2, <3>2, <3>3, <3>4 DEF Lists
  <2> QED BY <1>1, <2>1, <2>2
<1> QED BY <1>1, <1>2, <1>4 DEF ReadOnce

\* Sorting and cutting the candidates repeats none.
LEMMA WalkEndsReads ==
  ASSUME IInv, ReadOnce, WalkEnds
  PROVE  ReadOnce'
<1> DEFINE P == Paths \ SecretPaths
           R == PathPairs(P)
           sorted == PathOrder!Sorted(candidates)
           kept == Smaller(Len(sorted), MAX_CANDIDATE_FILES)
           n == Len(candidates)
<1>1. /\ pc = "walk" /\ pc' = "scan" /\ candidates' = SubSeq(sorted, 1, kept)
      /\ UNCHANGED <<plan, scanned, ranked, held>>
  BY DEF WalkEnds, Control, environment, history, totals
<1>2. scanned = {} /\ IsInjective(candidates)
  BY <1>1 DEF IInv, Unscanned, ReadOnce
<1>3. (\E reading \in [scanned -> ByteString] : IsReading(reading))'
  BY <1>1, ReadingKept
<1>4. /\ candidates \in Seq(P) /\ n \in Nat /\ DOMAIN candidates = 1 .. n
      /\ StrictWeakOrder(R, P) /\ sorted = SortedBy(R, candidates)
  <2>1. P \in SUBSET ByteString
    BY PathsAssumption DEF ByteString
  <2> QED BY <2>1, Types, PathsOrdered, PathsSortedBy
<1> HIDE DEF R, P, sorted
<1>5. /\ sorted \in Seq(P) /\ Len(sorted) = n
      /\ origin(R, candidates) \in Bijection(1 .. n, 1 .. n)
      /\ \A k \in 1 .. n : sorted[k] = candidates[origin(R, candidates)[k]]
  BY <1>4, SortedPermutes
<1>6. \A j, k \in 1 .. n : sorted[j] = sorted[k] => j = k
  <2>1. \A k \in 1 .. n : origin(R, candidates)[k] \in 1 .. n
    BY <1>5 DEF Bijection, Injection
  <2>2. \A j, k \in 1 .. n : origin(R, candidates)[j] = origin(R, candidates)[k] => j = k
    BY <1>5 DEF Bijection, Injection, IsInjective
  <2> QED BY <1>2, <1>4, <1>5, <2>1, <2>2 DEF IsInjective
<1>7. kept \in 0 .. n
  BY <1>4, <1>5, LimitsType DEF Smaller
<1> HIDE DEF kept
<1>8. /\ DOMAIN candidates' = 1 .. kept
      /\ \A k \in 1 .. kept : candidates'[k] = sorted[k] /\ k \in 1 .. n
  BY <1>1, <1>4, <1>5, <1>7, SubSeqProperties
<1>9. IsInjective(candidates')
  BY <1>6, <1>8 DEF IsInjective
<1> QED BY <1>1, <1>2, <1>3, <1>9 DEF ReadOnce

\* A candidate that is skipped is not read again.
LEMMA SkipReads ==
  ASSUME IInv, ReadOnce, pc \in {"scan", "read"}, NEW reason, Skip(reason)
  PROVE  ReadOnce'
<1>1. /\ pc' = "scan" /\ next' = next + 1
      /\ UNCHANGED <<plan, candidates, scanned, ranked, held>>
  BY DEF Skip, Control, discovery, totals, environment
<1>2. (\E reading \in [scanned -> ByteString] : IsReading(reading))'
  BY <1>1, ReadingKept
<1>3. next' .. Len(candidates') \subseteq next .. Len(candidates)
  BY <1>1, Types
<1> QED BY <1>1, <1>2, <1>3 DEF ReadOnce

\* An accepted file adds all blocks of what was read of it.
LEMMA AcceptReads ==
  ASSUME IInv, ReadOnce, pc = "read", NEW raw \in Readable(window), Accept(raw)
  PROVE  ReadOnce'
<1> DEFINE found == blocks_for_file(plan, Candidate, raw)
<1>1. CASE Break
  <2>1. pc' = "done" /\ UNCHANGED <<plan, scanned, ranked, held>>
    BY <1>1 DEF Break, Stop, Control, totals, environment
  <2> QED BY <2>1, StopReads
<1>2. CASE ~Break
  <2>1. /\ pc' = "scan" /\ next' = next + 1
        /\ ranked' = ranked \o found /\ scanned' = scanned \cup {Candidate}
        /\ UNCHANGED <<plan, candidates, held>>
    BY <1>2 DEF Accept, Control, discovery, environment
  <2>2. /\ IsInjective(candidates) /\ next \in 1 .. Len(candidates)
        /\ DOMAIN candidates = 1 .. Len(candidates)
        /\ \A k \in next .. Len(candidates) : candidates[k] \notin scanned
    BY Types DEF ReadOnce, IInv, TypeOK
  <2>3. Candidate = candidates[next] /\ Candidate \in Paths /\ Candidate \notin scanned
    <3>1. next \in next .. Len(candidates)
      BY <2>2
    <3> QED BY <2>2, <3>1, Types DEF Candidate
  <2>4. \A k \in next' .. Len(candidates) : candidates[k] \notin scanned'
    <3> TAKE k \in next' .. Len(candidates)
    <3>1. k \in next .. Len(candidates) /\ k \in 1 .. Len(candidates) /\ k # next
      BY <2>1, <2>2, Types
    <3> QED BY <2>1, <2>2, <2>3, <3>1 DEF IsInjective
  <2>5. PICK reading \in [scanned -> ByteString] : IsReading(reading)
    BY DEF ReadOnce
  <2>6. raw \in Readable(Versions(Candidate)) /\ raw \in ByteString
    <3>1. window \subseteq Versions(Candidate)
      BY DEF ReadOnce
    <3> QED BY <2>3, <3>1, MoreToRead, VersionsType
  <2> DEFINE after == [p \in scanned' |-> IF p = Candidate THEN raw ELSE reading[p]]
  <2>7. PICK more : more = after
    OBVIOUS
  <2>12. more \in [scanned' -> ByteString]
    BY <2>1, <2>6, <2>7
  <2>8. ToSet(ranked') = ToSet(ranked) \cup ToSet(found)
    <3>1. ranked \in Seq(ToSet(ranked)) /\ found \in Seq(ToSet(found))
      <4>1. IsPlan(plan)
        BY Types, PlanType
      <4>2. found \in Seq(ToSet(found))
        BY <2>6, <4>1, BlocksType
      <4>3. ranked \in Seq(ToSet(ranked))
        BY DEF IInv, Spent
      <4> QED BY <4>2, <4>3
    <3> HIDE DEF found
    <3>2. ranked \in Seq(ToSet(ranked) \cup ToSet(found)) /\ found \in Seq(ToSet(ranked) \cup ToSet(found))
      BY <3>1
    <3> QED BY <2>1, <3>2, ToSetConcat
  <2>9. BlocksOf(more)' = BlocksOf(reading) \cup ToSet(found)
    <3> DEFINE file(p, r) == ToSet(blocks_for_file(plan, p, r))
    <3>1. BlocksOf(more)' = UNION {file(p, more[p]) : p \in scanned'}
      BY <2>1 DEF BlocksOf
    <3>2. BlocksOf(reading) = UNION {file(p, reading[p]) : p \in scanned}
      BY DEF BlocksOf
    <3>3. \A p \in scanned : more[p] = reading[p]
      BY <2>1, <2>3, <2>7
    <3>4. more[Candidate] = raw /\ file(Candidate, raw) = ToSet(found)
      BY <2>1, <2>7
    <3> HIDE DEF file, found
    <3> QED BY <2>1, <3>1, <3>2, <3>3, <3>4
  <2>10. \A p \in scanned' : more[p] \in Readable(Versions(p)')
    BY <2>1, <2>3, <2>5, <2>6, <2>7 DEF IsReading, Versions
  <2>11. IsReading(more)'
    <3> HIDE DEF found
    <3> QED BY <2>5, <2>8, <2>9, <2>10 DEF IsReading
  <2>13. (\E other \in [scanned -> ByteString] : IsReading(other))'
    BY <2>11, <2>12
  <2> HIDE DEF found
  <2> QED BY <2>1, <2>2, <2>4, <2>13 DEF ReadOnce
<1> QED BY <1>1, <1>2

\* What is read of a file was held when it was opened, or written since.
LEMMA OpenReads ==
  ASSUME IInv, ReadOnce, OpenCandidate
  PROVE  ReadOnce'
<1>1. pc = "scan" /\ next <= Len(candidates) /\ tree[Candidate].kind = "file"
  BY DEF OpenCandidate, AtCandidate
<1>2. CASE \E reason : Skip(reason)
  BY <1>1, <1>2, SkipReads
<1>3. CASE Break
  <2>1. pc' = "done" /\ UNCHANGED <<plan, scanned, ranked, held>>
    BY <1>3 DEF Break, Stop, Control, totals, environment
  <2> QED BY <2>1, StopReads
<1>4. CASE /\ pc' = "read" /\ window' = {tree[Candidate].raw}
           /\ UNCHANGED <<discovery, skipped, next, totals, outcome, history>>
           /\ Control
  <2>1. UNCHANGED <<plan, candidates, next, scanned, ranked, held>>
    BY <1>4 DEF Control, discovery, totals, environment, history
  <2>2. (\E reading \in [scanned -> ByteString] : IsReading(reading))'
    BY <2>1, ReadingKept
  <2>3. Candidate \in Paths
    <3>1. next \in 1 .. Len(candidates)
      BY <1>1, Types
    <3> QED BY <3>1, Types DEF Candidate
  <2>4. window' \subseteq Versions(Candidate)
    BY <1>1, <1>4, <2>3 DEF IInv, Remembered, Versions
  <2>5. Versions(Candidate)' = Versions(Candidate)
    BY <2>1 DEF Versions, Candidate
  <2> QED BY <1>1, <1>4, <2>1, <2>2, <2>4, <2>5 DEF ReadOnce
<1> QED BY <1>2, <1>3, <1>4 DEF OpenCandidate

\* A write only adds to what may have been read.
LEMMA WriteReads ==
  ASSUME IInv, ReadOnce, NEW p \in Paths, NEW node \in Nodes, Write(p, node)
  PROVE  ReadOnce'
<1>1. /\ held' = [held EXCEPT ![p] = @ \cup {node}]
      /\ \/ window' = window
         \/ /\ pc = "read" /\ p = Candidate /\ node.kind = "file"
            /\ window' = window \cup {node.raw}
      /\ UNCHANGED <<plan, pc, unseen, candidates, next, scanned, ranked>>
  BY DEF Write, discovery, totals, history
<1>2. held \in [Paths -> SUBSET Nodes]
  BY DEF IInv, TypeOK
<1>3. \A q \in Paths : held[q] \subseteq held'[q]
  BY <1>1, <1>2
<1>4. (\E reading \in [scanned -> ByteString] : IsReading(reading))'
  BY <1>1, <1>3, ReadingKept
<1>5. ASSUME pc = "read"
      PROVE  window' \subseteq Versions(Candidate)'
  <2>1. Candidate' = Candidate /\ Candidate \in Paths
    <3>1. next \in 1 .. Len(candidates)
      BY <1>5, Types DEF IInv, TypeOK
    <3> QED BY <1>1, <3>1, Types DEF Candidate
  <2>2. window \subseteq Versions(Candidate)
    BY <1>5 DEF ReadOnce
  <2>3. Versions(Candidate)' = {other.raw : other \in {n \in held'[Candidate] : n.kind = "file"}}
    BY <2>1 DEF Versions
  <2>4. Versions(Candidate) \subseteq Versions(Candidate)'
    BY <1>3, <2>1, <2>3 DEF Versions
  <2>5. p = Candidate /\ node.kind = "file" => node.raw \in Versions(Candidate)'
    BY <1>1, <1>2, <2>3
  <2> QED BY <1>1, <2>2, <2>4, <2>5
<1> QED BY <1>1, <1>4, <1>5 DEF ReadOnce

\* Every step reads once.
LEMMA StepReads == IInv /\ ReadOnce /\ [Next]_vars => ReadOnce'
<1> SUFFICES ASSUME IInv, ReadOnce, [Next]_vars
             PROVE  ReadOnce'
  OBVIOUS
<1>1. CASE UNCHANGED vars
  <2>1. UNCHANGED <<plan, pc, unseen, candidates, next, window, ranked, held, scanned>>
    BY <1>1 DEF vars, discovery, totals, environment, history
  <2>2. (\E reading \in [scanned -> ByteString] : IsReading(reading))'
    BY <2>1, ReadingKept
  <2> QED BY <2>1, <2>2 DEF ReadOnce, Versions, Candidate
<1>2. CASE Done
  BY <1>1, <1>2 DEF Done
<1>3. CASE \E result : Stop(result) /\ UNCHANGED history
  <2>1. pc' = "done" /\ UNCHANGED <<plan, scanned, ranked, held>>
    BY <1>3 DEF Stop, Control, totals, environment, history
  <2> QED BY <2>1, StopReads
<1>4. RejectPlan \/ RootOpenFails \/ CandidateGone \/ ScanFault \/ ScanEnds
        => \E result : Stop(result) /\ UNCHANGED history
  BY DEF RejectPlan, RootOpenFails, CandidateGone, ScanFault, ScanEnds
<1>5. CASE AdmitPlan \/ OpenRoot
  <2>1. /\ pc \in {"plan", "root"} /\ pc' \in {"root", "walk"}
        /\ UNCHANGED <<plan, unseen, candidates, scanned, ranked, held>>
    BY <1>5 DEF AdmitPlan, OpenRoot, Control, discovery, totals, environment, history
  <2>2. (\E reading \in [scanned -> ByteString] : IsReading(reading))'
    BY <2>1, ReadingKept
  <2> QED BY <2>1, <2>2 DEF ReadOnce
<1>6. ASSUME NEW p \in Paths, Walk(p)
      PROVE  ReadOnce'
  <2>1. CASE WalkPast(p) \/ WalkEntry(p)
    BY <2>1, WalkReads
  <2>2. CASE WalkFails(p)
    BY <1>3, <2>2 DEF WalkFails
  <2>3. CASE WalkOverflows(p)
    <3>1. /\ pc = "walk" /\ pc' = "scan" /\ candidates' = <<>>
          /\ UNCHANGED <<plan, scanned, ranked, held>>
      BY <2>3 DEF WalkOverflows, Walking, Control, totals, environment, history
    <3>2. (\E reading \in [scanned -> ByteString] : IsReading(reading))'
      BY <3>1, ReadingKept
    <3>3. IsInjective(candidates') /\ scanned' = {}
      BY <3>1 DEF IsInjective, IInv, Unscanned
    <3> QED BY <3>1, <3>2, <3>3 DEF ReadOnce
  <2> QED BY <1>6, <2>1, <2>2, <2>3 DEF Walk
<1>7. CASE WalkEnds
  BY <1>7, WalkEndsReads
<1>8. CASE CandidateNonRegular
  BY <1>8, SkipReads DEF CandidateNonRegular, AtCandidate
<1>9. CASE OpenCandidate
  BY <1>9, OpenReads
<1>10. CASE ReadCandidate
  <2>1. PICK raw \in Readable(window) : Skip("oversized") \/ Break \/ Accept(raw)
    BY <1>10 DEF ReadCandidate
  <2>2. pc = "read"
    BY <1>10 DEF ReadCandidate
  <2>3. CASE Skip("oversized")
    BY <2>2, <2>3, SkipReads
  <2>4. CASE Break
    <3>1. pc' = "done" /\ UNCHANGED <<plan, scanned, ranked, held>>
      BY <2>4 DEF Break, Stop, Control, totals, environment
    <3> QED BY <3>1, StopReads
  <2>5. CASE Accept(raw)
    BY <2>2, <2>5, AcceptReads
  <2> QED BY <2>1, <2>3, <2>4, <2>5
<1>11. ASSUME NEW p \in Paths, NEW node \in Nodes, Write(p, node)
       PROVE  ReadOnce'
  BY <1>11, WriteReads
<1> QED BY <1>1, <1>2, <1>3, <1>4, <1>5, <1>6, <1>7, <1>8, <1>9, <1>10, <1>11
        DEF Next, Searcher, Scan

\* A result is made of all blocks of one reading.
LEMMA ReadsAreBest == IInv /\ ReadOnce => BestOfOneReading
<1> SUFFICES ASSUME IInv, ReadOnce, Finished
             PROVE  \E reading \in [scanned -> UNION {Readable(Versions(p)) : p \in scanned}] :
                      /\ \A p \in scanned : reading[p] \in Readable(Versions(p))
                      /\ AreBestOf(outcome.blocks, BlocksOf(reading))
  BY DEF BestOfOneReading
<1>1. PICK reading \in [scanned -> ByteString] : IsReading(reading)
  BY DEF ReadOnce
<1>2. reading \in [scanned -> UNION {Readable(Versions(p)) : p \in scanned}]
  BY <1>1 DEF IsReading
<1>3. outcome = Result(ranked, skipped) /\ ranked \in Seq(ToSet(ranked))
  BY DEF IInv, Reported, Spent
<1>4. \A b \in ToSet(ranked) : IsRanked(b)
  <2> SUFFICES ASSUME NEW b \in BlocksOf(reading)
               PROVE  IsRanked(b)
    BY <1>1 DEF IsReading
  <2>1. PICK p \in scanned : b \in ToSet(blocks_for_file(plan, p, reading[p]))
    BY DEF BlocksOf
  <2>2. p \in ByteString
    BY ScannedPaths, PathsAssumption DEF ByteString
  <2> QED BY <1>1, <2>1, <2>2, Types, PlanType, BuiltBlocksRank
<1>5. AreBestOf(outcome.blocks, ToSet(ranked))
  BY <1>3, <1>4, Types, ResultIsBest
<1> QED BY <1>1, <1>2, <1>5 DEF IsReading

\* Whatever is written during a search, its result is the best max_blocks
\* blocks of one reading of each file it scanned (search, read_candidate,
\* compare_ranked).
THEOREM ResultIsOneReading == Spec => []BestOfOneReading
<1>1. Init => IInv /\ ReadOnce
  BY InitInv, InitReads
<1>2. (IInv /\ ReadOnce) /\ [Next]_vars => (IInv /\ ReadOnce)'
  BY StepInv, StepReads
<1> QED BY <1>1, <1>2, ReadsAreBest, PTL DEF Spec
=============================================================================
