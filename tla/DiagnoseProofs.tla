--------------------------- MODULE DiagnoseProofs ---------------------------
(***************************************************************************)
(* Theorems about Diagnose, for any tree, contents and budget.             *)
(***************************************************************************)
EXTENDS Diagnose, FiniteSetTheorems, SequenceTheorems, TLAPS

Line == SUBSET STRING

(***************************************************************************)
(* The operators.                                                          *)
(***************************************************************************)

\* What kinds of nodes there are.
LEMMA NodeKinds ==
  ASSUME NEW node \in Nodes
  PROVE  /\ node.kind = "file" => node.raw \in Contents /\ node = File(node.raw)
         /\ node \in {Missing, Directory, Link, Unlisted} => node.kind # "file"
BY DEF Nodes, File, Missing, Directory, Denied, Link, Unlisted, Node

\* A splice of two sources is a sequence of lines.
LEMMA SpliceType ==
  ASSUME NEW old \in Seq(Line), NEW new \in Seq(Line), NEW k \in 0 .. Len(old)
  PROVE  SubSeq(old, 1, k) \o SubSeq(new, k + 1, Len(new)) \in Seq(Line)
<1>1. SubSeq(old, 1, k) \in Seq(Line)
  <2>1. \A i \in 1 .. k : old[i] \in Line
    BY ElementOfSeq, LenProperties
  <2> QED BY <2>1, LenProperties, SubSeqProperties
<1>2. SubSeq(new, k + 1, Len(new)) \in Seq(Line)
  <2>1. \A i \in k + 1 .. Len(new) : new[i] \in Line
    BY ElementOfSeq, LenProperties
  <2> QED BY <2>1, LenProperties, SubSeqProperties
<1> QED BY <1>1, <1>2, ConcatProperties

\* Whatever an open source yields is a sequence of lines, with a length.
LEMMA ReadableType ==
  ASSUME NEW W \in SUBSET Contents, NEW raw \in Readable(W)
  PROVE  raw \in Seq(Line) /\ Len(raw) \in Nat
<1>1. PICK v \in W \X W : raw \in Splices(v[1], v[2])
  BY DEF Readable
<1>2. PICK k \in 0 .. Len(v[1]) :
        raw = SubSeq(v[1], 1, k) \o SubSeq(v[2], k + 1, Len(v[2]))
  BY <1>1 DEF Splices
<1>3. v[1] \in Seq(Line) /\ v[2] \in Seq(Line)
  BY ContentsAssumption DEF Line
<1> QED BY <1>2, <1>3, SpliceType, LenProperties

\* More versions yield no less.
LEMMA ReadableGrows ==
  ASSUME NEW W, NEW X, W \subseteq X, NEW raw \in Readable(W)
  PROVE  raw \in Readable(X)
BY DEF Readable

(***************************************************************************)
(* The types.                                                              *)
(***************************************************************************)

\* Until the last read, what is read is what is kept, within the total.
Metered ==
  /\ total_bytes <= max_total_bytes /\ consumed <= max_total_bytes + 1
  /\ pc # "done" => consumed = total_bytes

\* TypeOK, with the sequences it leaves open.
TypeInv ==
  /\ TypeOK /\ Metered
  /\ corpus \in Seq([path : Paths, raw : Seq(Line)])

LEMMA TypeInit == Init => TypeInv
<1> SUFFICES ASSUME Init PROVE TypeInv
  OBVIOUS
<1>1. held \in [Paths -> SUBSET Nodes]
  BY DEF Init
<1>2. <<>> \in Seq(Paths) /\ Len(<<>>) = 0 /\ corpus \in Seq([path : Paths, raw : Seq(Line)])
  BY EmptySeq DEF Init
<1> QED BY <1>1, <1>2, BudgetAssumption DEF Init, TypeInv, TypeOK, NoOutcome, Metered

\* A source is a path.
LEMMA SourceType ==
  ASSUME TypeInv, next <= Len(sources)
  PROVE  Source \in Paths
<1>1. sources \in Seq(Paths) /\ next \in 1 .. Len(sources)
  BY LenProperties DEF TypeInv, TypeOK
<1> QED BY <1>1, ElementOfSeq DEF Source

\* Whatever ends the diagnosis keeps the types.
LEMMA StopType ==
  ASSUME TypeInv, NEW result, Stop(result), consumed' \in 0 .. max_total_bytes + 1,
         result.kind \in {"diagnosis", "error"}
  PROVE  TypeInv'
BY DEF TypeInv, TypeOK, Metered, Stop, listing, results, environment

LEMMA TypeStep == TypeInv /\ [Next]_vars => TypeInv'
<1> SUFFICES ASSUME TypeInv, [Next]_vars PROVE TypeInv'
  OBVIOUS
<1> USE DEF TypeInv, Metered
<1>f. \A error : Failed(error).kind = "error" /\ Diagnosis.kind = "diagnosis"
  BY DEF Failed, Diagnosis
<1>l. sources \in Seq(Paths) /\ Len(sources) \in Nat /\ next \in 1 .. Len(sources) + 1
  BY LenProperties DEF TypeOK
<1>c. consumed \in 0 .. max_total_bytes + 1 /\ max_total_bytes \in Nat /\ total_bytes \in Nat
  BY BudgetAssumption DEF TypeOK
<1>1. CASE RootOpenFails
  BY <1>1, <1>c, <1>f, StopType DEF RootOpenFails
<1>2. CASE OpenRoot
  BY <1>2 DEF OpenRoot, TypeOK, listing, results, environment
<1>3. ASSUME NEW p \in Paths, Walk(p) PROVE TypeInv'
  <2>1. CASE WalkPast(p)
    BY <2>1 DEF WalkPast, Walking, TypeOK, results, environment
  <2>2. CASE WalkFails(p) \/ WalkFull(p) \/ WalkUnnamed(p)
    BY <2>2, <1>c, <1>f, StopType DEF WalkFails, WalkFull, WalkUnnamed
  <2>3. CASE WalkSource(p)
    <3>1. /\ sources' \in Seq(Paths) /\ Len(sources') = Len(sources) + 1
          /\ unseen' \subseteq Paths
      BY <2>3, <1>l, AppendProperties DEF WalkSource, TypeOK
    <3>2. next' \in 1 .. Len(sources') + 1 /\ pc' = "walk" /\ pc = "walk"
      BY <2>3, <3>1, <1>l DEF WalkSource, Walking
    <3> QED BY <2>3, <3>1, <3>2 DEF WalkSource, TypeOK, results, environment
  <2> QED BY <1>3, <2>1, <2>2, <2>3 DEF Walk
<1>4. CASE WalkEnds
  <2>1. sources' \in [DOMAIN sources -> Paths]
    BY <1>4, <1>l, ElementOfSeq, LenProperties DEF WalkEnds, ToSet
  <2>2. sources' \in Seq(Paths) /\ Len(sources') = Len(sources)
    BY <2>1, <1>l, LenProperties, IsASeq
  <2> QED BY <1>4, <2>2 DEF WalkEnds, TypeOK, results, environment
<1>5. CASE Scan
  <2>1. CASE SourceChanged \/ ScanFault \/ ScanEnds
    BY <2>1, <1>c, <1>f, StopType DEF SourceChanged, ScanFault, ScanEnds
  <2>2. CASE OpenSource
    <3>1. CASE Stop(Failed("file_bytes")) \/ Stop(Failed("total_bytes"))
      BY <2>2, <3>1, <1>c, <1>f, StopType DEF OpenSource
    <3>2. CASE /\ pc' = "read" /\ window' = {tree[Source].raw}
               /\ UNCHANGED <<listing, next, results, outcome, environment>>
      <4>1. tree[Source] \in Nodes /\ tree[Source].kind = "file"
        BY <2>2, SourceType DEF OpenSource, AtSource, TypeOK
      <4>2. window' \subseteq Contents
        BY <4>1, <3>2, NodeKinds
      <4> QED BY <4>2, <2>2, <3>2 DEF OpenSource, AtSource, TypeOK, listing, results,
                                      environment
    <3> QED BY <2>2, <3>1, <3>2 DEF OpenSource
  <2>3. CASE ReadSource
    <3> DEFINE n(raw) == Smaller(Len(raw), ReadLimit)
    <3>1. PICK raw \in Readable(window) :
            /\ consumed' = consumed + n(raw)
            /\ \/ Stop(Failed("file_bytes"))
               \/ Stop(Failed("total_bytes"))
               \/ ~TooLarge(n(raw)) /\ ~TooMuch(n(raw)) /\ Visit(raw)
      BY <2>3 DEF ReadSource
    <3>2. raw \in Seq(Line) /\ Len(raw) \in Nat
      BY ReadableType DEF TypeOK
    <3>3. consumed = total_bytes /\ pc = "read"
      BY <2>3 DEF ReadSource
    <3>4. consumed' \in 0 .. max_total_bytes + 1
      BY <3>1, <3>2, <3>3, <1>c, BudgetAssumption DEF Smaller, ReadLimit, Remaining
    <3>5. CASE Stop(Failed("file_bytes")) \/ Stop(Failed("total_bytes"))
      BY <3>4, <3>5, <1>f, StopType
    <3>6. CASE ~TooLarge(n(raw)) /\ ~TooMuch(n(raw)) /\ Visit(raw)
      <4>1. n(raw) = Len(raw) /\ Len(raw) <= Remaining
        BY <3>2, <3>6, <1>c, BudgetAssumption
        DEF Smaller, ReadLimit, Remaining, TooLarge, TooMuch
      <4>2. /\ total_bytes' = consumed' /\ total_bytes' \in Nat
            /\ total_bytes' <= max_total_bytes
        BY <4>1, <3>1, <3>2, <3>3, <3>6, <1>c DEF Visit, Remaining
      <4>3. Source \in Paths /\ next <= Len(sources)
        BY <3>3, SourceType DEF TypeOK
      <4>4. corpus' \in Seq([path : Paths, raw : Seq(Line)])
        BY <4>3, <3>2, <3>6, AppendProperties DEF Visit
      <4>5. \A k \in DOMAIN corpus' : corpus'[k].path \in Paths
        <5>1. corpus' = Append(corpus, [path |-> Source, raw |-> raw])
          BY <3>6 DEF Visit
        <5>2. \A k \in DOMAIN corpus : corpus[k].path \in Paths
          BY DEF TypeOK
        <5> QED BY <5>1, <5>2, <4>3, AppendProperties, LenProperties
      <4>6. next' \in 1 .. Len(sources') + 1 /\ pc' = "scan" /\ window' = {}
        BY <4>3, <3>6, <1>l DEF Visit, listing
      <4> QED BY <3>6, <4>2, <4>4, <4>5, <4>6, <1>c, <3>4
              DEF Visit, TypeOK, listing, environment
    <3> QED BY <3>1, <3>5, <3>6
  <2> QED BY <1>5, <2>1, <2>2, <2>3 DEF Scan
<1>6. ASSUME NEW p \in Paths, NEW node \in Nodes, Write(p, node) PROVE TypeInv'
  <2>1. window' \subseteq Contents
    BY <1>6, NodeKinds DEF Write, TypeOK
  <2>2. writes' \in 0 .. MaxWrites
    BY <1>6, BudgetAssumption DEF Write, TypeOK
  <2>3. tree' \in [Paths -> Nodes] /\ held' \in [Paths -> SUBSET Nodes]
    BY <1>6 DEF Write, TypeOK
  <2> QED BY <1>6, <2>1, <2>2, <2>3 DEF Write, TypeOK, listing, results
<1>7. CASE UNCHANGED vars
  BY <1>7 DEF vars, TypeOK, listing, results, environment
<1>8. CASE Done
  BY <1>7, <1>8 DEF Done
<1> QED BY <1>1, <1>2, <1>3, <1>4, <1>5, <1>6, <1>7, <1>8 DEF Next

LEMMA TypeAlways == Spec => []TypeInv
BY TypeInit, TypeStep, PTL DEF Spec

\* Every variable has its type, and what is read is regular files: for any
\* tree, and whatever is written meanwhile.
THEOREM DiagnoseTypeCorrect == Spec => []TypeOK
<1>1. TypeInv => TypeOK
  BY DEF TypeInv
<1> QED BY <1>1, TypeAlways, PTL

\* A diagnosis never reads more than its total and one byte, however the
\* sources grow.
THEOREM DiagnoseReadsAreBounded == Spec => []ReadsAreBounded
<1>1. TypeInv => ReadsAreBounded
  BY DEF TypeInv, Metered, ReadsAreBounded
<1> QED BY <1>1, TypeAlways, PTL

(***************************************************************************)
(* Nothing is skipped.                                                     *)
(***************************************************************************)

AlwaysFile(p) == \A node \in held[p] : node.kind = "file"

\* Every path holds what it held last.
Remembers == \A p \in Paths : tree[p] \in held[p]

\* No path the walker has passed is missing from the sources, if it has been
\* a file ever since.
Listed == \A p \in Paths \ unseen : AlwaysFile(p) => p \in ToSet(sources)

\* The corpus follows the sources, which are in order, and holds what they held.
Follows ==
  pc \in {"scan", "read"} =>
    /\ unseen = {}
    /\ \A j, k \in DOMAIN sources : j < k => sources[j] < sources[k]
    /\ Len(corpus) = next - 1
    /\ \A k \in 1 .. next - 1 : corpus[k].path = sources[k]

Recorded == \A k \in DOMAIN corpus : corpus[k].raw \in Readable(Versions(corpus[k].path))

Opened == pc = "read" => window \subseteq Versions(Source)

SkipInv ==
  /\ Remembers /\ Listed /\ Follows /\ Recorded /\ Opened
  /\ pc \in {"root", "walk"} => corpus = <<>> /\ next = 1
  /\ Finished => pc = "done" /\ NothingIsSkipped

LEMMA SkipInit == Init => SkipInv
BY EmptySeq DEF Init, SkipInv, Remembers, Listed, Follows, Recorded, Opened, Finished,
                NoOutcome

\* A diagnosis that ends without a result changes nothing that matters.
LEMMA FailureSkips ==
  ASSUME TypeInv, SkipInv, NEW error, Stop(Failed(error)) PROVE SkipInv'
BY DEF Stop, Failed, SkipInv, Remembers, Listed, Follows, Recorded, Opened, Finished,
       AlwaysFile, Versions, listing, results, environment

\* When the last source has been read, every source is in the corpus.
LEMMA ScanEndsComplete ==
  ASSUME TypeInv, SkipInv, ScanEnds PROVE SkipInv'
<1>1. /\ pc = "scan" /\ next = Len(sources) + 1 /\ unseen = {}
      /\ sources \in Seq(Paths) /\ Len(sources) \in Nat
  BY LenProperties DEF ScanEnds, TypeInv, TypeOK, SkipInv, Follows
<1>2. /\ pc' = "done" /\ outcome'.corpus = corpus
      /\ UNCHANGED <<listing, next, window, results, environment>>
  BY DEF ScanEnds, Stop, Diagnosis
<1>3. DOMAIN corpus = 1 .. Len(sources) /\ DOMAIN sources = 1 .. Len(sources)
  BY <1>1, LenProperties DEF TypeInv, SkipInv, Follows
<1>4. \A k \in 1 .. Len(sources) : corpus[k].path = sources[k]
  BY <1>1 DEF SkipInv, Follows
<1>5. ToSet(sources) \subseteq {source.path : source \in ToSet(corpus)}
  BY <1>3, <1>4 DEF ToSet
<1>6. \A p \in Paths : AlwaysFile(p) => \E k \in DOMAIN corpus : corpus[k].path = p
  BY <1>1, <1>3, <1>4 DEF SkipInv, Listed, ToSet
<1>7. \A j, k \in DOMAIN corpus : j < k => corpus[j].path < corpus[k].path
  BY <1>1, <1>3, <1>4 DEF SkipInv, Follows
<1>8. \A k \in DOMAIN corpus : corpus[k].raw \in Readable(Versions(corpus[k].path))
  BY DEF SkipInv, Recorded
<1>9. NothingIsSkipped'
  BY <1>2, <1>5, <1>6, <1>7, <1>8
  DEF NothingIsSkipped, AlwaysFile, Versions, listing, results, environment
<1> QED BY <1>1, <1>2, <1>9
        DEF SkipInv, Remembers, Listed, Follows, Recorded, Opened, AlwaysFile, Versions,
            listing, results, environment

\* A write adds to what a path held, and takes nothing away.
LEMMA WriteSkips ==
  ASSUME TypeInv, SkipInv, NEW p \in Paths, NEW node \in Nodes, Write(p, node)
  PROVE  SkipInv'
<1>1. /\ tree' = [tree EXCEPT ![p] = node] /\ held' = [held EXCEPT ![p] = @ \cup {node}]
      /\ UNCHANGED <<pc, listing, next, results, outcome>>
      /\ pc # "done"
  BY DEF Write
<1>2. tree \in [Paths -> Nodes] /\ held \in [Paths -> SUBSET Nodes]
  BY DEF TypeInv, TypeOK
<1>3. \A q \in Paths : held[q] \subseteq held'[q] /\ tree'[q] \in held'[q]
  BY <1>1, <1>2 DEF SkipInv, Remembers
<1>4. \A q \in Paths : Versions(q) \subseteq Versions(q)' /\ (AlwaysFile(q)' => AlwaysFile(q))
  BY <1>3 DEF Versions, AlwaysFile
<1>5. Listed'
  BY <1>1, <1>4 DEF SkipInv, Listed, listing
<1>6. Recorded'
  <2> SUFFICES ASSUME NEW k \in DOMAIN corpus, NEW q \in Paths, q = corpus[k].path
               PROVE  corpus[k].raw \in Readable(Versions(q)')
    <3>1. \A k \in DOMAIN corpus : corpus[k].path \in Paths
      BY DEF TypeInv, TypeOK
    <3>2. corpus' = corpus
      BY <1>1 DEF results
    <3> QED BY <3>1, <3>2 DEF Recorded, Versions
  <2>1. corpus[k].raw \in Readable(Versions(q))
    BY DEF SkipInv, Recorded
  <2> QED BY <2>1, <1>4, ReadableGrows
<1>7. Opened'
  <2> SUFFICES ASSUME pc = "read" PROVE window' \subseteq Versions(Source)'
    BY <1>1 DEF Opened
  <2>1. Source \in Paths /\ Source' = Source
    BY <1>1, SourceType DEF TypeInv, TypeOK, Source, listing
  <2>2. window \subseteq Versions(Source)'
    BY <2>1, <1>4 DEF SkipInv, Opened, Versions
  <2>3. node.kind = "file" /\ p = Source => node.raw \in Versions(Source)'
    BY <2>1, <1>1, <1>2 DEF Versions
  <2> QED BY <2>2, <2>3 DEF Write
<1>8. ~Finished
  BY <1>1 DEF SkipInv
<1> QED BY <1>1, <1>3, <1>5, <1>6, <1>7, <1>8
        DEF SkipInv, Remembers, Follows, Finished, listing, results

LEMMA SkipStep == TypeInv /\ SkipInv /\ [Next]_vars => SkipInv'
<1> SUFFICES ASSUME TypeInv, SkipInv, [Next]_vars PROVE SkipInv'
  OBVIOUS
<1>l. sources \in Seq(Paths) /\ Len(sources) \in Nat /\ next \in 1 .. Len(sources) + 1
  BY LenProperties DEF TypeInv, TypeOK
<1>t. \A p \in Paths : tree[p] \in Nodes /\ tree[p] \in held[p]
  BY DEF TypeInv, TypeOK, SkipInv, Remembers
<1>1. CASE RootOpenFails
  BY <1>1, FailureSkips DEF RootOpenFails
<1>2. CASE OpenRoot
  BY <1>2 DEF OpenRoot, SkipInv, Remembers, Listed, Follows, Recorded, Opened, Finished,
              NothingIsSkipped, AlwaysFile, Versions, listing, results, environment
<1>3. ASSUME NEW p \in Paths, Walk(p) PROVE SkipInv'
  <2>1. CASE WalkPast(p)
    <3>1. tree[p].kind # "file" /\ tree[p] \in held[p]
      BY <2>1, <1>t, NodeKinds DEF WalkPast
    <3>2. ~AlwaysFile(p)
      BY <3>1 DEF AlwaysFile
    <3>3. Listed'
      BY <2>1, <3>2 DEF WalkPast, Walking, SkipInv, Listed, AlwaysFile, environment
    <3> QED BY <2>1, <3>3
            DEF WalkPast, Walking, SkipInv, Remembers, Follows, Recorded, Opened, Finished,
                Versions, results, environment
  <2>2. CASE WalkFails(p) \/ WalkFull(p) \/ WalkUnnamed(p)
    BY <2>2, FailureSkips DEF WalkFails, WalkFull, WalkUnnamed
  <2>3. CASE WalkSource(p)
    <3>1. ToSet(sources') = ToSet(sources) \cup {p}
      <4>1. sources' = Append(sources, p)
        BY <2>3 DEF WalkSource
      <4>2. /\ DOMAIN sources = 1 .. Len(sources)
            /\ DOMAIN sources' = 1 .. Len(sources) + 1
            /\ \A i \in 1 .. Len(sources) : sources'[i] = sources[i]
            /\ sources'[Len(sources) + 1] = p
        BY <4>1, <1>l, AppendProperties, LenProperties
      <4> QED BY <4>2, <1>l DEF ToSet
    <3>2. Listed'
      BY <2>3, <3>1 DEF WalkSource, Walking, SkipInv, Listed, AlwaysFile, environment
    <3> QED BY <2>3, <3>2
            DEF WalkSource, Walking, SkipInv, Remembers, Follows, Recorded, Opened,
                Finished, Versions, results, environment
  <2> QED BY <1>3, <2>1, <2>2, <2>3 DEF Walk
<1>4. CASE WalkEnds
  <2>1. DOMAIN sources' = DOMAIN sources /\ ToSet(sources') = ToSet(sources)
    BY <1>4 DEF WalkEnds
  <2>2. Listed'
    BY <1>4, <2>1 DEF WalkEnds, SkipInv, Listed, AlwaysFile, environment
  <2>3. corpus = <<>> /\ next' = next
    BY <1>4 DEF WalkEnds, SkipInv
  <2>4. next = 1
    BY <1>4 DEF WalkEnds, SkipInv
  <2> QED BY <1>4, <2>1, <2>2, <2>3, <2>4, EmptySeq
          DEF WalkEnds, SkipInv, Remembers, Follows, Recorded, Opened, Finished,
              Versions, results, environment
<1>5. CASE Scan
  <2>1. CASE SourceChanged \/ ScanFault
    BY <2>1, FailureSkips DEF SourceChanged, ScanFault
  <2>2. CASE OpenSource
    <3>1. CASE Stop(Failed("file_bytes")) \/ Stop(Failed("total_bytes"))
      BY <3>1, FailureSkips
    <3>2. CASE /\ pc' = "read" /\ window' = {tree[Source].raw}
               /\ UNCHANGED <<listing, next, results, outcome, environment>>
      <4>1. Source \in Paths /\ tree[Source].kind = "file" /\ pc = "scan"
        BY <2>2, SourceType DEF OpenSource, AtSource
      <4>2. Opened'
        BY <4>1, <3>2, <1>t DEF Opened, Versions, Source, listing, environment
      <4> QED BY <4>1, <4>2, <3>2
              DEF SkipInv, Remembers, Listed, Follows, Recorded, Finished, NothingIsSkipped,
                  AlwaysFile, Versions, listing, results, environment
    <3> QED BY <2>2, <3>1, <3>2 DEF OpenSource
  <2>3. CASE ReadSource
    <3>1. PICK raw \in Readable(window) :
            \/ Stop(Failed("file_bytes"))
            \/ Stop(Failed("total_bytes"))
            \/ Visit(raw)
      BY <2>3 DEF ReadSource
    <3>2. CASE Stop(Failed("file_bytes")) \/ Stop(Failed("total_bytes"))
      BY <3>2, FailureSkips
    <3>3. CASE Visit(raw)
      <4>1. pc = "read" /\ next <= Len(sources) /\ Len(corpus) = next - 1
        BY <2>3 DEF ReadSource, TypeInv, TypeOK, SkipInv, Follows
      <4>2. corpus' = Append(corpus, [path |-> Source, raw |-> raw])
        BY <3>3 DEF Visit
      <4>3. /\ Len(corpus') = next
            /\ DOMAIN corpus = 1 .. next - 1 /\ DOMAIN corpus' = 1 .. next
            /\ \A k \in 1 .. next - 1 : corpus'[k] = corpus[k]
            /\ corpus'[next] = [path |-> Source, raw |-> raw]
        BY <4>1, <4>2, <1>l, AppendProperties, LenProperties DEF TypeInv
      <4>4. raw \in Readable(Versions(Source))
        BY <4>1, ReadableGrows DEF SkipInv, Opened
      <4>5. Recorded'
        <5> SUFFICES ASSUME NEW k \in 1 .. next
                     PROVE  corpus'[k].raw \in Readable(Versions(corpus'[k].path))
          BY <3>3, <4>3 DEF Recorded, Visit, Versions, environment
        <5>1. CASE k = next
          BY <5>1, <4>3, <4>4
        <5>2. CASE k # next
          <6>1. k \in 1 .. next - 1
            BY <5>2, <1>l
          <6> QED BY <6>1, <4>3 DEF SkipInv, Recorded
        <5> QED BY <5>1, <5>2
      <4>6. Follows'
        <5>1. next' = next + 1 /\ sources' = sources /\ unseen' = unseen
          BY <3>3 DEF Visit, listing
        <5>2. \A k \in 1 .. next : corpus'[k].path = sources[k]
          <6> SUFFICES ASSUME NEW k \in 1 .. next PROVE corpus'[k].path = sources[k]
            OBVIOUS
          <6>1. CASE k = next
            BY <6>1, <4>3 DEF Source
          <6>2. CASE k # next
            <7>1. k \in 1 .. next - 1
              BY <6>2, <1>l
            <7> QED BY <7>1, <4>1, <4>3 DEF SkipInv, Follows
          <6> QED BY <6>1, <6>2
        <5> QED BY <5>1, <5>2, <4>1, <4>3, <1>l DEF SkipInv, Follows
      <4> QED BY <3>3, <4>1, <4>5, <4>6
              DEF Visit, SkipInv, Remembers, Listed, Opened, Finished, AlwaysFile, listing,
                  environment
    <3> QED BY <3>1, <3>2, <3>3
  <2>4. CASE ScanEnds
    BY <2>4, ScanEndsComplete
  <2> QED BY <1>5, <2>1, <2>2, <2>3, <2>4 DEF Scan
<1>6. ASSUME NEW p \in Paths, NEW node \in Nodes, Write(p, node) PROVE SkipInv'
  BY <1>6, WriteSkips
<1>7. CASE UNCHANGED vars
  BY <1>7 DEF vars, SkipInv, Remembers, Listed, Follows, Recorded, Opened, Finished,
              NothingIsSkipped, AlwaysFile, Versions, Source, listing, results, environment
<1>8. CASE Done
  BY <1>7, <1>8 DEF Done
<1> QED BY <1>1, <1>2, <1>3, <1>4, <1>5, <1>6, <1>7, <1>8 DEF Next

LEMMA SkipAlways == Spec => []SkipInv
BY SkipInit, SkipStep, TypeAlways, PTL DEF Spec

\* A diagnosis is about every path that was a file all along, once and in
\* order, for any tree and whatever is written meanwhile.
THEOREM DiagnoseSkipsNothing == Spec => []NothingIsSkipped
<1>1. SkipInv => NothingIsSkipped
  BY DEF SkipInv, NothingIsSkipped
<1> QED BY <1>1, SkipAlways, PTL

(***************************************************************************)
(* The findings.                                                           *)
(***************************************************************************)

Place    == [path : Paths, line : Nat \ {0}]
Citation == Place \cup {NoCitation}
ScanState == [direct : [DOMAIN DIRECT_RULES -> Citation],
              missing_line : Citation, retrieval : Citation,
              has_freshness : BOOLEAN, has_exact : BOOLEAN]

NoLater(p, q) == p.path < q.path \/ (p.path = q.path /\ p.line <= q.line)

\* The lines that say something.
Naming(needles) == {line \in Line : Names(line, needles)}
Lineless        == {line \in Line : CitesWithoutLine(line)}

\* Where the first n lines of a source are among some lines, and count.
Shown(path, raw, n, lines) ==
  {q \in Place : /\ q.path = path /\ q.line \in 1 .. n
                 /\ IsText(raw) /\ Comment \notin raw[q.line] /\ raw[q.line] \in lines}

InCorpus(sofar, lines) ==
  {q \in Place : \E j \in DOMAIN sofar :
                   q \in Shown(sofar[j].path, sofar[j].raw, Len(sofar[j].raw), lines)}

\* A citation is the first of the places, if there are any.
Cites(citation, places) ==
  \/ places = {} /\ citation = NoCitation
  \/ citation \in places /\ \A q \in places : NoLater(citation, q)

\* A state cites, of each kind of lines, the first place where they are.
Shows(state, places) ==
  /\ \A k \in DOMAIN DIRECT_RULES :
       Cites(state.direct[k], places[Naming(DIRECT_RULES[k].needles)])
  /\ Cites(state.missing_line, places[Lineless])
  /\ Cites(state.retrieval, places[Naming(Retrieval)])
  /\ state.has_freshness <=> places[Naming(Freshness)] # {}
  /\ state.has_exact <=> places[Naming(Exact)] # {}

\* The first citation stays the first when a later place is found.
LEMMA FirstCites ==
  ASSUME NEW old \in Citation, NEW places \in SUBSET Place, Cites(old, places),
         NEW place \in Place, \A q \in places : NoLater(q, place), NEW found \in BOOLEAN,
         NEW more, found => more = places \cup {place}, ~found => more = places
  PROVE  First(old, found, place) \in Citation /\ Cites(First(old, found, place), more)
<1>1. NoCitation \notin Place /\ place.path \in Nat /\ place.line \in Nat
  BY PathsAssumption DEF Place, NoCitation
<1>2. NoLater(place, place)
  BY <1>1 DEF NoLater
<1>3. CASE old = NoCitation
  <2>1. places = {}
    BY <1>1, <1>3 DEF Cites
  <2> QED BY <1>2, <1>3, <2>1 DEF First, Cites, Citation
<1>4. CASE old # NoCitation
  <2>1. First(old, found, place) = old /\ old \in places
    BY <1>4 DEF First, Cites
  <2> QED BY <2>1, <1>4 DEF Cites
<1> QED BY <1>3, <1>4

\* One more line: the state shows it where it counts.
LEMMA VisitLineShows ==
  ASSUME NEW state \in ScanState, NEW line \in Line, NEW place \in Place,
         NEW before \in [SUBSET Line -> SUBSET Place],
         NEW after \in [SUBSET Line -> SUBSET Place],
         Shows(state, before),
         \A lines \in SUBSET Line : \A q \in before[lines] : NoLater(q, place),
         \A lines \in SUBSET Line :
           /\ Comment \notin line /\ line \in lines => after[lines] = before[lines] \cup {place}
           /\ Comment \in line \/ line \notin lines => after[lines] = before[lines]
  PROVE  VisitLine(state, place, line) \in ScanState /\ Shows(VisitLine(state, place, line), after)
<1>0. \A needles : Naming(needles) \in SUBSET Line /\ Lineless \in SUBSET Line
  BY DEF Naming, Lineless
<1>1. CASE Comment \in line
  <2>1. \A lines \in SUBSET Line : after[lines] = before[lines]
    BY <1>1
  <2> QED BY <1>0, <1>1, <2>1 DEF VisitLine, Shows
<1>2. CASE Comment \notin line
  <2> DEFINE new == VisitLine(state, place, line)
             direct(k) == Names(line, DIRECT_RULES[k].needles)
             missing == CitesWithoutLine(line)
             retrieval == Names(line, Retrieval)
  <2>1. \A lines \in SUBSET Line :
          /\ before[lines] \in SUBSET Place /\ \A q \in before[lines] : NoLater(q, place)
          /\ line \in lines => after[lines] = before[lines] \cup {place}
          /\ line \notin lines => after[lines] = before[lines]
    BY <1>2
  <2>2. \A needles : LET lines == Naming(needles)
                     IN  /\ before[lines] \in SUBSET Place
                         /\ \A q \in before[lines] : NoLater(q, place)
                         /\ Names(line, needles) => after[lines] = before[lines] \cup {place}
                         /\ ~Names(line, needles) => after[lines] = before[lines]
    <3>1. \A needles : line \in Naming(needles) <=> Names(line, needles)
      BY DEF Naming
    <3> QED BY <1>0, <2>1, <3>1
  <2>3. /\ before[Lineless] \in SUBSET Place
        /\ \A q \in before[Lineless] : NoLater(q, place)
        /\ missing => after[Lineless] = before[Lineless] \cup {place}
        /\ ~missing => after[Lineless] = before[Lineless]
    <3>1. line \in Lineless <=> missing
      BY DEF Lineless
    <3> QED BY <1>0, <2>1, <3>1
  <2>4. /\ new.direct = [k \in DOMAIN DIRECT_RULES |-> First(state.direct[k], direct(k), place)]
        /\ new.missing_line = First(state.missing_line, missing, place)
        /\ new.retrieval = First(state.retrieval, retrieval, place)
        /\ new.has_freshness = (state.has_freshness \/ Names(line, Freshness))
        /\ new.has_exact = (state.has_exact \/ Names(line, Exact))
        /\ new = [direct |-> new.direct, missing_line |-> new.missing_line,
                  retrieval |-> new.retrieval, has_freshness |-> new.has_freshness,
                  has_exact |-> new.has_exact]
    BY <1>2 DEF VisitLine
  <2>5. missing \in BOOLEAN /\ \A needles : Names(line, needles) \in BOOLEAN
    BY DEF Names, CitesWithoutLine
  <2>6. /\ \A k \in DOMAIN DIRECT_RULES : state.direct[k] \in Citation
        /\ state.missing_line \in Citation /\ state.retrieval \in Citation
        /\ state.has_freshness \in BOOLEAN /\ state.has_exact \in BOOLEAN
    BY DEF ScanState
  <2> HIDE DEF new, missing
  <2>7. ASSUME NEW k \in DOMAIN DIRECT_RULES
        PROVE  /\ new.direct[k] \in Citation
               /\ Cites(new.direct[k], after[Naming(DIRECT_RULES[k].needles)])
    <3>1. Cites(state.direct[k], before[Naming(DIRECT_RULES[k].needles)])
      BY DEF Shows
    <3>2. new.direct[k] = First(state.direct[k], direct(k), place)
      BY <2>4
    <3> DEFINE lines == Naming(DIRECT_RULES[k].needles)
               found == direct(k)
    <3>3. /\ state.direct[k] \in Citation /\ before[lines] \in SUBSET Place
          /\ \A q \in before[lines] : NoLater(q, place)
          /\ found => after[lines] = before[lines] \cup {place}
          /\ ~found => after[lines] = before[lines]
          /\ found \in BOOLEAN
      BY <2>2, <2>5, <2>6
    <3>4. Cites(state.direct[k], before[lines])
      BY <3>1
    <3> HIDE DEF lines, found
    <3>5. First(state.direct[k], found, place) \in Citation /\
          Cites(First(state.direct[k], found, place), after[lines])
      BY <3>3, <3>4, FirstCites
    <3> QED BY <3>2, <3>5 DEF lines, found
  <2>8. new.missing_line \in Citation /\ Cites(new.missing_line, after[Lineless])
    <3>1. Cites(state.missing_line, before[Lineless])
      BY DEF Shows
    <3>2. First(state.missing_line, missing, place) \in Citation /\
          Cites(First(state.missing_line, missing, place), after[Lineless])
      BY <2>3, <2>5, <2>6, <3>1, FirstCites
    <3> QED BY <2>4, <3>2
  <2>9. new.retrieval \in Citation /\ Cites(new.retrieval, after[Naming(Retrieval)])
    <3>1. Cites(state.retrieval, before[Naming(Retrieval)])
      BY DEF Shows
    <3> DEFINE lines == Naming(Retrieval)
    <3>2. /\ before[lines] \in SUBSET Place
          /\ \A q \in before[lines] : NoLater(q, place)
          /\ retrieval => after[lines] = before[lines] \cup {place}
          /\ ~retrieval => after[lines] = before[lines]
          /\ retrieval \in BOOLEAN
      BY <2>2, <2>5
    <3>3. Cites(state.retrieval, before[lines])
      BY <3>1
    <3> HIDE DEF lines, retrieval
    <3>4. First(state.retrieval, retrieval, place) \in Citation /\
          Cites(First(state.retrieval, retrieval, place), after[lines])
      BY <2>6, <3>2, <3>3, FirstCites
    <3> QED BY <2>4, <3>4 DEF lines
  <2>10. ASSUME NEW had \in BOOLEAN, NEW needles, had <=> before[Naming(needles)] # {}
         PROVE  (had \/ Names(line, needles)) <=> after[Naming(needles)] # {}
    BY <2>2, <2>10
  <2>11. /\ new.has_freshness <=> after[Naming(Freshness)] # {}
         /\ new.has_exact <=> after[Naming(Exact)] # {}
    <3>1. /\ state.has_freshness <=> before[Naming(Freshness)] # {}
          /\ state.has_exact <=> before[Naming(Exact)] # {}
      BY DEF Shows
    <3>2. (state.has_freshness \/ Names(line, Freshness)) <=> after[Naming(Freshness)] # {}
      BY <2>6, <2>10, <3>1
    <3>3. (state.has_exact \/ Names(line, Exact)) <=> after[Naming(Exact)] # {}
      BY <2>6, <2>10, <3>1
    <3> QED BY <2>4, <3>2, <3>3
  <2>12. new \in ScanState
    <3>1. new.direct \in [DOMAIN DIRECT_RULES -> Citation]
      BY <2>4, <2>7
    <3>2. new.has_freshness \in BOOLEAN /\ new.has_exact \in BOOLEAN
      BY <2>4, <2>5, <2>6
    <3> QED BY <2>4, <2>8, <2>9, <3>1, <3>2 DEF ScanState
  <2>13. Shows(new, after)
    BY <2>7, <2>8, <2>9, <2>11 DEF Shows
  <2> QED BY <2>12, <2>13 DEF new
<1> QED BY <1>1, <1>2

\* VisitLines is a fold over the numbers of the lines.
FirstState(visit) == visit.state
NextState(visit, state, k) ==
  VisitLine(state, [path |-> visit.path, line |-> k], visit.raw[k])
Visiting == INSTANCE Folding WITH Start <- FirstState, Step <- NextState

\* A source shows nothing in no line, and in one line more what is in that line.
LEMMA ShownGrows ==
  ASSUME NEW path \in Paths, NEW raw, IsText(raw), NEW k \in Nat \ {0}, NEW lines
  PROVE  /\ Shown(path, raw, 0, lines) = {}
         /\ Comment \notin raw[k] /\ raw[k] \in lines =>
              Shown(path, raw, k, lines) = Shown(path, raw, k - 1, lines)
                                             \cup {[path |-> path, line |-> k]}
         /\ Comment \in raw[k] \/ raw[k] \notin lines =>
              Shown(path, raw, k, lines) = Shown(path, raw, k - 1, lines)
<1>1. 1 .. k = (1 .. k - 1) \cup {k} /\ k \in Nat \ {0}
  OBVIOUS
<1>2. [path |-> path, line |-> k] \in Place
  BY DEF Place
<1>3. \A q \in Place : q = [path |-> q.path, line |-> q.line]
  BY DEF Place
<1>4. Shown(path, raw, 0, lines) = {}
  BY DEF Shown
<1>5. CASE Comment \notin raw[k] /\ raw[k] \in lines
  <2> SUFFICES ASSUME NEW q \in Place
               PROVE  q \in Shown(path, raw, k, lines) <=>
                        q \in Shown(path, raw, k - 1, lines) \/ q = [path |-> path, line |-> k]
    BY <1>2, <1>4, <1>5 DEF Shown
  <2>1. CASE q.line = k
    BY <1>1, <1>3, <1>5, <2>1 DEF Shown
  <2>2. CASE q.line # k
    BY <1>1, <2>2 DEF Shown
  <2> QED BY <2>1, <2>2
<1>6. CASE Comment \in raw[k] \/ raw[k] \notin lines
  BY <1>1, <1>4, <1>6 DEF Shown
<1> QED BY <1>4, <1>5, <1>6

\* VisitLines is such a fold.
LEMMA VisitLinesFolds ==
  ASSUME NEW visit
  PROVE  VisitLines(visit.state, visit.path, visit.raw) =
           Visiting!Fold(visit, [k \in DOMAIN visit.raw |-> k])
BY DEF VisitLines, FoldLeft, MapThenFoldSet, Max, FirstState, NextState,
       Visiting!Fold, Visiting!FoldLeft, Visiting!MapThenFoldSet, Visiting!Max

\* After the lines of one more source the state shows them too.
LEMMA VisitLinesShows ==
  ASSUME NEW state \in ScanState, NEW path \in Paths, NEW raw \in Seq(Line), IsText(raw),
         NEW before \in [SUBSET Line -> SUBSET Place], Shows(state, before),
         \A lines \in SUBSET Line : \A q \in before[lines] : q.path < path
  PROVE  LET new == VisitLines(state, path, raw)
         IN  /\ new \in ScanState
             /\ Shows(new, [lines \in SUBSET Line |->
                              before[lines] \cup Shown(path, raw, Len(raw), lines)])
<1> DEFINE n == Len(raw)
           upTo(k) == [lines \in SUBSET Line |-> before[lines] \cup Shown(path, raw, k, lines)]
           visit == [state |-> state, path |-> path, raw |-> raw]
           numbers == [k \in DOMAIN raw |-> k]
           Holds == [k \in 0 .. n |-> {s \in ScanState : Shows(s, upTo(k))}]
<1>1. n \in Nat /\ DOMAIN raw = 1 .. n /\ \A k \in 1 .. n : raw[k] \in Line
  BY ElementOfSeq, LenProperties
<1>2. numbers \in Seq(Nat) /\ Len(numbers) = n /\ \A k \in 1 .. n : numbers[k] = k
  BY <1>1
<1>3. VisitLines(state, path, raw) = Visiting!Fold(visit, numbers)
  <2>1. visit.state = state /\ visit.path = path /\ visit.raw = raw
    OBVIOUS
  <2> HIDE DEF visit
  <2> QED BY <2>1, VisitLinesFolds
<1>4. \A k \in Nat : upTo(k) \in [SUBSET Line -> SUBSET Place]
  BY DEF Shown
<1>5. FirstState(visit) \in Holds[0]
  <2>1. \A lines : Shown(path, raw, 0, lines) = {}
    BY DEF Shown
  <2>2. upTo(0) = before
    BY <2>1
  <2>3. 0 \in 0 .. n
    BY <1>1
  <2> QED BY <2>2, <2>3 DEF FirstState
<1>6. ASSUME NEW k \in 1 .. n, NEW s \in Holds[k - 1]
      PROVE  NextState(visit, s, numbers[k]) \in Holds[k]
  <2> DEFINE place == [path |-> path, line |-> k]
             old == upTo(k - 1)
             now == upTo(k)
  <2>1. k \in 0 .. n /\ k - 1 \in 0 .. n /\ k \in Nat \ {0} /\ k - 1 \in Nat
    BY <1>1
  <2>2. s \in ScanState /\ Shows(s, old)
    BY <2>1
  <2>3. place \in Place /\ raw[k] \in Line
    BY <1>1, <2>1 DEF Place
  <2>4. old \in [SUBSET Line -> SUBSET Place] /\ now \in [SUBSET Line -> SUBSET Place]
    BY <1>4, <2>1
  <2>5. ASSUME NEW lines \in SUBSET Line, NEW q \in old[lines]
        PROVE  NoLater(q, place)
    <3>1. q \in before[lines] \/ q \in Shown(path, raw, k - 1, lines)
      BY <2>5
    <3>2. CASE q \in before[lines]
      BY <3>2 DEF NoLater
    <3>3. CASE q \in Shown(path, raw, k - 1, lines)
      BY <2>1, <3>3 DEF NoLater, Shown
    <3> QED BY <3>1, <3>2, <3>3
  <2>6. \A lines \in SUBSET Line :
          /\ Comment \notin raw[k] /\ raw[k] \in lines => now[lines] = old[lines] \cup {place}
          /\ Comment \in raw[k] \/ raw[k] \notin lines => now[lines] = old[lines]
    BY <2>1, ShownGrows
  <2>7. NextState(visit, s, numbers[k]) = VisitLine(s, place, raw[k])
    BY <1>2 DEF NextState
  <2> HIDE DEF place, old, now, visit, numbers
  <2>8. VisitLine(s, place, raw[k]) \in ScanState /\ Shows(VisitLine(s, place, raw[k]), now)
    BY <2>2, <2>3, <2>4, <2>5, <2>6, VisitLineShows
  <2> QED BY <2>1, <2>7, <2>8 DEF now
<1> HIDE DEF Holds
<1>7. Visiting!Fold(visit, numbers) \in Holds[Len(numbers)]
  BY <1>2, <1>5, <1>6, Visiting!FoldReaches
<1>8. n \in 0 .. n
  BY <1>1
<1> QED BY <1>2, <1>3, <1>7, <1>8 DEF Holds

\* What a corpus with one more source shows.
LEMMA InCorpusGrows ==
  ASSUME NEW sofar \in Seq([path : Paths, raw : Seq(Line)]), NEW path \in Paths,
         NEW raw \in Seq(Line), NEW lines
  PROVE  InCorpus(Append(sofar, [path |-> path, raw |-> raw]), lines) =
           InCorpus(sofar, lines) \cup Shown(path, raw, Len(raw), lines)
<1> DEFINE more == Append(sofar, [path |-> path, raw |-> raw])
<1>1. /\ Len(sofar) \in Nat /\ DOMAIN sofar = 1 .. Len(sofar)
      /\ DOMAIN more = 1 .. Len(sofar) + 1
      /\ more[Len(sofar) + 1] = [path |-> path, raw |-> raw]
      /\ \A j \in 1 .. Len(sofar) : more[j] = sofar[j]
  BY AppendProperties, LenProperties
<1>2. \A j \in 1 .. Len(sofar) + 1 : j \in 1 .. Len(sofar) \/ j = Len(sofar) + 1
  BY <1>1
<1>3. 1 .. Len(sofar) \subseteq 1 .. Len(sofar) + 1 /\ Len(sofar) + 1 \in 1 .. Len(sofar) + 1
  BY <1>1
<1> HIDE DEF more
<1>4. ASSUME NEW q \in Place
      PROVE  q \in InCorpus(more, lines) <=>
               q \in InCorpus(sofar, lines) \/ q \in Shown(path, raw, Len(raw), lines)
  BY <1>1, <1>2, <1>3 DEF InCorpus
<1> QED BY <1>4 DEF InCorpus, Shown, more

\* The places of a corpus are those of its lines.
LEMMA PlacesInCorpus ==
  ASSUME NEW digested \in Seq([path : Paths, raw : Seq(Line)])
  PROVE  /\ \A needles : Places(digested, LAMBDA line : Names(line, needles)) =
                           InCorpus(digested, Naming(needles))
         /\ Places(digested, CitesWithoutLine) = InCorpus(digested, Lineless)
<1>1. \A j \in DOMAIN digested :
        /\ digested[j].path \in Paths /\ digested[j].raw \in Seq(Line)
        /\ DOMAIN digested[j].raw = 1 .. Len(digested[j].raw)
        /\ \A k \in DOMAIN digested[j].raw : digested[j].raw[k] \in Line /\ k \in Nat \ {0}
  <2> SUFFICES ASSUME NEW j \in DOMAIN digested
               PROVE  /\ digested[j].path \in Paths /\ digested[j].raw \in Seq(Line)
                      /\ DOMAIN digested[j].raw = 1 .. Len(digested[j].raw)
                      /\ \A k \in DOMAIN digested[j].raw :
                           digested[j].raw[k] \in Line /\ k \in Nat \ {0}
    OBVIOUS
  <2>1. digested[j] \in [path : Paths, raw : Seq(Line)]
    <3>1. DOMAIN digested = 1 .. Len(digested)
      BY LenProperties
    <3> QED BY <3>1, ElementOfSeq
  <2>2. digested[j].path \in Paths /\ digested[j].raw \in Seq(Line)
    BY <2>1
  <2> DEFINE raw == digested[j].raw
  <2> HIDE DEF raw
  <2>3. raw \in Seq(Line) => DOMAIN raw = 1 .. Len(raw) /\ Len(raw) \in Nat
    BY LenProperties
  <2>4. raw \in Seq(Line) => \A k \in 1 .. Len(raw) : raw[k] \in Line
    BY ElementOfSeq
  <2>5. raw \in Seq(Line) => \A k \in DOMAIN raw : k \in Nat \ {0}
    BY <2>3
  <2> QED BY <2>2, <2>3, <2>4, <2>5 DEF raw
<1>2. \A q \in Place : q = [path |-> q.path, line |-> q.line]
  BY DEF Place
<1>3. ASSUME NEW needles
      PROVE  Places(digested, LAMBDA line : Names(line, needles)) =
               InCorpus(digested, Naming(needles))
  <2>1. ASSUME NEW q \in Places(digested, LAMBDA line : Names(line, needles))
        PROVE  q \in InCorpus(digested, Naming(needles))
    <3>0. PICK j \in DOMAIN digested : \E k \in DOMAIN digested[j].raw :
            /\ q = [path |-> digested[j].path, line |-> k] /\ IsText(digested[j].raw)
            /\ Comment \notin digested[j].raw[k] /\ Names(digested[j].raw[k], needles)
      BY DEF Places, ToSet
    <3>1. PICK k \in DOMAIN digested[j].raw :
            /\ q = [path |-> digested[j].path, line |-> k] /\ IsText(digested[j].raw)
            /\ Comment \notin digested[j].raw[k] /\ Names(digested[j].raw[k], needles)
      BY <3>0
    <3>2. q \in Place /\ q.path = digested[j].path /\ q.line = k
      BY <1>1, <3>1 DEF Place
    <3>3. k \in 1 .. Len(digested[j].raw) /\ digested[j].raw[k] \in Naming(needles)
      BY <1>1, <3>1 DEF Naming
    <3> QED BY <3>1, <3>2, <3>3 DEF InCorpus, Shown
  <2>2. ASSUME NEW q \in InCorpus(digested, Naming(needles))
        PROVE  q \in Places(digested, LAMBDA line : Names(line, needles))
    <3>1. PICK j \in DOMAIN digested :
            q \in Shown(digested[j].path, digested[j].raw, Len(digested[j].raw), Naming(needles))
      BY DEF InCorpus
    <3>2. /\ q = [path |-> digested[j].path, line |-> q.line] /\ q.line \in DOMAIN digested[j].raw
          /\ IsText(digested[j].raw) /\ Comment \notin digested[j].raw[q.line]
          /\ Names(digested[j].raw[q.line], needles)
      BY <1>1, <1>2, <3>1 DEF Shown, Naming
    <3> QED BY <3>2 DEF Places, ToSet
  <2> QED BY <2>1, <2>2
<1>4. Places(digested, CitesWithoutLine) = InCorpus(digested, Lineless)
  <2>1. ASSUME NEW q \in Places(digested, CitesWithoutLine)
        PROVE  q \in InCorpus(digested, Lineless)
    <3>0. PICK j \in DOMAIN digested : \E k \in DOMAIN digested[j].raw :
            /\ q = [path |-> digested[j].path, line |-> k] /\ IsText(digested[j].raw)
            /\ Comment \notin digested[j].raw[k] /\ CitesWithoutLine(digested[j].raw[k])
      BY DEF Places, ToSet
    <3>1. PICK k \in DOMAIN digested[j].raw :
            /\ q = [path |-> digested[j].path, line |-> k] /\ IsText(digested[j].raw)
            /\ Comment \notin digested[j].raw[k] /\ CitesWithoutLine(digested[j].raw[k])
      BY <3>0
    <3>2. q \in Place /\ q.path = digested[j].path /\ q.line = k
      BY <1>1, <3>1 DEF Place
    <3>3. k \in 1 .. Len(digested[j].raw) /\ digested[j].raw[k] \in Lineless
      BY <1>1, <3>1 DEF Lineless
    <3> QED BY <3>1, <3>2, <3>3 DEF InCorpus, Shown
  <2>2. ASSUME NEW q \in InCorpus(digested, Lineless)
        PROVE  q \in Places(digested, CitesWithoutLine)
    <3>1. PICK j \in DOMAIN digested :
            q \in Shown(digested[j].path, digested[j].raw, Len(digested[j].raw), Lineless)
      BY DEF InCorpus
    <3>2. /\ q = [path |-> digested[j].path, line |-> q.line] /\ q.line \in DOMAIN digested[j].raw
          /\ IsText(digested[j].raw) /\ Comment \notin digested[j].raw[q.line]
          /\ CitesWithoutLine(digested[j].raw[q.line])
      BY <1>1, <1>2, <3>1 DEF Shown, Lineless
    <3> QED BY <3>2 DEF Places, ToSet
  <2> QED BY <2>1, <2>2
<1> QED BY <1>3, <1>4

\* There is one first place.
LEMMA CitesEarliest ==
  ASSUME NEW citation, NEW places \in SUBSET Place, Cites(citation, places)
  PROVE  citation = Earliest(places)
<1>1. CASE places = {}
  BY <1>1 DEF Cites, Earliest
<1>2. CASE places # {}
  <2>1. citation \in places /\ \A q \in places : NoLater(citation, q)
    BY <1>2 DEF Cites
  <2>2. ASSUME NEW p \in places, \A q \in places : NoLater(p, q)
        PROVE  p = citation
    <3>1. /\ p.path \in Nat /\ p.line \in Nat /\ citation.path \in Nat /\ citation.line \in Nat
          /\ p = [path |-> p.path, line |-> p.line]
          /\ citation = [path |-> citation.path, line |-> citation.line]
      BY <2>1, PathsAssumption DEF Place
    <3> QED BY <2>1, <2>2, <3>1 DEF NoLater
  <2> QED BY <1>2, <2>1, <2>2 DEF Earliest, NoLater
<1> QED BY <1>1, <1>2

\* A state that shows a corpus yields the findings expected of it.
LEMMA ShowsExpected ==
  ASSUME NEW digested \in Seq([path : Paths, raw : Seq(Line)]), NEW state \in ScanState,
         Shows(state, [lines \in SUBSET Line |-> InCorpus(digested, lines)])
  PROVE  Findings(state) = Expected(digested)
<1> DEFINE about(needles) == Places(digested, LAMBDA line : Names(line, needles))
           places == [lines \in SUBSET Line |-> InCorpus(digested, lines)]
           unless(needles) == IF about(needles) = {} THEN about(Retrieval) ELSE {}
           cited(k) == Finding(DIRECT_RULES[k].rule, state.direct[k])
           expected(k) == Finding(DIRECT_RULES[k].rule, Earliest(about(DIRECT_RULES[k].needles)))
<1>1. /\ \A needles : places[Naming(needles)] = about(needles)
      /\ places[Lineless] = Places(digested, CitesWithoutLine)
      /\ \A lines : InCorpus(digested, lines) \in SUBSET Place
  <2>1. Lineless \in SUBSET Line /\ \A needles : Naming(needles) \in SUBSET Line
    BY DEF Lineless, Naming
  <2>2. \A lines : InCorpus(digested, lines) \in SUBSET Place
    BY DEF InCorpus
  <2> QED BY <2>1, <2>2, PlacesInCorpus
<1>2. /\ \A needles : about(needles) \in SUBSET Place
      /\ Places(digested, CitesWithoutLine) \in SUBSET Place
  <2>1. \A needles : about(needles) = InCorpus(digested, Naming(needles))
    BY PlacesInCorpus
  <2> HIDE DEF about
  <2> QED BY <1>1, <2>1, PlacesInCorpus
<1>3. /\ \A k \in DOMAIN DIRECT_RULES :
           Cites(state.direct[k], about(DIRECT_RULES[k].needles))
      /\ Cites(state.missing_line, Places(digested, CitesWithoutLine))
      /\ Cites(state.retrieval, about(Retrieval))
      /\ state.has_freshness <=> about(Freshness) # {}
      /\ state.has_exact <=> about(Exact) # {}
  <2> HIDE DEF about, places
  <2>1. Shows(state, places)
    BY DEF places
  <2> QED BY <1>1, <2>1 DEF Shows
<1> HIDE DEF about
<1>4. /\ \A k \in DOMAIN DIRECT_RULES :
           state.direct[k] = Earliest(about(DIRECT_RULES[k].needles))
      /\ state.missing_line = Earliest(Places(digested, CitesWithoutLine))
      /\ state.retrieval = Earliest(about(Retrieval))
  BY <1>2, <1>3, CitesEarliest
<1>5. [k \in DOMAIN DIRECT_RULES |-> cited(k)] = [k \in DOMAIN DIRECT_RULES |-> expected(k)]
  BY <1>4
<1>6. Earliest({}) = NoCitation
  BY DEF Earliest
<1>7. /\ (IF state.has_freshness THEN NoCitation ELSE state.retrieval) = Earliest(unless(Freshness))
      /\ (IF state.has_exact THEN NoCitation ELSE state.retrieval) = Earliest(unless(Exact))
  BY <1>3, <1>4, <1>6
<1>8. Findings(state) =
        FlattenSeq([k \in DOMAIN DIRECT_RULES |-> cited(k)])
        \o Finding("missing_line", state.missing_line)
        \o Finding("missing_freshness", IF state.has_freshness THEN NoCitation ELSE state.retrieval)
        \o Finding("missing_exact", IF state.has_exact THEN NoCitation ELSE state.retrieval)
  BY Zenon DEF Findings
<1>9. Expected(digested) =
        FlattenSeq([k \in DOMAIN DIRECT_RULES |-> expected(k)])
        \o Finding("missing_line", Earliest(Places(digested, CitesWithoutLine)))
        \o Finding("missing_freshness", Earliest(unless(Freshness)))
        \o Finding("missing_exact", Earliest(unless(Exact)))
  BY Zenon DEF Expected, about
<1> HIDE DEF cited, expected, unless
<1> QED BY <1>4, <1>5, <1>7, <1>8, <1>9, Zenon

\* Until it ends, a diagnosis has kept what its corpus shows.
FindInv ==
  /\ pc # "done" => /\ scan \in ScanState
                    /\ Shows(scan, [lines \in SUBSET Line |-> InCorpus(corpus, lines)])
  /\ Finished => pc = "done" /\ FindingsFollowCorpus

LEMMA FindInit == Init => FindInv
<1> SUFFICES ASSUME Init PROVE FindInv
  OBVIOUS
<1>1. \A lines : InCorpus(<<>>, lines) = {}
  BY DEF InCorpus
<1>2. Lineless \in SUBSET Line /\ \A needles : Naming(needles) \in SUBSET Line
  BY DEF Lineless, Naming
<1>3. NewScan \in ScanState
  BY DEF NewScan, ScanState, Citation
<1>4. Shows(NewScan, [lines \in SUBSET Line |-> InCorpus(<<>>, lines)])
  BY <1>1, <1>2 DEF Shows, NewScan, Cites
<1> QED BY <1>3, <1>4 DEF Init, FindInv, Finished, NoOutcome

\* One source more is shown as well.
LEMMA VisitFinds ==
  ASSUME TypeInv, SkipInv, FindInv, pc = "read", NEW raw \in Readable(window), Visit(raw)
  PROVE  FindInv'
<1> DEFINE before == [lines \in SUBSET Line |-> InCorpus(corpus, lines)]
           after == [lines \in SUBSET Line |->
                       before[lines] \cup Shown(Source, raw, Len(raw), lines)]
<1>1. Source \in Paths /\ next <= Len(sources) /\ corpus \in Seq([path : Paths, raw : Seq(Line)])
  BY SourceType DEF TypeInv, TypeOK
<1>2. raw \in Seq(Line)
  BY ReadableType DEF TypeInv, TypeOK
<1>3. /\ corpus' = Append(corpus, [path |-> Source, raw |-> raw])
      /\ scan' = IF IsText(raw) THEN VisitLines(scan, Source, raw) ELSE scan
      /\ pc' = "scan" /\ outcome' = outcome
  BY DEF Visit
<1>4. [lines \in SUBSET Line |-> InCorpus(corpus', lines)] = after
  <2> DEFINE at == Source
             more == Append(corpus, [path |-> at, raw |-> raw])
             grown(lines) == InCorpus(corpus, lines) \cup Shown(at, raw, Len(raw), lines)
  <2>1. at \in Paths
    BY <1>1
  <2> HIDE DEF at
  <2>2. \A lines : InCorpus(more, lines) = grown(lines)
    BY <1>1, <1>2, <2>1, InCorpusGrows
  <2>3. corpus' = more
    BY <1>3 DEF at
  <2> HIDE DEF more
  <2>4. \A lines : InCorpus(corpus', lines) = grown(lines)
    BY <2>2, <2>3
  <2> HIDE DEF grown
  <2>5. [lines \in SUBSET Line |-> InCorpus(corpus', lines)] = [lines \in SUBSET Line |-> grown(lines)]
    BY <2>4
  <2>6. after = [lines \in SUBSET Line |-> grown(lines)]
    BY DEF grown, at
  <2> QED BY <2>5, <2>6
<1>5. \A lines \in SUBSET Line : \A q \in before[lines] : q.path < Source
  <2> SUFFICES ASSUME NEW lines \in SUBSET Line, NEW j \in DOMAIN corpus,
                      NEW q \in Shown(corpus[j].path, corpus[j].raw, Len(corpus[j].raw), lines)
               PROVE  q.path < Source
    BY DEF InCorpus
  <2>1. /\ Len(corpus) = next - 1 /\ corpus[j].path = sources[j] /\ j \in 1 .. next - 1
        /\ \A i, k \in DOMAIN sources : i < k => sources[i] < sources[k]
    BY LenProperties DEF TypeInv, SkipInv, Follows
  <2>2. DOMAIN sources = 1 .. Len(sources) /\ Len(sources) \in Nat /\ next \in Nat
    BY LenProperties DEF TypeInv, TypeOK
  <2>3. j \in DOMAIN sources /\ next \in DOMAIN sources /\ j < next
    BY <1>1, <2>1, <2>2
  <2> QED BY <2>1, <2>3 DEF Shown, Source
<1>6. scan \in ScanState /\ Shows(scan, before)
  BY DEF FindInv
<1>7. before \in [SUBSET Line -> SUBSET Place]
  BY DEF InCorpus
<1> HIDE DEF before
<1>8. CASE IsText(raw)
  <2>1. scan' \in ScanState /\ Shows(scan', after)
    BY <1>1, <1>2, <1>3, <1>5, <1>6, <1>7, <1>8, VisitLinesShows
  <2> QED BY <1>3, <1>4, <2>1 DEF FindInv, Finished
<1>9. CASE ~IsText(raw)
  <2>1. \A lines : Shown(Source, raw, Len(raw), lines) = {}
    BY <1>9 DEF Shown
  <2>2. after = before
    BY <1>7, <2>1
  <2> QED BY <1>3, <1>4, <1>6, <1>9, <2>2 DEF FindInv, Finished
<1> QED BY <1>8, <1>9

LEMMA FindStep == TypeInv /\ SkipInv /\ FindInv /\ [Next]_vars => FindInv'
<1> SUFFICES ASSUME TypeInv, SkipInv, FindInv, [Next]_vars PROVE FindInv'
  OBVIOUS
<1>f. ASSUME NEW error, Stop(Failed(error)) PROVE FindInv'
  BY <1>f DEF Stop, Failed, FindInv, Finished
<1>1. CASE RootOpenFails
  BY <1>1, <1>f DEF RootOpenFails
<1>2. CASE OpenRoot
  BY <1>2 DEF OpenRoot, FindInv, Finished, results
<1>3. ASSUME NEW p \in Paths, Walk(p) PROVE FindInv'
  <2>1. CASE WalkPast(p) \/ WalkSource(p)
    BY <2>1 DEF WalkPast, WalkSource, Walking, FindInv, Finished, results
  <2>2. CASE WalkFails(p) \/ WalkFull(p) \/ WalkUnnamed(p)
    BY <2>2, <1>f DEF WalkFails, WalkFull, WalkUnnamed
  <2> QED BY <1>3, <2>1, <2>2 DEF Walk
<1>4. CASE WalkEnds
  BY <1>4 DEF WalkEnds, FindInv, Finished, results
<1>5. CASE Scan
  <2>1. CASE SourceChanged \/ ScanFault
    BY <2>1, <1>f DEF SourceChanged, ScanFault
  <2>2. CASE OpenSource
    <3>1. CASE Stop(Failed("file_bytes")) \/ Stop(Failed("total_bytes"))
      BY <3>1, <1>f
    <3>2. CASE pc' = "read" /\ UNCHANGED <<results, outcome>>
      BY <2>2, <3>2 DEF OpenSource, AtSource, FindInv, Finished, results
    <3> QED BY <2>2, <3>1, <3>2 DEF OpenSource
  <2>3. CASE ReadSource
    <3>1. PICK raw \in Readable(window) :
            \/ Stop(Failed("file_bytes"))
            \/ Stop(Failed("total_bytes"))
            \/ Visit(raw)
      BY <2>3 DEF ReadSource
    <3>2. pc = "read"
      BY <2>3 DEF ReadSource
    <3> QED BY <3>1, <3>2, <1>f, VisitFinds
  <2>4. CASE ScanEnds
    <3>1. pc = "scan" /\ pc' = "done" /\ outcome' = Diagnosis
      BY <2>4 DEF ScanEnds, Stop
    <3>2. Findings(scan) = Expected(corpus)
      BY <3>1, ShowsExpected DEF TypeInv, FindInv
    <3> QED BY <3>1, <3>2 DEF FindInv, Diagnosis, FindingsFollowCorpus
  <2> QED BY <1>5, <2>1, <2>2, <2>3, <2>4 DEF Scan
<1>6. ASSUME NEW p \in Paths, NEW node \in Nodes, Write(p, node) PROVE FindInv'
  BY <1>6 DEF Write, FindInv, Finished, FindingsFollowCorpus, results
<1>7. CASE UNCHANGED vars
  BY <1>7 DEF vars, FindInv, Finished, FindingsFollowCorpus, results
<1>8. CASE Done
  BY <1>7, <1>8 DEF Done
<1> QED BY <1>1, <1>2, <1>3, <1>4, <1>5, <1>6, <1>7, <1>8 DEF Next

\* The findings are those of the bytes the digest is about, each at the first
\* place that shows it, for any sources and whatever is written meanwhile.
THEOREM DiagnoseFindingsFollowCorpus == Spec => []FindingsFollowCorpus
<1>1. FindInv => FindingsFollowCorpus
  BY DEF FindInv, FindingsFollowCorpus
<1>2. Spec => []FindInv
  BY FindInit, FindStep, TypeAlways, SkipAlways, PTL DEF Spec
<1> QED BY <1>1, <1>2, PTL

(***************************************************************************)
(* A tree at rest.                                                         *)
(***************************************************************************)

\* UpTo is a fold over the paths.
NoBytes(t) == 0
MoreBytes(t, n, q) == IF q \in Files(t) THEN n + Len(t[q].raw) ELSE n
Summing == INSTANCE Folding WITH Start <- NoBytes, Step <- MoreBytes

LEMMA UpToFolds ==
  ASSUME NEW t, NEW p
  PROVE  UpTo(t, p) = Summing!Fold(t, [q \in 1 .. p |-> q])
BY DEF UpTo, FoldLeft, MapThenFoldSet, Max, NoBytes, MoreBytes,
       Summing!Fold, Summing!FoldLeft, Summing!MapThenFoldSet, Summing!Max

\* Up to one path more there is its size more, if it is a file.
LEMMA UpToGrows ==
  ASSUME NEW t, NEW p \in Nat
  PROVE  /\ UpTo(t, 0) = 0
         /\ p + 1 \in Files(t) => UpTo(t, p + 1) = UpTo(t, p) + Len(t[p + 1].raw)
         /\ p + 1 \notin Files(t) => UpTo(t, p + 1) = UpTo(t, p)
<1> DEFINE numbers(n) == [q \in 1 .. n |-> q]
<1>1. numbers(0) = <<>> /\ numbers(p) \in Seq(Nat)
  OBVIOUS
<1>2. numbers(p + 1) = Append(numbers(p), p + 1)
  OBVIOUS
<1>3. \A n \in Nat : UpTo(t, n) = Summing!Fold(t, numbers(n))
  BY UpToFolds
<1> HIDE DEF numbers
<1>4. Summing!Fold(t, <<>>) = NoBytes(t)
  BY Summing!FoldEmpty
<1>5. Summing!Fold(t, Append(numbers(p), p + 1))
        = MoreBytes(t, Summing!Fold(t, numbers(p)), p + 1)
  BY <1>1, Summing!FoldAppend
<1>6. UpTo(t, 0) = NoBytes(t)
  BY <1>1, <1>3, <1>4
<1>7. UpTo(t, p + 1) = MoreBytes(t, UpTo(t, p), p + 1)
  <2>1. p + 1 \in Nat
    OBVIOUS
  <2> QED BY <1>2, <1>3, <1>5, <2>1
<1> QED BY <1>6, <1>7 DEF NoBytes, MoreBytes

\* Where there is no file there are no bytes.
LEMMA UpToGap ==
  ASSUME NEW t, NEW a \in Nat, NEW b \in Nat, a <= b,
         \A q \in a + 1 .. b : q \notin Files(t)
  PROVE  UpTo(t, b) = UpTo(t, a)
<1> DEFINE Bad == {k \in a .. b : UpTo(t, k) # UpTo(t, a)}
<1>1. Bad = {}
  <2> SUFFICES ASSUME Bad # {}
               PROVE  FALSE
    OBVIOUS
  <2>1. Bad \in SUBSET Nat
    OBVIOUS
  <2>2. PICK m \in Bad : \A k \in Bad : m <= k
    BY <2>1, Summing!Least
  <2>3. m \in a + 1 .. b /\ m - 1 \in a .. b /\ m - 1 \in Nat /\ ~(m <= m - 1)
    OBVIOUS
  <2>4. UpTo(t, m - 1) = UpTo(t, a)
    BY <2>2, <2>3
  <2>5. UpTo(t, (m - 1) + 1) = UpTo(t, m - 1)
    <3>1. (m - 1) + 1 \notin Files(t)
      BY <2>3
    <3> QED BY <2>3, <3>1, UpToGrows
  <2> QED BY <2>3, <2>4, <2>5
<1> QED BY <1>1

\* Nothing has been written.
Quiet == \A p \in Paths : held[p] = {tree[p]}

\* The last source that has been read.
Passed == IF next = 1 THEN 0 ELSE sources[next - 1]

\* The walker has found the files among the paths it has passed, and no obstacle.
Walked ==
  pc \in {"root", "walk"} =>
    /\ ToSet(sources) = Files(tree) \ unseen
    /\ Len(sources) = Cardinality(Files(tree) \ unseen)
    /\ Len(sources) <= max_candidate_files
    /\ (Files(tree) \ unseen) \cap Unnamed = {}
    /\ \A p \in Paths \ unseen : tree[p] # Unlisted
    /\ total_bytes = 0

\* The sources are the files of the tree, and those that have been read fit.
Scanned ==
  pc \in {"scan", "read"} =>
    /\ ToSet(sources) = Files(tree) /\ WalkErrors(tree) = {}
    /\ total_bytes = UpTo(tree, Passed)
    /\ \A j \in 1 .. next - 1 : sources[j] \notin Exceeding(tree)
    /\ pc = "read" => Source \notin Exceeding(tree)

QuietInv ==
  /\ Quiet => Walked /\ Scanned
  /\ pc = "root" => unseen = Paths
  /\ QuietTreeIsDiagnosed

\* A mixture of one version with itself is that version.
LEMMA OneVersion ==
  ASSUME NEW v \in Seq(Line), NEW W \in SUBSET {v}, NEW raw \in Readable(W)
  PROVE  raw = v
<1>1. raw \in Splices(v, v)
  BY DEF Readable
<1>2. PICK i \in 0 .. Len(v) : raw = SubSeq(v, 1, i) \o SubSeq(v, i + 1, Len(v))
  BY <1>1 DEF Splices
<1>3. /\ Len(v) \in Nat /\ 1 \in 1 .. Len(v) + 1 /\ i \in 1 - 1 .. Len(v)
      /\ Len(v) \in i .. Len(v)
  BY <1>2, LenProperties
<1>4. SubSeq(v, 1, i) \o SubSeq(v, i + 1, Len(v)) = SubSeq(v, 1, Len(v))
  BY <1>3, ConcatAdjacentSubSeq
<1> QED BY <1>2, <1>4, SubSeqFull

\* In a tree at rest there is one version of a file.
LEMMA QuietVersions ==
  ASSUME TypeInv, Quiet, NEW p \in Paths, NEW raw \in Readable(Versions(p))
  PROVE  raw = tree[p].raw
<1>1. Versions(p) \in SUBSET {tree[p].raw}
  BY DEF Quiet, Versions
<1>2. tree[p] \in Nodes
  BY DEF TypeInv, TypeOK
<1>3. CASE tree[p].kind = "file"
  <2>1. tree[p].raw \in Seq(Line)
    BY <1>2, <1>3, NodeKinds, ContentsAssumption DEF Line
  <2> QED BY <1>1, <2>1, OneVersion
<1>4. CASE tree[p].kind # "file"
  <2>1. Versions(p) = {}
    BY <1>4 DEF Quiet, Versions
  <2> QED BY <2>1 DEF Readable
<1> QED BY <1>3, <1>4

\* The bytes up to the next source are those kept and its own.
LEMMA NextUpTo ==
  ASSUME TypeInv, SkipInv, pc \in {"scan", "read"}, next <= Len(sources),
         ToSet(sources) = Files(tree)
  PROVE  /\ Source \in Files(tree) /\ Source \in Paths
         /\ UpTo(tree, Source) = UpTo(tree, Passed) + Len(tree[Source].raw)
<1>1. /\ sources \in Seq(Paths) /\ Len(sources) \in Nat /\ next \in 1 .. Len(sources)
      /\ DOMAIN sources = 1 .. Len(sources)
      /\ \A j, k \in 1 .. Len(sources) : j < k => sources[j] < sources[k]
  BY LenProperties DEF TypeInv, TypeOK, SkipInv, Follows
<1>2. \A j \in 1 .. Len(sources) : sources[j] \in Paths /\ sources[j] \in Nat \ {0}
  BY <1>1, ElementOfSeq, PathsAssumption
<1>3. Source \in Files(tree) /\ Source \in Paths /\ Source \in Nat \ {0}
  BY <1>1, <1>2 DEF Source, ToSet
<1>4. Passed \in Nat /\ Passed <= Source - 1
  BY <1>1, <1>2 DEF Passed, Source
<1>5. \A q \in Passed + 1 .. Source - 1 : q \notin Files(tree)
  <2> SUFFICES ASSUME NEW q \in Passed + 1 .. Source - 1, q \in Files(tree)
               PROVE  FALSE
    OBVIOUS
  <2>1. PICK j \in 1 .. Len(sources) : q = sources[j]
    BY <1>1 DEF ToSet
  <2>2. q < Source /\ Passed < q
    BY <1>3, <1>4
  <2>3. CASE j >= next
    BY <1>1, <1>2, <2>1, <2>2, <2>3 DEF Source
  <2>4. CASE j < next
    <3>1. next # 1 /\ next - 1 \in 1 .. Len(sources) /\ (j = next - 1 \/ j < next - 1)
      BY <1>1, <2>4
    <3>2. sources[j] <= sources[next - 1]
      BY <1>1, <1>2, <3>1
    <3> QED BY <1>1, <1>2, <2>1, <2>2, <3>1, <3>2 DEF Passed
  <2> QED BY <1>1, <2>3, <2>4
<1>6. Source - 1 \in Nat /\ (Source - 1) + 1 = Source
  BY <1>3
<1>7. UpTo(tree, Source - 1) = UpTo(tree, Passed)
  <2> DEFINE last == Source - 1
  <2>1. last \in Nat /\ Passed <= last /\ \A q \in Passed + 1 .. last : q \notin Files(tree)
    BY <1>4, <1>5, <1>6
  <2> HIDE DEF last
  <2>2. UpTo(tree, last) = UpTo(tree, Passed)
    BY <1>4, <2>1, UpToGap
  <2> QED BY <2>2 DEF last
<1>8. UpTo(tree, (Source - 1) + 1) = UpTo(tree, Source - 1) + Len(tree[Source].raw)
  <2> DEFINE last == Source - 1
  <2>1. last \in Nat /\ last + 1 = Source /\ last + 1 \in Files(tree)
    BY <1>3, <1>6
  <2> HIDE DEF last
  <2>2. UpTo(tree, last + 1) = UpTo(tree, last) + Len(tree[last + 1].raw)
    BY <2>1, UpToGrows
  <2> QED BY <2>1, <2>2 DEF last
<1> QED BY <1>3, <1>6, <1>7, <1>8

Excused == unseen = Paths /\ outcome = Failed("invalid_path")

\* What may be said of a tree at rest.
Answered(t, answer) ==
  LET first == CHOOSE p \in Exceeding(t) : \A q \in Exceeding(t) : p <= q
  IN  IF WalkErrors(t) # {} THEN answer \in {Failed(e) : e \in WalkErrors(t)}
      ELSE IF Exceeding(t) # {}
      THEN answer = Failed(IF TooLarge(Len(t[first].raw)) THEN "file_bytes"
                           ELSE "total_bytes")
      ELSE /\ answer.kind = "diagnosis"
           /\ ToSet(answer.corpus) = {[path |-> p, raw |-> t[p].raw] : p \in Files(t)}

LEMMA Restated == QuietTreeIsDiagnosed <=> (Undisturbed /\ ~Excused => Answered(tree, outcome))
BY DEF QuietTreeIsDiagnosed, Excused, Answered, Finished

\* An obstacle of the walk is an answer.
LEMMA WalkErrorAnswers ==
  ASSUME NEW t, NEW error \in WalkErrors(t)
  PROVE  Answered(t, Failed(error))
BY DEF Answered

\* The first source that does not fit is an answer.
LEMMA ExceedingAnswers ==
  ASSUME NEW t, WalkErrors(t) = {}, NEW p \in Exceeding(t),
         \A q \in Exceeding(t) : p <= q
  PROVE  Answered(t, Failed(IF TooLarge(Len(t[p].raw)) THEN "file_bytes" ELSE "total_bytes"))
<1>1. \A q \in Exceeding(t) : q \in Nat
  BY PathsAssumption DEF Exceeding, Files
<1>2. p = CHOOSE x \in Exceeding(t) : \A q \in Exceeding(t) : x <= q
  <2>1. ASSUME NEW x \in Exceeding(t), \A q \in Exceeding(t) : x <= q
        PROVE  x = p
    BY <1>1, <2>1
  <2> QED BY <2>1
<1> QED BY <1>2 DEF Answered

\* What ends a diagnosis with an answer, or with what is excused, is right.
LEMMA StopQuiet ==
  ASSUME TypeInv, NEW answer, Stop(answer),
         \/ answer \in {Failed(e) : e \in {"root_symlink", "read"}}
         \/ unseen = Paths /\ answer = Failed("invalid_path")
         \/ Quiet => Answered(tree, answer)
  PROVE  QuietInv'
<1>1. /\ pc' = "done" /\ outcome' = answer /\ unseen' = unseen /\ tree' = tree /\ held' = held
  BY DEF Stop, listing, environment
<1>2. Undisturbed' /\ ~Excused' => Answered(tree, answer)
  BY <1>1 DEF Undisturbed, Excused, Quiet
<1>3. (QuietTreeIsDiagnosed <=> (Undisturbed /\ ~Excused => Answered(tree, outcome)))'
  BY Restated, PTL
<1>4. QuietTreeIsDiagnosed'
  BY <1>1, <1>2, <1>3
<1> QED BY <1>1, <1>4 DEF QuietInv, Walked, Scanned

LEMMA QuietInit == Init => QuietInv
<1> SUFFICES ASSUME Init PROVE QuietInv
  OBVIOUS
<1>1. Files(tree) \ unseen = {} /\ Paths \ unseen = {}
  BY DEF Init, Files
<1>2. ToSet(<<>>) = {} /\ Len(<<>>) = 0
  BY EmptySeq DEF ToSet
<1>3. Cardinality({}) = 0
  BY FS_EmptySet
<1>4. Walked
  <2>1. sources = <<>> /\ total_bytes = 0 /\ max_candidate_files \in Nat
    BY BudgetAssumption DEF Init
  <2>2. Len(sources) <= max_candidate_files
    BY <1>2, <2>1
  <2> QED BY <1>1, <1>2, <1>3, <2>1, <2>2 DEF Walked
<1>5. pc = "root" /\ unseen = Paths
  BY DEF Init
<1>6. Scanned /\ QuietTreeIsDiagnosed
  BY <1>5 DEF Scanned, QuietTreeIsDiagnosed, Undisturbed
<1> QED BY <1>4, <1>5, <1>6 DEF QuietInv

\* A write ends the rest.
LEMMA WriteQuiet ==
  ASSUME TypeInv, SkipInv, QuietInv, NEW p \in Paths, NEW node \in Nodes, Write(p, node)
  PROVE  QuietInv'
<1>1. tree[p] \in held[p] /\ tree[p] # node
  BY DEF Write, SkipInv, Remembers
<1>2. held'[p] = held[p] \cup {node} /\ tree'[p] = node
  BY DEF Write, TypeInv, TypeOK
<1>3. ~Quiet'
  BY <1>1, <1>2 DEF Quiet
<1>4. pc \in {"walk", "scan", "read"} /\ pc' = pc
  BY DEF Write
<1> QED BY <1>3, <1>4 DEF QuietInv, QuietTreeIsDiagnosed, Undisturbed

\* Files are finitely many, and one more is one more.
LEMMA OneFileMore ==
  ASSUME NEW U \in SUBSET Paths, NEW p \in U, NEW t, t[p].kind = "file"
  PROVE  /\ Files(t) \ (U \ {p}) = (Files(t) \ U) \cup {p}
         /\ Cardinality(Files(t) \ (U \ {p})) = Cardinality(Files(t) \ U) + 1
         /\ Cardinality(Files(t)) >= Cardinality(Files(t) \ U) + 1
         /\ Cardinality(Files(t) \ U) \in Nat /\ Cardinality(Files(t)) \in Nat
<1>1. IsFiniteSet(Files(t)) /\ IsFiniteSet(Files(t) \ U) /\ IsFiniteSet(Files(t) \ (U \ {p}))
  BY PathsAssumption, FS_Subset DEF Files
<1>2. Files(t) \ (U \ {p}) = (Files(t) \ U) \cup {p} /\ p \notin Files(t) \ U
  BY DEF Files
<1>3. Cardinality((Files(t) \ U) \cup {p}) = Cardinality(Files(t) \ U) + 1
  BY <1>1, <1>2, FS_AddElement
<1>4. Cardinality(Files(t) \ (U \ {p})) <= Cardinality(Files(t))
  BY <1>1, FS_Subset
<1> QED BY <1>1, <1>2, <1>3, <1>4, FS_CardinalityType

\* The walk.
LEMMA WalkQuiet ==
  ASSUME TypeInv, QuietInv, NEW p \in Paths, Walk(p)
  PROVE  QuietInv'
<1>0. /\ pc = "walk" /\ p \in unseen /\ unseen \in SUBSET Paths /\ sources \in Seq(Paths)
      /\ Len(sources) \in Nat /\ max_candidate_files \in Nat
  BY BudgetAssumption, LenProperties
     DEF Walk, WalkPast, WalkFails, WalkFull, WalkUnnamed, WalkSource, Walking, TypeInv, TypeOK
<1>k. tree[p] \in Nodes
  BY DEF TypeInv, TypeOK
<1>1. CASE WalkPast(p)
  <2>1. tree[p].kind # "file" /\ tree[p] # Unlisted
    BY <1>1, <1>k, NodeKinds DEF WalkPast, Unlisted, Missing, Directory, Link, Denied, Node
  <2>2. Files(tree) \ (unseen \ {p}) = Files(tree) \ unseen
    BY <2>1 DEF Files
  <2>3. /\ unseen' = unseen \ {p} /\ pc' = "walk" /\ sources' = sources
        /\ tree' = tree /\ held' = held /\ total_bytes' = total_bytes
    BY <1>0, <1>1 DEF WalkPast, environment, results
  <2> QED BY <1>0, <2>1, <2>2, <2>3
          DEF QuietInv, Quiet, Walked, Scanned, QuietTreeIsDiagnosed, Undisturbed, Files
<1>2. CASE WalkFails(p)
  <2>1. "walk" \in WalkErrors(tree)
    BY <1>2 DEF WalkFails, WalkErrors
  <2> QED BY <1>2, <2>1, WalkErrorAnswers, StopQuiet DEF WalkFails
<1>3. CASE WalkFull(p)
  <2>1. Quiet => "candidate_files" \in WalkErrors(tree)
    <3>1. Quiet => Len(sources) = Cardinality(Files(tree) \ unseen)
      BY <1>0 DEF QuietInv, Walked
    <3>2. Len(sources) = max_candidate_files /\ tree[p].kind = "file"
      BY <1>3 DEF WalkFull, AtCapacity
    <3>3. /\ Cardinality(Files(tree)) >= Cardinality(Files(tree) \ unseen) + 1
          /\ Cardinality(Files(tree) \ unseen) \in Nat /\ Cardinality(Files(tree)) \in Nat
      BY <1>0, <3>2, OneFileMore
    <3>4. Quiet => Cardinality(Files(tree)) > max_candidate_files
      BY <1>0, <3>1, <3>2, <3>3
    <3> QED BY <3>4 DEF WalkErrors
  <2>2. Stop(Failed("candidate_files"))
    BY <1>3 DEF WalkFull
  <2> QED BY <2>1, <2>2, WalkErrorAnswers, StopQuiet
<1>4. CASE WalkUnnamed(p)
  <2>1. "invalid_path" \in WalkErrors(tree)
    BY <1>4 DEF WalkUnnamed, WalkErrors, Files
  <2> QED BY <1>4, <2>1, WalkErrorAnswers, StopQuiet DEF WalkUnnamed
<1>5. CASE WalkSource(p)
  <2>1. /\ unseen' = unseen \ {p} /\ pc' = "walk" /\ sources' = Append(sources, p)
        /\ tree' = tree /\ held' = held /\ total_bytes' = total_bytes /\ tree[p].kind = "file"
        /\ Len(sources) # max_candidate_files /\ p \notin Unnamed
    BY <1>0, <1>5 DEF WalkSource, environment, results, AtCapacity
  <2>2. ToSet(sources') = ToSet(sources) \cup {p} /\ Len(sources') = Len(sources) + 1
    <3>1. /\ DOMAIN sources = 1 .. Len(sources)
          /\ DOMAIN sources' = 1 .. Len(sources) + 1 /\ Len(sources') = Len(sources) + 1
          /\ \A i \in 1 .. Len(sources) : sources'[i] = sources[i]
          /\ sources'[Len(sources) + 1] = p
      BY <1>0, <2>1, AppendProperties, LenProperties
    <3> QED BY <1>0, <3>1 DEF ToSet
  <2>3. /\ Files(tree) \ unseen' = (Files(tree) \ unseen) \cup {p}
        /\ Cardinality(Files(tree) \ unseen') = Cardinality(Files(tree) \ unseen) + 1
    BY <1>0, <2>1, OneFileMore
  <2>4. tree[p] # Unlisted
    BY <2>1 DEF Unlisted, Node
  <2>5. Quiet' => Walked'
    <3> SUFFICES ASSUME Quiet' PROVE Walked'
      OBVIOUS
    <3>1. Walked
      BY <2>1 DEF QuietInv, Quiet
    <3> QED BY <1>0, <2>1, <2>2, <2>3, <2>4, <3>1 DEF Walked
  <2> QED BY <2>1, <2>5 DEF QuietInv, Scanned, QuietTreeIsDiagnosed, Undisturbed
<1> QED BY <1>1, <1>2, <1>3, <1>4, <1>5 DEF Walk

\* The end of the walk.
LEMMA WalkEndsQuiet ==
  ASSUME TypeInv, SkipInv, QuietInv, WalkEnds
  PROVE  QuietInv'
<1>1. /\ pc = "walk" /\ pc' = "scan" /\ unseen = {} /\ next = 1 /\ next' = 1
      /\ ToSet(sources') = ToSet(sources) /\ tree' = tree /\ held' = held
      /\ total_bytes' = total_bytes
  BY DEF WalkEnds, SkipInv, environment, results
<1>2. Quiet => ToSet(sources) = Files(tree) /\ WalkErrors(tree) = {}
  <2> SUFFICES ASSUME Quiet PROVE ToSet(sources) = Files(tree) /\ WalkErrors(tree) = {}
    OBVIOUS
  <2>1. Walked /\ Files(tree) \ unseen = Files(tree) /\ Paths \ unseen = Paths
    BY <1>1 DEF QuietInv
  <2>2. Cardinality(Files(tree)) \in Nat /\ max_candidate_files \in Nat
    BY PathsAssumption, BudgetAssumption, FS_Subset, FS_CardinalityType DEF Files
  <2> QED BY <1>1, <2>1, <2>2 DEF Walked, WalkErrors
<1>3. Quiet => total_bytes = UpTo(tree, 0)
  BY <1>1, UpToGrows DEF QuietInv, Walked
<1> QED BY <1>1, <1>2, <1>3
        DEF QuietInv, Quiet, Walked, Scanned, Passed, QuietTreeIsDiagnosed, Undisturbed

\* A source that is opened fits, or is the first that does not.
LEMMA OpenQuiet ==
  ASSUME TypeInv, SkipInv, QuietInv, OpenSource
  PROVE  QuietInv'
<1> DEFINE size == Len(tree[Source].raw)
<1>0. /\ pc = "scan" /\ next <= Len(sources) /\ Source \in Paths /\ tree[Source].kind = "file"
      /\ total_bytes \in Nat /\ max_total_bytes \in Nat /\ size \in Nat
      /\ next \in Nat \ {0} /\ sources \in Seq(Paths)
  <2>1. pc = "scan" /\ next <= Len(sources) /\ tree[Source].kind = "file" /\ TypeOK
    BY DEF OpenSource, AtSource, TypeInv
  <2>2. Source \in Paths
    BY <2>1, SourceType
  <2>3. tree[Source].raw \in Seq(SUBSET STRING)
    BY <2>1, <2>2, NodeKinds, ContentsAssumption DEF TypeOK
  <2> QED BY <2>1, <2>2, <2>3, BudgetAssumption, LenProperties DEF TypeOK
<1>1. Quiet => /\ WalkErrors(tree) = {} /\ Source \in Files(tree)
               /\ ToSet(sources) = Files(tree)
               /\ UpTo(tree, Source) = total_bytes + size
  <2>1. Quiet => /\ ToSet(sources) = Files(tree) /\ WalkErrors(tree) = {}
                 /\ total_bytes = UpTo(tree, Passed)
    BY <1>0 DEF QuietInv, Scanned
  <2> QED BY <1>0, <2>1, NextUpTo
<1>2. Quiet => (Source \in Exceeding(tree) <=> TooLarge(size) \/ TooMuch(size))
  BY <1>0, <1>1 DEF Exceeding, TooMuch, Remaining
<1>3. Quiet => \A q \in Exceeding(tree) : Source <= q
  <2> SUFFICES ASSUME Quiet, NEW q \in Exceeding(tree) PROVE Source <= q
    OBVIOUS
  <2>1. q \in Files(tree)
    BY DEF Exceeding
  <2>2. DOMAIN sources = 1 .. Len(sources) /\ Len(sources) \in Nat
    BY <1>0, LenProperties
  <2>3. PICK j \in 1 .. Len(sources) : q = sources[j]
    BY <1>1, <2>1, <2>2 DEF ToSet
  <2>4. ~(j \in 1 .. next - 1)
    BY <1>0, <2>3 DEF QuietInv, Scanned
  <2>5. next \in 1 .. Len(sources) /\ (j = next \/ next < j)
    BY <1>0, <2>2, <2>4
  <2>6. next < j => sources[next] < sources[j]
    BY <1>0, <2>2, <2>5 DEF SkipInv, Follows
  <2>7. sources[next] \in Nat /\ sources[j] \in Nat
    BY <1>0, <2>5, ElementOfSeq, PathsAssumption
  <2> QED BY <2>3, <2>5, <2>6, <2>7 DEF Source
<1>4. CASE TooLarge(size) /\ Stop(Failed("file_bytes"))
  <2>1. Quiet => Answered(tree, Failed("file_bytes"))
    BY <1>1, <1>2, <1>3, <1>4, ExceedingAnswers
  <2> QED BY <1>4, <2>1, StopQuiet
<1>5. CASE TooMuch(size) /\ Stop(Failed("total_bytes"))
  <2>1. Quiet => Answered(tree, Failed("total_bytes"))
    BY <1>1, <1>2, <1>3, <1>5, ExceedingAnswers DEF TooMuch
  <2> QED BY <1>5, <2>1, StopQuiet
<1>6. CASE /\ ~TooLarge(size) /\ ~TooMuch(size) /\ pc' = "read"
           /\ UNCHANGED <<listing, next, results, outcome, environment>>
  <2>1. /\ pc' = "read" /\ next' = next /\ sources' = sources /\ total_bytes' = total_bytes
        /\ tree' = tree /\ held' = held
    BY <1>6 DEF listing, results, environment
  <2>2. Quiet => Source \notin Exceeding(tree)
    BY <1>2, <1>6
  <2> QED BY <1>0, <2>1, <2>2
          DEF QuietInv, Quiet, Walked, Scanned, Passed, Source, QuietTreeIsDiagnosed, Undisturbed
<1> QED BY <1>4, <1>5, <1>6 DEF OpenSource

\* What is read of a source at rest is what it holds.
LEMMA ReadQuiet ==
  ASSUME TypeInv, SkipInv, QuietInv, ReadSource
  PROVE  QuietInv'
<1> DEFINE size == Len(tree[Source].raw)
<1>0. /\ pc = "read" /\ next <= Len(sources) /\ Source \in Paths
      /\ total_bytes \in Nat /\ max_total_bytes \in Nat /\ max_file_bytes \in Nat
      /\ next \in 1 .. Len(sources) /\ sources \in Seq(Paths)
      /\ window \in SUBSET Versions(Source)
  <2>1. pc = "read" /\ TypeOK /\ next <= Len(sources)
    BY DEF ReadSource, TypeInv, TypeOK
  <2>2. Source \in Paths
    BY <2>1, SourceType
  <2> QED BY <2>1, <2>2, BudgetAssumption, LenProperties DEF TypeOK, SkipInv, Opened
<1>1. PICK raw \in Readable(window) :
        LET n == Smaller(Len(raw), ReadLimit)
        IN  \/ TooLarge(n) /\ Stop(Failed("file_bytes"))
            \/ TooMuch(n) /\ Stop(Failed("total_bytes"))
            \/ ~TooLarge(n) /\ ~TooMuch(n) /\ Visit(raw)
  BY DEF ReadSource
<1>2. Quiet => raw = tree[Source].raw
  <2>1. raw \in Readable(Versions(Source))
    BY <1>0 DEF Readable
  <2> QED BY <1>0, <2>1, QuietVersions
<1>3. Quiet => /\ WalkErrors(tree) = {} /\ Source \in Files(tree)
               /\ ToSet(sources) = Files(tree)
               /\ UpTo(tree, Source) = total_bytes + Len(raw)
               /\ Source \notin Exceeding(tree)
  <2>1. Quiet => /\ ToSet(sources) = Files(tree) /\ WalkErrors(tree) = {}
                 /\ total_bytes = UpTo(tree, Passed) /\ Source \notin Exceeding(tree)
    BY <1>0 DEF QuietInv, Scanned
  <2> QED BY <1>0, <1>2, <2>1, NextUpTo
<1>4. Len(raw) \in Nat
  <2>1. raw \in Seq(Line)
    BY ReadableType DEF TypeInv, TypeOK
  <2> QED BY <2>1, LenProperties
<1>5. Quiet => ~TooLarge(Len(raw)) /\ total_bytes + Len(raw) <= max_total_bytes
  BY <1>0, <1>2, <1>3, <1>4 DEF Exceeding
<1>6. Quiet => Visit(raw)
  <2> SUFFICES ASSUME Quiet PROVE Visit(raw)
    OBVIOUS
  <2>1. Len(raw) <= max_file_bytes /\ total_bytes + Len(raw) <= max_total_bytes
    BY <1>0, <1>4, <1>5 DEF TooLarge
  <2>2. Smaller(Len(raw), ReadLimit) \in Nat /\ Smaller(Len(raw), ReadLimit) <= Len(raw)
    BY <1>0, <1>4, <2>1 DEF Smaller, ReadLimit, Remaining
  <2> DEFINE n == Smaller(Len(raw), ReadLimit)
  <2> HIDE DEF n
  <2>3. n \in Nat /\ n <= Len(raw)
    BY <2>2 DEF n
  <2>4. ~TooLarge(n) /\ ~TooMuch(n)
    BY <1>0, <1>4, <2>1, <2>3 DEF TooLarge, TooMuch, Remaining
  <2> QED BY <1>1, <2>4 DEF n
<1>7. CASE Stop(Failed("file_bytes")) \/ Stop(Failed("total_bytes"))
  <2>1. pc' # "scan" /\ tree' = tree /\ held' = held
    BY <1>7 DEF Stop, environment
  <2>2. ~Quiet
    BY <1>6, <2>1 DEF Visit
  <2> QED BY <1>7, <2>2, StopQuiet
<1>8. CASE Visit(raw)
  <2>1. /\ pc' = "scan" /\ next' = next + 1 /\ sources' = sources
        /\ total_bytes' = total_bytes + Len(raw) /\ tree' = tree /\ held' = held
    BY <1>8 DEF Visit, listing, environment
  <2>2. Passed' = Source
    BY <1>0, <2>1 DEF Passed, Source
  <2>3. Quiet => \A j \in 1 .. next : sources[j] \notin Exceeding(tree)
    <3> SUFFICES ASSUME Quiet, NEW j \in 1 .. next PROVE sources[j] \notin Exceeding(tree)
      OBVIOUS
    <3>1. j = next \/ j \in 1 .. next - 1
      BY <1>0
    <3> QED BY <1>0, <1>3, <3>1 DEF QuietInv, Scanned, Source
  <2>4. next + 1 - 1 = next
    BY <1>0
  <2> QED BY <1>0, <1>3, <2>1, <2>2, <2>3, <2>4
          DEF QuietInv, Quiet, Walked, Scanned, QuietTreeIsDiagnosed, Undisturbed
<1> QED BY <1>1, <1>7, <1>8

\* A scan that ends has put the whole tree into the corpus.
LEMMA ScanEndsQuiet ==
  ASSUME TypeInv, SkipInv, QuietInv, ScanEnds
  PROVE  QuietInv'
<1>0. /\ pc = "scan" /\ next = Len(sources) + 1 /\ sources \in Seq(Paths) /\ Len(sources) \in Nat
      /\ DOMAIN sources = 1 .. Len(sources)
      /\ corpus \in Seq([path : Paths, raw : Seq(Line)]) /\ Len(corpus) = Len(sources)
      /\ DOMAIN corpus = 1 .. Len(sources)
      /\ \A k \in 1 .. Len(sources) : corpus[k].path = sources[k]
  BY LenProperties DEF ScanEnds, TypeInv, TypeOK, SkipInv, Follows
<1>1. Stop(Diagnosis) /\ Diagnosis.kind = "diagnosis" /\ Diagnosis.corpus = corpus
  BY DEF ScanEnds, Diagnosis
<1>2. Quiet => Answered(tree, Diagnosis)
  <2> SUFFICES ASSUME Quiet PROVE Answered(tree, Diagnosis)
    OBVIOUS
  <2>1. /\ ToSet(sources) = Files(tree) /\ WalkErrors(tree) = {}
        /\ \A j \in 1 .. Len(sources) : sources[j] \notin Exceeding(tree)
    BY <1>0 DEF QuietInv, Scanned
  <2>2. Exceeding(tree) = {}
    BY <1>0, <2>1 DEF Exceeding, ToSet
  <2>3. \A k \in 1 .. Len(sources) :
          corpus[k] = [path |-> sources[k], raw |-> tree[sources[k]].raw]
    <3> SUFFICES ASSUME NEW k \in 1 .. Len(sources)
                 PROVE  corpus[k] = [path |-> sources[k], raw |-> tree[sources[k]].raw]
      OBVIOUS
    <3>1. corpus[k] \in [path : Paths, raw : Seq(Line)] /\ sources[k] \in Paths
      BY <1>0, ElementOfSeq
    <3>2. corpus[k] = [path |-> corpus[k].path, raw |-> corpus[k].raw]
      BY <3>1
    <3>3. corpus[k].raw \in Readable(Versions(sources[k]))
      BY <1>0 DEF SkipInv, Recorded
    <3>4. corpus[k].raw = tree[sources[k]].raw
      BY <3>1, <3>3, QuietVersions
    <3> QED BY <1>0, <3>2, <3>4
  <2>4. ToSet(corpus) = {[path |-> p, raw |-> tree[p].raw] : p \in Files(tree)}
    BY <1>0, <2>1, <2>3 DEF ToSet
  <2> QED BY <1>1, <2>1, <2>2, <2>4 DEF Answered
<1> QED BY <1>1, <1>2, StopQuiet

LEMMA QuietStep == TypeInv /\ SkipInv /\ QuietInv /\ [Next]_vars => QuietInv'
<1> SUFFICES ASSUME TypeInv, SkipInv, QuietInv, [Next]_vars PROVE QuietInv'
  OBVIOUS
<1>1. CASE RootOpenFails
  <2>1. pc = "root" /\ unseen = Paths
    BY <1>1 DEF RootOpenFails, QuietInv
  <2>2. PICK error \in {"root_symlink", "invalid_path", "read"} : Stop(Failed(error))
    BY <1>1 DEF RootOpenFails
  <2> QED BY <2>1, <2>2, StopQuiet
<1>2. CASE OpenRoot
  BY <1>2 DEF OpenRoot, QuietInv, Quiet, Walked, Scanned, QuietTreeIsDiagnosed, Undisturbed,
              listing, results, environment
<1>3. ASSUME NEW p \in Paths, Walk(p) PROVE QuietInv'
  BY <1>3, WalkQuiet
<1>4. CASE WalkEnds
  BY <1>4, WalkEndsQuiet
<1>5. CASE Scan
  <2>1. CASE SourceChanged \/ ScanFault
    <3>1. Stop(Failed("read"))
      BY <2>1 DEF SourceChanged, ScanFault
    <3> QED BY <3>1, StopQuiet
  <2>2. CASE OpenSource
    BY <2>2, OpenQuiet
  <2>3. CASE ReadSource
    BY <2>3, ReadQuiet
  <2>4. CASE ScanEnds
    BY <2>4, ScanEndsQuiet
  <2> QED BY <1>5, <2>1, <2>2, <2>3, <2>4 DEF Scan
<1>6. ASSUME NEW p \in Paths, NEW node \in Nodes, Write(p, node) PROVE QuietInv'
  BY <1>6, WriteQuiet
<1>7. CASE UNCHANGED vars
  <2>1. /\ pc' = pc /\ unseen' = unseen /\ sources' = sources /\ next' = next
        /\ total_bytes' = total_bytes /\ outcome' = outcome /\ tree' = tree /\ held' = held
    BY <1>7 DEF vars, listing, results, environment
  <2> QED BY <2>1 DEF QuietInv, Quiet, Walked, Scanned, Passed, Source, QuietTreeIsDiagnosed,
                      Undisturbed, Finished
<1>8. CASE Done
  BY <1>7, <1>8 DEF Done
<1> QED BY <1>1, <1>2, <1>3, <1>4, <1>5, <1>6, <1>7, <1>8 DEF Next

\* A diagnosis of a tree at rest answers with the whole tree when nothing is
\* in its way, and otherwise with an obstacle of the walk or the first of the
\* scan, for any tree and budget.
THEOREM DiagnoseQuietTree == Spec => []QuietTreeIsDiagnosed
<1>1. QuietInv => QuietTreeIsDiagnosed
  BY DEF QuietInv
<1>2. Spec => []QuietInv
  BY QuietInit, QuietStep, TypeAlways, SkipAlways, PTL DEF Spec
<1> QED BY <1>1, <1>2, PTL
=============================================================================
