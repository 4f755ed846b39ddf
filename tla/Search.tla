------------------------------- MODULE Search -------------------------------
(***************************************************************************)
(* One search: admission of the query plan, discovery of the candidate     *)
(* files, the scan under its budgets, ranking, and the bundle made of the  *)
(* result.  search.rs, search/filesystem.rs, search/ranking.rs and the     *)
(* query limits of model.rs.                                               *)
(*                                                                         *)
(* The walker (the ignore crate) yields what is left of a directory tree   *)
(* after hidden and ignored paths; it looks at every path once, a          *)
(* directory before what it holds, otherwise in an order of its own.       *)
(* Other programs write to the tree all the while, so what was a file for  *)
(* the walker may be anything when it is opened, and may grow between the  *)
(* check of its size and its last byte.                                    *)
(***************************************************************************)
EXTENDS QueryPlan, FileTree

CONSTANTS
  Paths,                   \* paths the walker may yield, byte strings
  SecretPaths,             \* those that is_secret_like
  Contents,                \* contents a file may have
  Plans,                   \* query plans handed to search
  MAX_CANDIDATE_FILES, MAX_DISCOVERY_ENTRIES, MAX_DISCOVERY_DEPTH,
  MaxWrites                \* bound on Write

VARIABLES
  tree,          \* what each path holds
  plan,          \* the query plan
  pc,            \* plan -> root -> walk -> scan <-> read -> done
  unseen,        \* paths the walker has not looked at
  entries,       \* entries it has yielded
  candidates,    \* eligible paths, sorted once the walk is over
  skipped,       \* gaps recorded so far
  next,          \* index of the next candidate
  window,        \* versions of the open file that its handle may still yield
  totalBytes, totalMatches, ranked,
  outcome,       \* the result or the error
  writes,        \* number of writes so far
  held,          \* every node a path ever held
  scanned,       \* paths whose blocks are part of the result
  consumed       \* bytes really read from files

discovery == <<unseen, entries, candidates>>
totals == <<totalBytes, totalMatches, ranked>>
environment == <<tree, writes, held>>
history == <<scanned, consumed>>
vars == <<plan, pc, discovery, skipped, next, window, totals, outcome,
          environment, history>>

Link     == Denied
Unlisted == Node("unlisted", <<>>)   \* a directory the walker cannot list
Nodes    == {File(raw) : raw \in Contents} \cup {Missing, Directory, Link, Unlisted}

\* Where the names of a path end, the last one excepted.
Slashes(path) == {i \in DOMAIN path : path[i] = 47}
Depth(path)   == Cardinality(Slashes(path)) + 1
Parents(path) == {SubSeq(path, 1, i - 1) : i \in Slashes(path)} \cap Paths

\* Only directories hold something.
IsTree(t) == \A p \in Paths : t[p] # Missing => \A d \in Parents(p) : t[d] = Directory

(***************************************************************************)
(* Outcomes.                                                               *)
(***************************************************************************)

Gap(path, reason) == [path |-> path, reason |-> reason]

NoOutcome     == [kind |-> "none"]
Failed(error) == [kind |-> "error", error |-> error]

PathOrder  == INSTANCE Sorting WITH Before <- BytesBefore
BlockOrder == INSTANCE Sorting WITH Before <- RankedBefore

\* Mutant: the blocks are cut to size before they are ranked.
ResultCutFirst(blocks, gaps) ==
  LET first == SubSeq(blocks, 1, Smaller(Len(blocks), plan.budget.max_blocks))
      shown == [k \in DOMAIN gaps |-> [path   |-> Encoded(gaps[k].path),
                                       reason |-> gaps[k].reason]]
  IN  [kind    |-> "result",
       blocks  |-> BlockOrder!Sorted(first),
       skipped |-> GapOrder!Sorted(shown)]

\* What search returns, sorted and cut to size.
Result(blocks, gaps) ==
  LET order == BlockOrder!Sorted(blocks)
      shown == [k \in DOMAIN gaps |-> [path   |-> Encoded(gaps[k].path),
                                       reason |-> gaps[k].reason]]
  IN  [kind    |-> "result",
       blocks  |-> SubSeq(order, 1, Smaller(Len(order), plan.budget.max_blocks)),
       skipped |-> GapOrder!Sorted(shown)]

(***************************************************************************)
(* Admission and the root.                                                 *)
(***************************************************************************)

Init ==
  /\ tree \in [Paths -> Nodes] /\ IsTree(tree) /\ plan \in Plans
  /\ pc = "plan"
  /\ unseen = Paths /\ entries = 0 /\ candidates = <<>>
  /\ skipped = <<>> /\ next = 1 /\ window = {}
  /\ totalBytes = 0 /\ totalMatches = 0 /\ ranked = <<>>
  /\ outcome = NoOutcome
  /\ writes = 0 /\ held = [p \in Paths |-> {tree[p]}]
  /\ scanned = {} /\ consumed = 0

\* Every step of the search leaves the tree and the plan alone.
Control == UNCHANGED <<plan, environment>>

Stop(result) ==
  /\ pc' = "done" /\ outcome' = result
  /\ UNCHANGED <<discovery, next, window, totals>>
  /\ Control

RejectPlan ==
  /\ pc = "plan"
  /\ \/ plan.schema_version # SchemaVersion /\ Stop(Failed("unsupported_schema"))
     \/ /\ plan.schema_version = SchemaVersion /\ ~ValidLimits(plan)
        /\ Stop(Failed("query_limit"))
  /\ UNCHANGED <<skipped, history>>

AdmitPlan ==
  /\ pc = "plan"
  /\ plan.schema_version = SchemaVersion /\ ValidLimits(plan)
  /\ pc' = "root"
  /\ UNCHANGED <<discovery, skipped, next, window, totals, outcome, history>>
  /\ Control

\* The root is a symlink, no safe path, or does not open.
RootOpenFails ==
  /\ pc = "root"
  /\ \E error \in {"root_symlink", "unsafe_path", "root_open"} : Stop(Failed(error))
  /\ UNCHANGED <<skipped, history>>

OpenRoot ==
  /\ pc = "root" /\ pc' = "walk"
  /\ UNCHANGED <<discovery, skipped, next, window, totals, outcome, history>>
  /\ Control

(***************************************************************************)
(* Discovery.                                                              *)
(***************************************************************************)

Overflows(p) == entries + 1 > MAX_DISCOVERY_ENTRIES \/ Depth(p) > MAX_DISCOVERY_DEPTH

\* A directory comes before what it holds.
Walking(p) == pc = "walk" /\ p \in unseen /\ Parents(p) \cap unseen = {}

\* A path that is gone, or not there yet, when the walker comes by.
WalkPast(p) ==
  /\ Walking(p) /\ tree[p] = Missing
  /\ unseen' = unseen \ {p}
  /\ UNCHANGED <<pc, entries, candidates, skipped, next, window, totals, outcome,
                 history>>
  /\ Control

\* One entry too many, or too deep: everything found so far is dropped, and
\* the search goes on with no candidate and one gap for the root.
WalkOverflows(p) ==
  /\ Walking(p) /\ tree[p] # Missing /\ Overflows(p)
  /\ pc' = "scan"
  /\ unseen' = {} /\ entries' = entries + 1
  /\ candidates' = <<>> /\ skipped' = <<Gap(<<>>, "budget")>>
  /\ UNCHANGED <<next, window, totals, outcome, history>>
  /\ Control

\* A directory is an entry before its listing fails.
WalkFails(p) ==
  /\ Walking(p) /\ tree[p] = Unlisted /\ ~Overflows(p)
  /\ Stop(Failed("walk"))
  /\ UNCHANGED <<skipped, history>>

\* Mutant: what looks secret is disclosed as a gap and read all the same.
WalkEntrySecretToo(p) ==
  /\ Walking(p) /\ tree[p] \notin {Missing, Unlisted} /\ ~Overflows(p)
  /\ unseen' = unseen \ {p} /\ entries' = entries + 1
  /\ LET file == tree[p].kind = "file"
     IN  /\ skipped' = IF file /\ p \in SecretPaths
                       THEN Append(skipped, Gap(p, "secret")) ELSE skipped
         /\ candidates' = IF file THEN Append(candidates, p) ELSE candidates
  /\ UNCHANGED <<pc, next, window, totals, outcome, history>>
  /\ Control

WalkEntry(p) ==
  /\ Walking(p) /\ tree[p] \notin {Missing, Unlisted} /\ ~Overflows(p)
  /\ unseen' = unseen \ {p} /\ entries' = entries + 1
  /\ LET file == tree[p].kind = "file"
     IN  /\ skipped' = IF file /\ p \in SecretPaths
                       THEN Append(skipped, Gap(p, "secret")) ELSE skipped
         /\ candidates' = IF file /\ p \notin SecretPaths
                          THEN Append(candidates, p) ELSE candidates
  /\ UNCHANGED <<pc, next, window, totals, outcome, history>>
  /\ Control

\* Mutant: the candidates stay in the order of the walker.
WalkEndsUnsorted ==
  /\ pc = "walk" /\ unseen = {}
  /\ pc' = "scan"
  /\ LET kept == Smaller(Len(candidates), MAX_CANDIDATE_FILES)
     IN  /\ candidates' = SubSeq(candidates, 1, kept)
         /\ skipped' = IF kept < Len(candidates)
                       THEN Append(skipped, Gap(candidates[kept + 1], "budget"))
                       ELSE skipped
  /\ UNCHANGED <<unseen, entries, next, window, totals, outcome, history>>
  /\ Control

\* Candidates are sorted; of those beyond the limit the first is disclosed.
WalkEnds ==
  /\ pc = "walk" /\ unseen = {}
  /\ pc' = "scan"
  /\ LET sorted == PathOrder!Sorted(candidates)
         kept   == Smaller(Len(sorted), MAX_CANDIDATE_FILES)
     IN  /\ candidates' = SubSeq(sorted, 1, kept)
         /\ skipped' = IF kept < Len(sorted)
                       THEN Append(skipped, Gap(sorted[kept + 1], "budget"))
                       ELSE skipped
  /\ UNCHANGED <<unseen, entries, next, window, totals, outcome, history>>
  /\ Control

(***************************************************************************)
(* The scan.                                                               *)
(***************************************************************************)

Candidate == candidates[next]
Remaining == plan.budget.max_total_bytes - totalBytes
TooLarge(n) == n > plan.budget.max_file_bytes
TooMuch(n)  == ~TooLarge(n) /\ n > Remaining

\* One candidate is left out, and the scan goes on.
Skip(reason) ==
  /\ pc' = "scan" /\ next' = next + 1 /\ window' = {}
  /\ skipped' = Append(skipped, Gap(Candidate, reason))
  /\ UNCHANGED <<discovery, totals, outcome, scanned>>
  /\ Control

\* Mutant: the candidate that did not fit is not disclosed.
BudgetSuffixLater ==
  [k \in 1 .. Len(candidates) - next |-> Gap(candidates[next + k], "budget")]

\* This candidate and all that follow are left out, and the scan is over.
BudgetSuffix ==
  [k \in 1 .. Len(candidates) - next + 1 |-> Gap(candidates[next + k - 1], "budget")]

Break ==
  /\ skipped' = skipped \o BudgetSuffix
  /\ Stop(Result(ranked, skipped \o BudgetSuffix))
  /\ UNCHANGED scanned

AtCandidate == pc = "scan" /\ next <= Len(candidates)

CandidateGone ==
  /\ AtCandidate /\ tree[Candidate] \in {Missing, Link, Unlisted}
  /\ Stop(Failed("file_io"))
  /\ UNCHANGED <<skipped, history>>

CandidateNonRegular ==
  /\ AtCandidate /\ tree[Candidate] = Directory
  /\ Skip("non_regular")
  /\ UNCHANGED consumed

\* The directories on the way are opened one by one without following links;
\* here that and the opening of the file are one look at the path.
OpenCandidate ==
  /\ AtCandidate /\ tree[Candidate].kind = "file"
  /\ LET size == Len(tree[Candidate].raw)
     IN  \/ TooLarge(size) /\ Skip("oversized") /\ UNCHANGED consumed
         \/ TooMuch(size) /\ Break /\ UNCHANGED consumed
         \/ /\ ~TooLarge(size) /\ ~TooMuch(size)
            /\ pc' = "read" /\ window' = {tree[Candidate].raw}
            /\ UNCHANGED <<discovery, skipped, next, totals, outcome, history>>
            /\ Control

\* The matches of a file count even when they exceed the budget by it.
Accept(raw) ==
  LET matches == totalMatches + file_matches(plan, ParseLines(raw))
  IN  \/ matches > plan.budget.max_matches /\ Break
      \/ /\ matches <= plan.budget.max_matches
         /\ pc' = "scan" /\ next' = next + 1 /\ window' = {}
         /\ totalBytes' = totalBytes + Len(raw)
         /\ totalMatches' = matches
         /\ ranked' = ranked \o blocks_for_file(plan, Candidate, raw)
         /\ scanned' = scanned \cup {Candidate}
         /\ UNCHANGED <<discovery, skipped, outcome>>
         /\ Control

\* Reading stops one byte above the smaller limit, and the sizes are checked
\* again: the file may have grown.
ReadLimit == Smaller(plan.budget.max_file_bytes, Remaining) + 1

\* Mutant: what was read is not measured against the total again.
ReadCandidateOnce ==
  /\ pc = "read"
  /\ \E raw \in Readable(window) :
       LET n == Smaller(Len(raw), ReadLimit)
       IN  /\ consumed' = consumed + n
           /\ \/ TooLarge(n) /\ Skip("oversized")
              \/ ~TooLarge(n) /\ Accept(raw)

ReadCandidate ==
  /\ pc = "read"
  /\ \E raw \in Readable(window) :
       LET n == Smaller(Len(raw), ReadLimit)
       IN  /\ consumed' = consumed + n
           /\ \/ TooLarge(n) /\ Skip("oversized")
              \/ TooMuch(n) /\ Break
              \/ ~TooLarge(n) /\ ~TooMuch(n) /\ Accept(raw)

ScanFault ==
  /\ AtCandidate \/ pc = "read"
  /\ Stop(Failed("file_io"))
  /\ UNCHANGED <<skipped, history>>

ScanEnds ==
  /\ pc = "scan" /\ next > Len(candidates)
  /\ Stop(Result(ranked, skipped))
  /\ UNCHANGED <<skipped, history>>

(***************************************************************************)
(* The environment.                                                        *)
(***************************************************************************)

Write(p, node) ==
  /\ pc \in {"walk", "scan", "read"} /\ tree[p] # node
  /\ writes < MaxWrites /\ writes' = writes + 1
  /\ tree' = [tree EXCEPT ![p] = node] /\ IsTree(tree')
  /\ held' = [held EXCEPT ![p] = @ \cup {node}]
  /\ \/ window' = window
     \/ /\ pc = "read" /\ p = Candidate /\ node.kind = "file"
        /\ window' = window \cup {node.raw}
  /\ UNCHANGED <<plan, pc, discovery, skipped, next, totals, outcome, history>>

Done == pc = "done" /\ UNCHANGED vars

Walk(p) == WalkPast(p) \/ WalkOverflows(p) \/ WalkFails(p) \/ WalkEntry(p)

Scan == \/ CandidateGone \/ CandidateNonRegular \/ OpenCandidate
        \/ ReadCandidate \/ ScanFault \/ ScanEnds

Searcher == \/ RejectPlan \/ AdmitPlan \/ RootOpenFails \/ OpenRoot
            \/ (\E p \in Paths : Walk(p)) \/ WalkEnds \/ Scan

Next == \/ Searcher
        \/ \E p \in Paths, node \in Nodes : Write(p, node)
        \/ Done

Spec == Init /\ [][Next]_vars

(***************************************************************************)
(* Assumptions.                                                            *)
(***************************************************************************)

ASSUME LimitsAssumption ==
  {MAX_CANDIDATE_FILES, MAX_DISCOVERY_ENTRIES, MAX_DISCOVERY_DEPTH, MaxWrites}
    \subseteq Nat
ASSUME PathsAssumption ==
  /\ Paths \subseteq Seq(Byte) /\ SecretPaths \subseteq Paths /\ IsFiniteSet(Paths)
  /\ \A p \in Paths : Depth(p) <= MAX_DISCOVERY_DEPTH + 1  \* WalkBuilder::max_depth
ASSUME ContentsAssumption == Contents \subseteq Seq(Byte)
ASSUME PlansAssumption ==
  \A p \in Plans :
    /\ {p.quoted_phrases, p.identifiers, p.terms} \subseteq Seq(Seq(Byte))
    /\ p.budget.context_lines \in Nat
    /\ {p.budget.max_blocks, p.budget.max_file_bytes, p.budget.max_total_bytes,
        p.budget.max_matches} \subseteq Nat \ {0}

(***************************************************************************)
(* Properties.                                                             *)
(***************************************************************************)

GapType == [path : Paths \cup {<<>>}, reason : ToSet(SkipReasons)]

\* Every variable has its type, and the scan stays within its candidates.
TypeOK ==
  /\ tree \in [Paths -> Nodes] /\ plan \in Plans
  /\ pc \in {"plan", "root", "walk", "scan", "read", "done"}
  /\ unseen \subseteq Paths /\ entries \in 0 .. MAX_DISCOVERY_ENTRIES + 1
  /\ candidates \in Seq(Paths \ SecretPaths) /\ skipped \in Seq(GapType)
  /\ next \in 1 .. Len(candidates) + 1
  /\ pc = "read" => next <= Len(candidates)
  /\ window \subseteq Contents
  /\ totalBytes \in Nat /\ totalMatches \in Nat /\ consumed \in Nat
  /\ \A k \in DOMAIN ranked : ranked[k].path.bytes \in scanned
  /\ scanned \subseteq ToSet(candidates)
  /\ outcome.kind \in {"none", "result", "error"}
  /\ held \in [Paths -> SUBSET Nodes] /\ writes \in 0 .. MaxWrites

Finished == outcome.kind = "result"
Bundle   == assemble_bundle(plan, outcome.blocks, outcome.skipped)

GapsOf(path) == {gap \in ToSet(outcome.skipped) : gap.path.bytes = path}

\* If the bundle made of a result is accepted, then every path that was a
\* file all along, whatever its content, was scanned or is named by a gap: no
\* budget, limit or race makes a source disappear silently
\* (search, discover, assemble_bundle).
AcceptedOmitsNothing ==
  Finished /\ Bundle.critic.verdict = "accepted" =>
    \A p \in Paths :
      (\A node \in held[p] : node.kind = "file") => p \in scanned \/ GapsOf(p) # {}

\* What path held as a file.
Versions(path) == {node.raw : node \in {n \in held[path] : n.kind = "file"}}

\* All blocks of one reading of each scanned file.
BlocksOf(reading) ==
  UNION {ToSet(blocks_for_file(plan, p, reading[p])) : p \in scanned}

\* blocks are the best max_blocks of found, the best first.
AreBestOf(blocks, found) ==
  /\ ToSet(blocks) \subseteq found
  /\ \A j, k \in DOMAIN blocks : j < k => ~RankedBefore(blocks[k], blocks[j])
  /\ \A hidden \in found \ ToSet(blocks) :
       /\ Len(blocks) = plan.budget.max_blocks
       /\ \A k \in DOMAIN blocks : ~RankedBefore(hidden, blocks[k])

\* Whatever is written during a search, its result is that of one reading of
\* each scanned file, of what the file held while the search ran: no block is
\* of a source that was not there, no source shows blocks of two readings or
\* some of its blocks only, and a block is left out only for max_blocks that
\* do not rank behind it (search, read_candidate, compare_ranked).
BestOfOneReading ==
  Finished =>
    \E reading \in [scanned -> UNION {Readable(Versions(p)) : p \in scanned}] :
      /\ \A p \in scanned : reading[p] \in Readable(Versions(p))
      /\ AreBestOf(outcome.blocks, BlocksOf(reading))

\* The budgets hold against a tree that changes: what is kept never exceeds
\* them, and what is read and thrown away is at most one limit's worth for
\* each file that outgrew it, and one byte when the total is exhausted
\* (search, read_candidate, discover).
WorkIsBounded ==
  LET late == Cardinality({k \in DOMAIN skipped : skipped[k].reason = "oversized"})
  IN  /\ totalBytes <= plan.budget.max_total_bytes
      /\ totalMatches <= plan.budget.max_matches
      /\ pc \in {"scan", "read"} => Len(candidates) <= MAX_CANDIDATE_FILES
      /\ Len(skipped) <= MAX_DISCOVERY_ENTRIES + 1
      /\ consumed <= totalBytes + 1 + Remaining
                       + late * (plan.budget.max_file_bytes + 1)
      /\ Finished => Len(outcome.blocks) <= plan.budget.max_blocks

(***************************************************************************)
(* What a search of a tree at rest should answer.                          *)
(***************************************************************************)

\* The paths of a set in order: the k-th has k - 1 before it.
InOrder(P) ==
  [k \in 1 .. Cardinality(P) |->
     CHOOSE p \in P : Cardinality({q \in P : BytesBefore(q, p)}) = k - 1]

Eligible(t) == InOrder({p \in Paths \ SecretPaths : t[p].kind = "file"})

TooManyEntries(t) ==
  LET there == {p \in Paths : t[p] # Missing}
  IN  \/ Cardinality(there) > MAX_DISCOVERY_ENTRIES
      \/ \E p \in there : Depth(p) > MAX_DISCOVERY_DEPTH

CannotList(t) == \E p \in Paths : t[p] = Unlisted

\* All that a search of a tree at rest depends on.
Given(t) == [plan |-> plan, tree |-> t]

Fits(given, p) == Len(given.tree[p].raw) <= given.plan.budget.max_file_bytes

\* What the sources that are small enough add up to.
Sums(given, sources) ==
  FoldLeft(LAMBDA sum, p :
             IF Fits(given, p)
             THEN LET raw == given.tree[p].raw
                  IN  [bytes   |-> sum.bytes + Len(raw),
                       matches |-> sum.matches + file_matches(given.plan, ParseLines(raw)),
                       blocks  |-> sum.blocks \o blocks_for_file(given.plan, p, raw)]
             ELSE sum,
           [bytes |-> 0, matches |-> 0, blocks |-> <<>>], sources)

Exceeds(given, sum) == \/ sum.bytes > given.plan.budget.max_total_bytes
                       \/ sum.matches > given.plan.budget.max_matches

\* The scan of sources in order, by the sums its budgets are about.
QuietScan(given, sources, gaps) ==
  LET n == Len(sources)
      upTo(k) == Sums(given, SubSeq(sources, 1, k))
      over    == {k \in 1 .. n : Exceeds(given, upTo(k))}
      reached == {k \in 1 .. n : \A o \in over : k < o}
      large   == {k \in reached : ~Fits(given, sources[k])}
  IN  Result(upTo(Cardinality(reached)).blocks,
             SetToSeq(gaps \cup {Gap(sources[k], "oversized") : k \in large}
                        \cup {Gap(sources[k], "budget") : k \in (1 .. n) \ reached}))

QuietResult(t) ==
  LET eligible == Eligible(t)
      kept     == Smaller(Len(eligible), MAX_CANDIDATE_FILES)
      secrets  == {p \in SecretPaths : t[p].kind = "file"}
      gaps     == {Gap(p, "secret") : p \in secrets}
                    \cup {Gap(eligible[k], "budget") : k \in {kept + 1} \cap DOMAIN eligible}
  IN  IF TooManyEntries(t) THEN Result(<<>>, <<Gap(<<>>, "budget")>>)
      ELSE QuietScan(Given(t), SubSeq(eligible, 1, kept), gaps)

Undisturbed ==
  /\ pc = "done" /\ plan.schema_version = SchemaVersion /\ ValidLimits(plan)
  /\ \A p \in Paths : held[p] = {tree[p]}
  /\ outcome \notin {Failed(e) : e \in {"root_symlink", "unsafe_path", "root_open",
                                        "file_io"}}

\* The result of a search is a function of the plan and the tree: the order
\* of the walker, and the order in which files were created, never shows
\* (search, discover).  A directory that cannot be listed counts only where
\* no limit is exceeded: see WalkOrderNeverShows.
DeterminedByTree ==
  Undisturbed =>
    /\ CannotList(tree) \/ outcome = QuietResult(tree)
    /\ CannotList(tree) /\ ~TooManyEntries(tree) => outcome = Failed("walk")

\* SPEC.md:150: no filesystem order may affect the result.  Where one
\* directory cannot be listed and there are too many entries as well, the
\* order of the walker decides between an error and a result.
WalkOrderNeverShows ==
  Undisturbed /\ CannotList(tree) => outcome = Failed("walk")
=============================================================================
