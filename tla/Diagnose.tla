------------------------------ MODULE Diagnose ------------------------------
(***************************************************************************)
(* One diagnosis: the walk that lists the sources, the reading of each of  *)
(* them under the budget, and the rules that make findings of their lines. *)
(* diagnose/filesystem.rs and diagnose/scanner.rs.                         *)
(*                                                                         *)
(* A path is a number: its place among all paths in the byte order of      *)
(* their names.  A source is a sequence of lines and its size the number   *)
(* of them; a line is the set of the needles found in it in lower case,    *)
(* with Comment when it starts as a comment does and NotText when its      *)
(* bytes are not UTF-8.  The walker and the other programs are those of    *)
(* Search, without nested paths.                                           *)
(***************************************************************************)
EXTENDS FileTree, FiniteSets, SequencesExt

CONSTANTS
  Paths,       \* paths the walker may yield
  Unnamed,     \* those whose name is not UTF-8
  Contents,    \* what a source may hold
  max_candidate_files, max_file_bytes, max_total_bytes,
  MaxWrites    \* bound on Write

VARIABLES
  tree,        \* what each path holds
  pc,          \* root -> walk -> scan <-> read -> done
  unseen,      \* paths the walker has not looked at
  sources,     \* regular files found, sorted once the walk is over
  next,        \* index of the next source
  window,      \* versions of the open source that its handle may still yield
  total_bytes,
  corpus,      \* what the digest is about: path and bytes of every source
  scan,        \* ScanState: the first citation of each kind
  outcome,     \* the diagnosis or the error
  writes,      \* number of writes so far
  held,        \* every node a path ever held
  consumed     \* bytes really read from sources

listing == <<unseen, sources>>
results == <<total_bytes, corpus, scan>>
environment == <<tree, writes, held>>
vars == <<pc, listing, next, window, results, outcome, environment, consumed>>

Link     == Denied
Unlisted == Node("unlisted", <<>>)   \* a directory the walker cannot list
Nodes    == {File(raw) : raw \in Contents} \cup {Missing, Directory, Link, Unlisted}

(***************************************************************************)
(* The rules.                                                              *)
(***************************************************************************)

Comment == "comment"
NotText == "not text"

\* Each rule of its own, in the order of DIRECT_RULES, with its needles; one
\* needle is also one of retrieval.
DIRECT_RULES ==
  <<[rule |-> "vector_store",   needles |-> {"chromadb"}],
    [rule |-> "embedding_call", needles |-> {"embed_documents"}],
    [rule |-> "fixed_chunking", needles |-> {"chunk_size"}],
    [rule |-> "top_k",          needles |-> {"similarity_search", "top_k"}],
    [rule |-> "reranker",       needles |-> {"cross_encoder"}]>>

Retrieval == {"similarity_search", "vectorstore"}
Freshness == {"freshness"}
Exact     == {"bm25"}

NoCitation == [path |-> 0, line |-> 0]

NewScan ==
  [direct |-> [k \in DOMAIN DIRECT_RULES |-> NoCitation],
   missing_line |-> NoCitation, retrieval |-> NoCitation,
   has_freshness |-> FALSE, has_exact |-> FALSE]

Names(line, needles) == line \cap needles # {}
CitesWithoutLine(line) == {"citation", "source"} \subseteq line /\ "line" \notin line

First(old, found, citation) ==
  IF old = NoCitation /\ found THEN citation ELSE old

\* Mutant: a later line replaces the citation.
VisitLineLast(state, citation, line) ==
  LET Latest(old, found) == IF found THEN citation ELSE old
  IN  IF Comment \in line THEN state
      ELSE [direct |-> [k \in DOMAIN DIRECT_RULES |->
                          Latest(state.direct[k], Names(line, DIRECT_RULES[k].needles))],
            missing_line  |-> Latest(state.missing_line, CitesWithoutLine(line)),
            retrieval     |-> Latest(state.retrieval, Names(line, Retrieval)),
            has_freshness |-> state.has_freshness \/ Names(line, Freshness),
            has_exact     |-> state.has_exact \/ Names(line, Exact)]

VisitLine(state, citation, line) ==
  IF Comment \in line THEN state
  ELSE [direct |-> [k \in DOMAIN DIRECT_RULES |->
                      First(state.direct[k], Names(line, DIRECT_RULES[k].needles), citation)],
        missing_line  |-> First(state.missing_line, CitesWithoutLine(line), citation),
        retrieval     |-> First(state.retrieval, Names(line, Retrieval), citation),
        has_freshness |-> state.has_freshness \/ Names(line, Freshness),
        has_exact     |-> state.has_exact \/ Names(line, Exact)]

IsText(raw) == \A line \in ToSet(raw) : NotText \notin line

VisitLines(state, path, raw) ==
  FoldLeft(LAMBDA s, k : VisitLine(s, [path |-> path, line |-> k], raw[k]),
           state, [k \in DOMAIN raw |-> k])

\* A finding where there is something to cite.
Finding(rule, citation) ==
  IF citation = NoCitation THEN <<>> ELSE <<[rule |-> rule, citation |-> citation]>>

Findings(state) ==
  FlattenSeq([k \in DOMAIN DIRECT_RULES |->
                Finding(DIRECT_RULES[k].rule, state.direct[k])])
  \o Finding("missing_line", state.missing_line)
  \o Finding("missing_freshness", IF state.has_freshness THEN NoCitation ELSE state.retrieval)
  \o Finding("missing_exact", IF state.has_exact THEN NoCitation ELSE state.retrieval)

(***************************************************************************)
(* Outcomes.                                                               *)
(***************************************************************************)

Failed(error) ==
  [kind |-> "error", error |-> error, corpus |-> <<>>, findings |-> <<>>]
Diagnosis ==
  [kind |-> "diagnosis", error |-> "none", corpus |-> corpus,
   findings |-> Findings(scan)]
NoOutcome == [kind |-> "none", error |-> "none", corpus |-> <<>>, findings |-> <<>>]

Init ==
  /\ tree \in [Paths -> Nodes]
  /\ pc = "root" /\ unseen = Paths /\ sources = <<>> /\ next = 1
  /\ window = {} /\ total_bytes = 0 /\ corpus = <<>> /\ scan = NewScan
  /\ outcome = NoOutcome /\ consumed = 0
  /\ writes = 0 /\ held = [p \in Paths |-> {tree[p]}]

Stop(result) ==
  /\ pc' = "done" /\ outcome' = result
  /\ UNCHANGED <<listing, next, window, results, environment>>

RootOpenFails ==
  /\ pc = "root"
  /\ \E error \in {"root_symlink", "invalid_path", "read"} : Stop(Failed(error))
  /\ UNCHANGED consumed

OpenRoot ==
  /\ pc = "root" /\ pc' = "walk"
  /\ UNCHANGED <<listing, next, window, results, outcome, environment, consumed>>

(***************************************************************************)
(* The walk.                                                               *)
(***************************************************************************)

Walking(p) == pc = "walk" /\ p \in unseen

\* Anything but a regular file is passed over.
WalkPast(p) ==
  /\ Walking(p) /\ tree[p] \in {Missing, Directory, Link}
  /\ unseen' = unseen \ {p}
  /\ UNCHANGED <<pc, sources, next, window, results, outcome, environment, consumed>>

WalkFails(p) ==
  /\ Walking(p) /\ tree[p] = Unlisted
  /\ Stop(Failed("walk")) /\ UNCHANGED consumed

AtCapacity == Len(sources) = max_candidate_files

\* Mutant: sources beyond the limit are left out.
WalkFullSilently(p) ==
  /\ Walking(p) /\ tree[p].kind = "file" /\ AtCapacity
  /\ unseen' = unseen \ {p}
  /\ UNCHANGED <<pc, sources, next, window, results, outcome, environment, consumed>>

WalkFull(p) ==
  /\ Walking(p) /\ tree[p].kind = "file" /\ AtCapacity
  /\ Stop(Failed("candidate_files")) /\ UNCHANGED consumed

WalkUnnamed(p) ==
  /\ Walking(p) /\ tree[p].kind = "file" /\ ~AtCapacity /\ p \in Unnamed
  /\ Stop(Failed("invalid_path")) /\ UNCHANGED consumed

WalkSource(p) ==
  /\ Walking(p) /\ tree[p].kind = "file" /\ ~AtCapacity /\ p \notin Unnamed
  /\ unseen' = unseen \ {p} /\ sources' = Append(sources, p)
  /\ UNCHANGED <<pc, next, window, results, outcome, environment, consumed>>

\* Mutant: sources are read in the order of the walker.
WalkEndsUnsorted ==
  /\ pc = "walk" /\ unseen = {} /\ pc' = "scan"
  /\ UNCHANGED <<listing, next, window, results, outcome, environment, consumed>>

\* What sort_by makes of paths that are all different.
WalkEnds ==
  /\ pc = "walk" /\ unseen = {} /\ pc' = "scan"
  /\ sources' \in [DOMAIN sources -> ToSet(sources)]
  /\ ToSet(sources') = ToSet(sources)
  /\ \A j, k \in DOMAIN sources : j < k => sources'[j] < sources'[k]
  /\ UNCHANGED <<unseen, next, window, results, outcome, environment, consumed>>

(***************************************************************************)
(* Reading the sources.                                                    *)
(***************************************************************************)

AtSource  == pc = "scan" /\ next <= Len(sources)
Source    == sources[next]
Remaining == max_total_bytes - total_bytes
TooLarge(n) == n > max_file_bytes
TooMuch(n)  == ~TooLarge(n) /\ n > Remaining

\* Mutant: a source that is gone is left out.
SourceChangedForgiven ==
  /\ AtSource /\ tree[Source].kind # "file"
  /\ next' = next + 1
  /\ UNCHANGED <<pc, listing, window, results, outcome, environment, consumed>>

\* Gone, a link, or not regular any more.
SourceChanged ==
  /\ AtSource /\ tree[Source].kind # "file"
  /\ Stop(Failed("read")) /\ UNCHANGED consumed

\* Mutant: what is opened need not be a regular file.
OpenSourceUnchecked ==
  /\ AtSource /\ tree[Source].kind \in {"file", "directory"}
  /\ UNCHANGED consumed
  /\ LET size == Len(tree[Source].raw)
     IN  \/ TooLarge(size) /\ Stop(Failed("file_bytes"))
         \/ TooMuch(size) /\ Stop(Failed("total_bytes"))
         \/ /\ ~TooLarge(size) /\ ~TooMuch(size)
            /\ pc' = "read" /\ window' = {tree[Source].raw}
            /\ UNCHANGED <<listing, next, results, outcome, environment>>

\* The directories on the way and the file are one look at the path.
OpenSource ==
  /\ AtSource /\ tree[Source].kind = "file"
  /\ UNCHANGED consumed
  /\ LET size == Len(tree[Source].raw)
     IN  \/ TooLarge(size) /\ Stop(Failed("file_bytes"))
         \/ TooMuch(size) /\ Stop(Failed("total_bytes"))
         \/ /\ ~TooLarge(size) /\ ~TooMuch(size)
            /\ pc' = "read" /\ window' = {tree[Source].raw}
            /\ UNCHANGED <<listing, next, results, outcome, environment>>

Smaller(m, n) == IF m <= n THEN m ELSE n

\* One byte more than may be kept.
ReadLimit == Smaller(max_file_bytes, Remaining) + 1

Visit(raw) ==
  /\ pc' = "scan" /\ next' = next + 1 /\ window' = {}
  /\ total_bytes' = total_bytes + Len(raw)
  /\ corpus' = Append(corpus, [path |-> Source, raw |-> raw])
  /\ scan' = IF IsText(raw) THEN VisitLines(scan, Source, raw) ELSE scan
  /\ UNCHANGED <<listing, outcome, environment>>

\* Mutant: the read is not cut off.
ReadSourceWhole ==
  /\ pc = "read"
  /\ \E raw \in Readable(window) :
       /\ consumed' = consumed + Len(raw)
       /\ \/ TooLarge(Len(raw)) /\ Stop(Failed("file_bytes"))
          \/ TooMuch(Len(raw)) /\ Stop(Failed("total_bytes"))
          \/ ~TooLarge(Len(raw)) /\ ~TooMuch(Len(raw)) /\ Visit(raw)

ReadSource ==
  /\ pc = "read"
  /\ \E raw \in Readable(window) :
       LET n == Smaller(Len(raw), ReadLimit)
       IN  /\ consumed' = consumed + n
           /\ \/ TooLarge(n) /\ Stop(Failed("file_bytes"))
              \/ TooMuch(n) /\ Stop(Failed("total_bytes"))
              \/ ~TooLarge(n) /\ ~TooMuch(n) /\ Visit(raw)

ScanFault ==
  /\ AtSource \/ pc = "read"
  /\ Stop(Failed("read")) /\ UNCHANGED consumed

ScanEnds ==
  /\ pc = "scan" /\ next > Len(sources)
  /\ Stop(Diagnosis) /\ UNCHANGED consumed

(***************************************************************************)
(* The environment.                                                        *)
(***************************************************************************)

Write(p, node) ==
  /\ pc \in {"walk", "scan", "read"} /\ tree[p] # node
  /\ writes < MaxWrites /\ writes' = writes + 1
  /\ tree' = [tree EXCEPT ![p] = node]
  /\ held' = [held EXCEPT ![p] = @ \cup {node}]
  /\ \/ window' = window
     \/ /\ pc = "read" /\ p = Source /\ node.kind = "file"
        /\ window' = window \cup {node.raw}
  /\ UNCHANGED <<pc, listing, next, results, outcome, consumed>>

Done == pc = "done" /\ UNCHANGED vars

Walk(p) == WalkPast(p) \/ WalkFails(p) \/ WalkFull(p) \/ WalkUnnamed(p) \/ WalkSource(p)

Scan == SourceChanged \/ OpenSource \/ ReadSource \/ ScanFault \/ ScanEnds

Next == \/ RootOpenFails \/ OpenRoot
        \/ (\E p \in Paths : Walk(p)) \/ WalkEnds \/ Scan
        \/ \E p \in Paths, node \in Nodes : Write(p, node)
        \/ Done

Spec == Init /\ [][Next]_vars

(***************************************************************************)
(* Assumptions.                                                            *)
(***************************************************************************)

ASSUME PathsAssumption == Paths \subseteq Nat \ {0} /\ IsFiniteSet(Paths)
ASSUME ContentsAssumption == Contents \subseteq Seq(SUBSET STRING)
ASSUME BudgetAssumption ==
  /\ {max_candidate_files, max_file_bytes, max_total_bytes} \subseteq Nat \ {0}
  /\ MaxWrites \in Nat

(***************************************************************************)
(* Properties.                                                             *)
(***************************************************************************)

\* Every variable has its type; in particular what is read is a regular file
\* (read_nofollow).
TypeOK ==
  /\ tree \in [Paths -> Nodes] /\ held \in [Paths -> SUBSET Nodes]
  /\ pc \in {"root", "walk", "scan", "read", "done"}
  /\ unseen \subseteq Paths /\ sources \in Seq(Paths)
  /\ next \in 1 .. Len(sources) + 1
  /\ pc = "read" => next <= Len(sources)
  /\ window \subseteq Contents
  /\ total_bytes \in Nat /\ consumed \in Nat /\ writes \in 0 .. MaxWrites
  /\ \A k \in DOMAIN corpus : corpus[k].path \in Paths
  /\ outcome.kind \in {"none", "diagnosis", "error"}

Finished == outcome.kind = "diagnosis"

\* What a path held while it was a file.
Versions(p) == {node.raw : node \in {n \in held[p] : n.kind = "file"}}

\* A diagnosis is about every source or there is none: each path that was a
\* file all along, or when the walker passed by, is in the digest, once, in
\* canonical order, and all that is in the digest is what a file held, or a
\* mixture of what it held in turn.  No limit and no race leaves a source out
\* silently, as SPEC.md section 8 has it (scan_sources_with_hook,
\* read_nofollow).
NothingIsSkipped ==
  Finished =>
    /\ \A p \in Paths :
         (\A node \in held[p] : node.kind = "file") =>
           \E k \in DOMAIN outcome.corpus : outcome.corpus[k].path = p
    /\ ToSet(sources) \subseteq {source.path : source \in ToSet(outcome.corpus)}
    /\ \A j, k \in DOMAIN outcome.corpus :
         j < k => outcome.corpus[j].path < outcome.corpus[k].path
    /\ \A k \in DOMAIN outcome.corpus :
         outcome.corpus[k].raw \in Readable(Versions(outcome.corpus[k].path))

\* The total is a bound on what is read, to one byte, however files grow
\* while they are open: unlike in a search, the first source that outgrows
\* its limit ends the diagnosis (read_nofollow).
ReadsAreBounded == consumed <= max_total_bytes + 1

(***************************************************************************)
(* What a diagnosis should find, by its corpus alone.                      *)
(***************************************************************************)

\* Where lines that count say something, in the sources of a digest.
Places(digested, Says(_)) ==
  UNION {{[path |-> source.path, line |-> k] :
            k \in {i \in DOMAIN source.raw : /\ IsText(source.raw)
                                             /\ Comment \notin source.raw[i]
                                             /\ Says(source.raw[i])}} :
         source \in ToSet(digested)}

\* The first of them in the order of paths and lines, if there are any.
Earliest(places) ==
  IF places = {} THEN NoCitation
  ELSE CHOOSE p \in places : \A q \in places :
         p.path < q.path \/ (p.path = q.path /\ p.line <= q.line)

Expected(digested) ==
  LET about(needles) == Places(digested, LAMBDA line : Names(line, needles))
      unless(needles) == IF about(needles) = {} THEN about(Retrieval) ELSE {}
  IN  FlattenSeq([k \in DOMAIN DIRECT_RULES |->
                    Finding(DIRECT_RULES[k].rule, Earliest(about(DIRECT_RULES[k].needles)))])
      \o Finding("missing_line", Earliest(Places(digested, CitesWithoutLine)))
      \o Finding("missing_freshness", Earliest(unless(Freshness)))
      \o Finding("missing_exact", Earliest(unless(Exact)))

\* The findings are those of the very bytes the digest is about, each at the
\* first place that shows it in canonical order, whatever the walker's order
\* and whatever is written meanwhile; what one source shows can take back a
\* finding about another (visit, visit_line, finish).
FindingsFollowCorpus == Finished => outcome.findings = Expected(outcome.corpus)

(***************************************************************************)
(* What a diagnosis of a tree at rest should answer.                       *)
(***************************************************************************)

Files(t) == {p \in Paths : t[p].kind = "file"}

WalkErrors(t) ==
  {error \in {"walk", "invalid_path", "candidate_files"} :
     \/ error = "walk" /\ \E p \in Paths : t[p] = Unlisted
     \/ error = "invalid_path" /\ Files(t) \cap Unnamed # {}
     \/ error = "candidate_files" /\ Cardinality(Files(t)) > max_candidate_files}

\* The bytes of the sources up to and including a path.
UpTo(t, p) ==
  FoldLeft(LAMBDA n, q : IF q \in Files(t) THEN n + Len(t[q].raw) ELSE n,
           0, [q \in 1 .. p |-> q])

Exceeding(t) ==
  {p \in Files(t) : TooLarge(Len(t[p].raw)) \/ UpTo(t, p) > max_total_bytes}

Undisturbed ==
  /\ pc = "done" /\ \A p \in Paths : held[p] = {tree[p]}
  /\ outcome \notin {Failed(e) : e \in {"root_symlink", "read"}}

\* A diagnosis of a tree at rest succeeds exactly when nothing in the tree is
\* an obstacle, and then is about the whole tree; otherwise the error is one
\* of the obstacles of the walk, or the first of those of the scan.  An
\* invalid path before anything was passed may be that of the root
\* (scan_sources_with_hook, read_nofollow).
QuietTreeIsDiagnosed ==
  Undisturbed /\ ~(unseen = Paths /\ outcome = Failed("invalid_path")) =>
    LET first == CHOOSE p \in Exceeding(tree) : \A q \in Exceeding(tree) : p <= q
    IN  IF WalkErrors(tree) # {} THEN outcome \in {Failed(e) : e \in WalkErrors(tree)}
        ELSE IF Exceeding(tree) # {}
        THEN outcome = Failed(IF TooLarge(Len(tree[first].raw)) THEN "file_bytes"
                              ELSE "total_bytes")
        ELSE /\ Finished
             /\ ToSet(outcome.corpus) = {[path |-> p, raw |-> tree[p].raw] : p \in Files(tree)}
=============================================================================
