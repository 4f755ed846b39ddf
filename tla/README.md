# Specifications of hanimo-find

hanimo-find searches a directory tree for exact literals and answers with an
*evidence bundle*: blocks of lines, each with its place in a file and digests
that let a consumer check the citation later. `verify` re-reads the cited files
and tells whether the evidence still holds. `diagnose` scans a tree for signs of
risky retrieval code. Everything runs in one thread of one process; what makes
it hard is that the file tree belongs to everybody else.

These modules model what the program decides and in which order, check it with
TLC on small instances, and prove the most important results about search,
verification, diagnosis, the parsing of queries, the opening of roots, the blocks of a
file and the digests of a bundle for every instance with TLAPS.

## Inventory

| Component | Source | State it keeps | Operations | What makes it correct |
|---|---|---|---|---|
| Raw bytes | `hanimo-core/src/bytes.rs` | none | `parse_lines`, `canonical_block`, `occurrence_count`, `is_heading` | offsets, line numbers and LF-canonical content of a block all describe the same bytes |
| Digests | `identity.rs`, `attestation.rs`, `render_support.rs` | none | `block_id`, `source_sha256`, `bundle_sha256` | equal digests exactly for equal attested content |
| Blocks and ranking | `search.rs` (lower half), `rank.rs`, `search/ranking.rs` | none | `matching_ranges`, `merge_ranges`, `build_block`, `score`, `compare_ranked` | no line cited twice or missed; a total order |
| Search | `search.rs`, `search/filesystem.rs`, `model.rs` | candidates, gaps, bytes and matches so far, ranked blocks | admission, `discover`, `read_candidate`, the scan | the result is a function of plan and tree; nothing is left out silently; the budgets hold |
| Evidence and critic | `evidence.rs` | none | `assemble_bundle`, rendering | the verdict agrees with what was found and what was not |
| Verification | `verify.rs`, `verify/*.rs` | statuses, snapshots, read allowance, attempt | admission, two passes, one retry, report | what is reported verified was true; nobody is blamed for what did not happen; it ends |
| Root capability | `root.rs`, `verify/filesystem.rs::open_root` | the directory opened last | `open`, `open_root` | no symbolic link on the guarded part of the way; errors say what was met |
| Diagnosis | `diagnose.rs`, `diagnose/*.rs` | hash, first citation per rule | `scan_sources`, `visit`, `finish` | about every source or an error; findings are about the bytes hashed; within its budget |
| Query adapter | `hanimo-find/src/search_adapter.rs` | none | `parse_query` | admits what the core admits, finds every literal |
| Command line | `commands.rs`, `cli.rs`, `main.rs` | none | `run_search`, `run_verify`, `run_diagnose`, the writing of answers | an exit code is earned |
| MCP server | `mcp.rs` | the base root | three tools, `serve_stdio` | says what the command line says |
| Evidence loop | search, bundle and verification together | one tree | search, hold, verify | an honest bundle is never refused; at rest it verifies |

Components interact by calls only. `search` opens the root, discovers, reads and
ranks; `assemble_bundle` turns its result into a bundle and seals it with a
digest. The bundle leaves the program, is kept or edited by anybody, and comes
back to `verify`, which trusts nothing but its own reading. Search and
verification share `bytes.rs` and `identity.rs`, and nothing else: that both
arrive at the same lines, offsets and identifiers is a property to check
(`FoundBlocksVerify`).

Hard behaviours: files that change, vanish, come back, or are rewritten while
they are read, during a search and during the two passes and two attempts of a
verification; limits met exactly and exceeded by one (bytes, matches,
candidates, entries, depth, the read allowance shared by four passes); the order
in which a directory lists its entries; directories renamed and links planted while
a root is opened name by name; line endings; framing of digests; two front ends
that repeat the same checks; output that fails halfway. Nothing
is persisted and nothing runs concurrently inside the program, so there are no
crashes to recover from and no locks. `PROJECT.json` lists every hazard at its line.

## Modules

```
Bytes <- Digests <- Evidence <- Blocks <- QueryPlan <- QueryParser, Search
                             <- Judge  <- Verify
FileTree <- Search, Verify, Diagnose
Verify:           instantiates AtomicVerify, which it refines
EvidenceLoop:     instantiates Search, Verify and Answers over one tree
Evidence, Search: instantiate Sorting with the orders of gaps, paths and blocks
Answers <- FrontEnds

Verify <- VerifyProofs     Diagnose <- DiagnoseProofs     RootOpen <- RootProofs
Blocks <- BlockProofs      Search, BlockProofs    <- SearchProofs
MCFormats, BlockProofs <- FormatsProofs           QueryParser, BlockProofs <- QueryProofs
BlockProofs, SearchProofs, FormatsProofs, QueryProofs, VerifyProofs: instantiate Folding
with what they fold
```

* **Bytes** - lines, ranges, canonical blocks, literals. Offsets are zero-based as
  in the code.
* **Digests** - digests by their preimage: SHA-256 is the identity, so two digests
  agree exactly when the preimages do. The eight length bytes of a frame are one
  element, a domain string and the names of reasons and verdicts are one element each.
* **Evidence** - the bundle, the critic, and the critic rule that the verifier recomputes.
* **Blocks** - from a file and a plan to blocks, in the order of `compare_ranked`.
* **Sorting** - `slice::sort_by`, by any comparison: the place of an element is the number
  of those that go no later.
* **Judge** - what a verifier decides from a bundle and the bytes of one source:
  safe locators, preflight, live status, aggregation, downgrading.
* **FileTree** - what opening and reading a path may find; the file system is external.
* **Verify** - the verifier against a changing tree (below).
* **AtomicVerify** - what a verified report promises: one look at the whole tree.
* **Search** - one search against a changing tree (below).
* **QueryPlan** - the limits of a query, shared by the parser and the search.
* **QueryParser** - `parse_query`: characters to phrases and loose text, loose text to
  tokens, tokens to identifiers and terms.
* **RootOpen** - a root path opened name by name against a changing tree (below).
* **Diagnose** - one diagnosis against a changing tree (below).
* **Answers**, **FrontEnds** - from what the core answers to exit codes and replies, and
  one request given to both front ends (below).
* **EvidenceLoop** - search, hold, verify over one tree (below).
* **SearchProofs**, **VerifyProofs**, **DiagnoseProofs**, **RootProofs**, **QueryProofs** -
  theorems about the machines. **FormatsProofs** - theorems about the blocks of one file and
  about digests, and about the machine of MCFormats. **BlockProofs** - lemmas about the
  operators of Bytes and Blocks, about lists of the elements of a set, and about sorting by any
  relation. **Folding** - folds over sequences, for any operator.
* **MC...** - instances. `MCFormats` is a small machine of its own that enumerates
  inputs of the parts without state: all sources byte by byte, all short sequences of
  edits of two bundles.

Definitions called *Mutant* in their comment are what a plausible bug would make of
the definition that follows; nothing uses them. Each property fails under at least
one of them.

### Verify

| State | Code |
|---|---|
| `pc`, `pass`, `next` | where `verify_with_reader` and `live::attempt` are; which loop and which iteration |
| `attempt` | first or second call of `live::attempt` |
| `blocks`, `snapshots`, `raced` | the locals of `live::attempt` |
| `remaining` | `SourceReader::remaining` |
| `window` | the versions the open file had since it was opened |
| `outcome` | `Result<VerificationReport, VerifyError>` |
| `tree`, `writes`, `held`, `passHeld`, `turn` | the tree, and its history |

`RootOpenFails` .. `StartLive` are the checks of `verify_with_reader` in their
order; they read nothing that can change and are one step each. `MissSource`,
`RefuseSource`, `OpenSource` are the outcomes of opening in `read_nofollow`;
`ReadSource`, `ReadTooLarge`, `ReadTooMuch` the outcomes of reading and charging;
`BeginRecheck` the turn from the first loop of `live::attempt` to the second;
`Conclude`, `Retry`, `GiveUp` what `verify_with_reader` makes of an attempt.
`ReadFault` is any other I/O error. `Write` is another program: it may change any
path between any two steps, by replacement (an open file keeps its bytes) or in
place (an open file may yield a prefix of one version and the rest of another).

### Search

| State | Code |
|---|---|
| `unseen` | what the walker has still to look at; it chooses the order |
| `entries`, `candidates`, `skipped` | locals of `discover`; then of `search` |
| `next`, `totalBytes`, `totalMatches`, `ranked` | locals of `search` |
| `window` | as in Verify |
| `scanned`, `consumed`, `held` | history: paths whose blocks count, bytes really read, the tree |

One action per entry of the walk (`WalkEntry`, `WalkOverflows`, `WalkFails`,
`WalkPast`), `WalkEnds` for sorting and cutting, then per candidate opening and
reading. Reading and accepting a candidate are one step: nothing outside is looked
at between the last byte and `ranked.extend`.

Abstractions: which names `is_secret_like` is the constant `SecretPaths`; hidden
and ignored paths never get to the program and are no paths of the model; the
walker lists by absolute path while files open below the directory opened before,
so a replaced root shows as writes to its paths between walk and read.

### RootOpen

`root::open` of the core opens an absolute path from its anchor, a relative one from
the current directory, every name of the supplied path without following links;
`open_root` of the verifier opens the parent as an ambient path and the last name
without following. Both are one machine: `todo` is the list of names still to open,
each with or without following, `at` the directory held open. `StartAtAnchor`,
`AskCurrentDir`, `Canonicalize` make the list, `EnterDirectory` takes one name,
`OpenFails` and `AskWhy` are the two looks of `open_component` at a name that does not
open. `Change` is another program: it may make any name a directory, a link or
something else between any two steps, as long as directories stay a tree. `trail`,
`held`, `changes` are history. Names that follow links are opened one by one as well,
as the operating system does inside one call.

### QueryParser

One action per branch of the loops of `parse_query`: `CheckBytes`, then one character
a step (`OpenQuote`, `EmptyPhrase`, `CloseQuote`, `TakeCharacter`, `CharactersEnd`),
then one token a step (`SkipToken`, `TakeToken`, `TokensEnd`). `split_whitespace` and
`trim_matches` are operators; a character is a number and becomes one or two bytes.

### Diagnose

| State | Code |
|---|---|
| `unseen`, `sources` | the walk of `scan_sources_with_hook`, then its sorted list |
| `next`, `window`, `total_bytes` | as in Search |
| `corpus` | what the hash of `scanner.rs` was fed: paths and bytes |
| `scan` | `ScanState`: the first citation of each rule and the two flags |
| `outcome` | the diagnosis, or the error and nothing else |

A path is its place in byte order, a line the set of needles in it. `DIRECT_RULES` and
the three rules that depend on what is missing have the code's structure with one or two
needles each; two lines may show several rules, and one needle belongs to two rules.
Sorting is stated by its result (`WalkEnds`), which is what a proof can use.

### Answers and FrontEnds

A request is what the checks of `commands.rs` and `mcp.rs` tell apart. `Run` and `Reply`
keep the order of the checks in each. FrontEnds adds what may fail afterwards: an answer
written in part (`WriteFails`), an error nobody can be told (`ReportFails`), a server
that does not start or whose transport breaks (`ServerCannotStart`, `ServerStops`).

### EvidenceLoop

Search and Verify are instantiated with one `tree`, `writes` and `held`. `HandOver` puts
the bundle that `assemble_bundle` makes of the search's result in the verifier's
`bundle`, unchanged; others may write during each phase and while the bundle is held.

## Runs

Times are for two workers.

| Run | States | Question |
|---|---|---|
| `verify` | 949k, 70 s | 22 bundles (honest, edited, edited and sealed again, over a limit, unsafe locator, other schema, four and five blocks of one file) on every tree of two paths. `TypeOK`, `StatusesAreWitnessed`, `QuietTreeIsJudgedExactly`, `VerifiedIsAttested`. One write anywhere; two for bundles of two blocks. The allowance of 40 bytes is met exactly by one bundle and exceeded by others. |
| `verify_snapshot` | 460k, 20 s | Two files, three writes, no content comes back. `VerifiedIsSnapshot`, and `ImplementsAtomic`: Verify refines AtomicVerify. |
| `verify_ends` | 170k, 45 s | Writes without end. `Termination`. |
| `formats` | 75k, 40 s | All sources of up to 6 bytes over {match, LF, CR, `#`, space}, up to 8 without the last two, one line of context; every block one line or byte away from a true one; two bundles edited apart by up to three edits. `RangesAreMaximalRuns`, `FoundBlocksVerify`, `RankingIsTotal`, `VerifiedBlocksShow`, `DigestBindsPayload`, `IdentifierBindsBlock`. |
| `search` | 600k, 65 s | Every tree of six paths (three in one branch, one secret) at rest, every order of the walk; and two files, two writes, seven plans. `TypeOK`, `DeterminedByTree`, `AcceptedOmitsNothing`, `BestOfOneReading`, `WorkIsBounded`. |
| `search_order` | violation | `WalkOrderNeverShows`: see Findings. |
| `root_open` | 373k, 65 s | Four directories with one name each, every current directory, eight root paths, both openers, two changes. `TypeOK`, `QuietRootIsJudgedExactly`, `ReachedWithoutLinks`, `ErrorsAreWitnessed`. |
| `root_open_links` | violation | `IntermediateLinksFail`: see Findings. |
| `query_parser` | 282k, 20 s | Every query of up to six characters of six kinds. `CoreAdmitsThePlan`, `ParsedExactly`. |
| `diagnose` | 2.3M, 115 s | Four paths at rest, one without a UTF-8 name; three raced paths with two writes of what meets the budgets, or one of what meets the rules. `TypeOK`, `QuietTreeIsDiagnosed`, `NothingIsSkipped`, `ReadsAreBounded`, `FindingsFollowCorpus`. |
| `front_ends` | 38k, 3 s | Every request, every failing write, every break of the transport. `ExitCodesAreEarned`, `FrontEndsAgree`. |
| `evidence_loop` | 284k, 25 s | Two files, two blocks in one of them, two plans, two writes anywhere. `HonestBundleIsNeverRefused`, `LoopClosesAtRest`. |

Why the bounds are enough. A wrong *verified* needs at most a bundle of two blocks
(one judged before, one after a write) and, to fool both passes, one write before
and one after the turn; a third write reaches the second attempt with a race left
for it. The three contents differ in their digest and in their blocks, and no
splice of two of them reads as a third that is cited. For ranges, six bytes hold
three lines with a heading above two matches, so that ranges touch, overlap and
nest; eight bytes without headings hold every mixture of the two line endings. For
search, limits are 4 bytes per file, 5 bytes and 3 matches in total, 2 candidates, 4
entries, depth 2, and the contents have 2, 3 and 5 bytes with 1, 3 and 5 matches:
each limit is met exactly and exceeded by one, and a rewritten file ranks otherwise
than it did; one plan allows more matches, so
that bytes run out first. For a root, two names and two changes let a link be planted
and taken away on either side of the name being opened; three directories besides the
anchor are enough to be led to another one and back. For diagnosis, three sources are
the limit and the fourth exceeds it, contents of 1, 2, 3 and 4 lines meet and exceed
3 a file and 5 in total. In the loop the files have the largest size allowed and the
allowance is exactly what two attempts over two blocks can take.

*Scope.* Four runs ask two kinds of question of one machine, about trees at rest and
about races, and the product of the largest of both is needless. The CONSTRAINT
`Scope` of MCVerify, MCSearch, MCRootOpen and MCDiagnose keeps the two: many paths,
bundles or roots without writes, and few of them with all writes. It cuts behaviours
off, it does not change any; `root_open` is also reduced by the symmetry of the
directories other than the anchor. Nothing else is a bound but the CONSTANTS
`MaxWrites`, `MaxChanges`, `MaxBytes`, `MaxPlain`, `MaxEdits`, `MaxCharacters`.

The inputs of `formats` end at their bound and it does not check for deadlock.
Everywhere else the end of the program is an explicit stuttering step `Done`, and
deadlock is checked.

*Fairness.* Only `verify_ends` needs it: weak fairness of the verifier's steps
together. The code is straight-line and blocks on nothing but file I/O, which is
taken to return. Nothing is assumed of writers. The other machines run through finite
lists once and have no retry: that they end is not worth a run.

*What StatusesAreWitnessed leaves open.* A block downgraded after two raced attempts is
reported as drifted because the tree changed, not because its file did; `Witnessed`
accepts a change during the attempt for it. For a drift that was read, the proof gives
more: `Reason` names a version of the file, held in the first pass, that differs.

## Theorems

| Theorem | Statement |
|---|---|
| `VerifyProofs!TypeCorrect` | `Spec => []TypeOK` |
| `VerifyProofs!VerifiedAttested` | `Spec => []VerifiedIsAttested` |
| `VerifyProofs!StatusesWitnessed` | `Spec => []StatusesAreWitnessed` |
| `VerifyProofs!QuietJudgedExactly` | `Spec => []QuietTreeIsJudgedExactly` |
| `VerifyProofs!VerifiedSnapshot` | `FreshSpec => []VerifiedIsSnapshot` |
| `VerifyProofs!VerifyImplementsAtomic` | `FreshSpec => ImplementsAtomic` |
| `SearchProofs!TypeCorrect` | `Spec => []TypeOK` |
| `SearchProofs!WorkBounded` | `Spec => []WorkIsBounded` |
| `SearchProofs!OmitsNothing` | `Spec => []AcceptedOmitsNothing` |
| `SearchProofs!ResultIsOneReading` | `Spec => []BestOfOneReading` |
| `SearchProofs!SearchDeterminedByTree` | `Spec => []DeterminedByTree` |
| `FormatsProofs!CitedRangesAreMaximalRuns` | `Spec => []RangesAreMaximalRuns` |
| `FormatsProofs!FoundBlocksAreVerified` | `Spec => []FoundBlocksVerify` |
| `FormatsProofs!BlocksAreRanked` | `Spec => []RankingIsTotal` |
| `FormatsProofs!VerifiedBlocksAreShown` | `Spec => []VerifiedBlocksShow` |
| `FormatsProofs!DigestsBindPayloads` | `Spec => []DigestBindsPayload` |
| `FormatsProofs!IdentifiersBindBlocks` | `Spec => []IdentifierBindsBlock` |
| `FormatsProofs!RangesAreRuns`, `BuiltBlocksVerify`, `BlocksRankTotally` | the same for every plan, path and byte string |
| `FormatsProofs!VerifiedIsShown` | the same for every byte string and every claimed block |
| `FormatsProofs!DigestsBind`, `IdentifiersBind` | the same for every two bundles, and every two blocks |
| `DiagnoseProofs!DiagnoseTypeCorrect` | `Spec => []TypeOK` |
| `DiagnoseProofs!DiagnoseReadsAreBounded` | `Spec => []ReadsAreBounded` |
| `DiagnoseProofs!DiagnoseSkipsNothing` | `Spec => []NothingIsSkipped` |
| `DiagnoseProofs!DiagnoseFindingsFollowCorpus` | `Spec => []FindingsFollowCorpus` |
| `DiagnoseProofs!DiagnoseQuietTree` | `Spec => []QuietTreeIsDiagnosed` |
| `QueryProofs!QueryPlansAreAdmitted` | `Spec => []CoreAdmitsThePlan` |
| `QueryProofs!QueriesParsedExactly` | `Spec => []ParsedExactly` |
| `RootProofs!RootTypeCorrect` | `Spec => []TypeOK` |
| `RootProofs!RootReachedWithoutLinks` | `Spec => []ReachedWithoutLinks` |
| `RootProofs!RootErrorsAreWitnessed` | `Spec => []ErrorsAreWitnessed` |
| `RootProofs!RootQuietIsJudgedExactly` | `Spec => []QuietRootIsJudgedExactly` |
| `BlockProofs!BytesOrdered` | the order of byte strings is total |
| `BlockProofs!SortedPermutes` | a stable sort permutes, in order |
| `BlockProofs!SortedIsRanked` | where no two elements compare equal, the sorted sequence depends on the set of elements only |
| `Folding!FoldKeeps`, `FoldReaches` | what each step keeps, the fold keeps; what holds after k steps follows from what holds after k - 1 |

*Types of the verifier.* `TypeInv` is `TypeOK` with two facts it needs: a live
verification has an admissible bundle, so that the locators are paths of the tree,
and the statuses collected are as many as the blocks read.

*Attestation.* `VerifiedIsAttested` speaks of the end; `AttestInv` says what is
known at each step. `CurrentHeld`: what the tree holds now is part of the history
of the current pass. `WindowHeld`: what an open file may yield is part of it too.
`Collected`: each verified status was earned by a file of the first pass, which is
also a snapshot. `Rechecked`: as long as nothing raced, each snapshot compared so
far was a file of the second pass. At `Conclude` all snapshots were compared, and
the two meet in one content because digests are injective.

*Witnesses.* `WitnessInv` adds to `AttestInv` why each status was collected
(`Explained`), that each snapshot was read from what its path held in the first pass
(`AllTaken`), that the history of a pass is part of the whole history (`Nested`), and
that a race was seen only if the tree changed during the attempt (`RaceSeen`): a
snapshot that no longer compares equal was read from one version, and either another is
there now, or the reading was a mixture of two.

*A tree at rest.* `QuietInv` says, for as long as nothing has changed, that the statuses
collected are those of the files, that no source so far was to be refused, and that the
allowance left is the limit minus the sizes of what was read (`Counted`). The sums are
those of the property's own definition; `TotalAdds` and `TotalsGrow` give what one more
source adds to them.

*Snapshot.* Under `FreshSpec` a path that held a content in both passes held it at
the turn: `TurnInv` says that what was seen in the second pass is either what the
turn saw or new to the path, and what is new cannot be what the first pass saw.
The refinement maps `seen` to `turn`: `BeginRecheck` is `Observe`, `Write` is
`Write`, the steps that end in an outcome are `Answer`, the rest stutter.

*Search.* `IInv` says what is left out and what is spent at each step. `Unscanned`: nothing
is read before the walk is over. `Walked`: candidates and gaps together are at most the
entries seen, and what the walker passed and was a file throughout is one of them.
`FoundAll`: sorting and cutting the candidates lost none without a budget gap, and each
candidate the scan is past was scanned or has a gap. `Spent`: the bytes really read are
the bytes counted and at most one file limit and a byte for each file that outgrew it,
of which there are as many as `oversized` gaps. `Reported`: a result is made of exactly
what was ranked and skipped. `WalkEnds` and the result sort; that no path, gap or block
is lost there is `SortedPermutes`, once for each of the three orders.

*A search while others write.* `DeterminedByTree` is about trees at rest and compares with a
`Result` of its own; `BestOfOneReading` says of every search what its blocks are, by a
definition that neither sorts nor cuts. Its invariant is `ReadOnce`: the walker lists a
path once, and sorting and cutting the candidates repeats none, so that the scan comes to
each once; what the open file may yield, its path held; and there is one reading of each
scanned file whose blocks together are what was ranked. Without the first the reading of
a file could be replaced by a second one. The result is then the best of them because
sorting permutes (`SortedPermutes`, for `BlocksOrdered`).

*A search of a tree at rest.* `SearchProofs!QuietInv` says what is known while nobody has
written. The walk's lists hold each candidate and each gap of the entries seen once, and
nothing else; what was seen is not ordered, so that the order of the walk must vanish:
`WalkEnds` sorts, and `SortedIsRanked` says that the sorted list is a function of the set.
From there the scan has no choice: the bytes and matches so far are the sums over the
prefix passed, the gaps are those of the walk and of the prefix, the blocks those of the
prefix. At the end the sums, gaps and blocks are the property's own. A write leaves all
of it behind, for good (`Still`).

*Sorting and folding.* `BlockProofs` shows for any relation that is a strict weak order on the
elements (`StrictWeakOrder`) that the places `Sorting` gives are a permutation, and that the
orders of the code are such relations, the order of byte strings by the first
position where two strings differ. `Folding`, a module with the step as a constant, shows that `FoldLeft` of the library is
well defined and is the last of a sequence of values, each a step from the one before
(`FoldHasTrace`); every module that folds instantiates it with its own step, and so has
induction over that fold. `FoldReaches` is that induction with an invariant for each
position; `Climb` is the same without a fold, for a set of numbers.

*Ranges.* One step of merging keeps two facts: the ranges so far are `Apart`, and they
cover the lines of the ranges given so far (`MergeCovers`), provided those come with
ascending starts, which ranges around ascending matches do (`RangesAscend`). Ranges that
are apart are the longest runs of what they cover (`ApartAreRuns`), and a range around a
match covers the lines wanted for it (`RangeIsWanted`).

*Blocks.* `LinesFollow`: the offsets of a block lie in its file and its lines are
consecutive lines of it, so that `LiveStatus` builds the same content and identifier;
the components of a score add up to at most 865, far from the end of `u16`
(`ComponentsFit`, `ScoresFit`), so that preflight agrees. Two blocks of one file start at
different lines because ranges are apart, and blocks of two files differ in their path,
so that `RankedBefore` tells any two apart.

*What a block shows.* A block reads as verified if it agrees with what `parse_lines` and
`canonical_block` make of the bytes; `Shows` is what a reader sees who knows of neither.
The lines lie end to end and each ends with its line feed or with the file (`EndsLie`,
`LinesLie`), so that before line k there are k - 1 line feeds (`LinesCounted`, by `Climb`).
The content the reader sees is read from the positions that are kept: all but a carriage
return before a line feed. The positions kept of one more line are those kept so far, the
line feed between, and those of the line (`LinesGrow`), which is the step of the fold in
`canonical_block` (`FoldReaches`). Two listings of one set of positions in order are the
same (`ListedOnce`), so both contents are.

*Digests.* A set of byte sequences is a code if none of them begins another (`IsCode`).
Frames are a code (`FramesAreCode`); what is made of two codes is a code (`CodesConcat`); a
list of elements of a code tells where it ends if its length is known (`ListsTell`), and
the length is a number in a frame (`NumbersAreCode`). From these follow strings, scores,
blocks, gaps and the critic one by one, and a bundle is taken apart from its front.
`Decimal` is a recursive function: that the recursion has a solution is shown first
(`DecimalDefined`), then that different numbers have different digits (`DecimalTells`).
The machine of MCFormats keeps both bundles in `BundleType` whatever is edited
(`BundlesType`).

*Diagnosis.* `ReadsAreBounded` alone is not inductive: it must be known how the
bytes read relate to the bytes counted. `Metered` says that up to the last read the
two are the same number, so that a read of at most the remaining total and one byte
ends the diagnosis or stays within the total. `SkipInv` carries `NothingIsSkipped`
through the run: what the walker passed and stayed a file is listed (`Listed`), the
corpus follows the sorted sources (`Follows`), and holds what their paths held
(`Recorded`, and `Opened` for a file being read). `FindInv` is about findings: the scan so
far cites for each rule the first of the places that the corpus so far shows, and its two
flags say whether it shows any. One source adds its lines one by one; that this is so for
all of them is `FoldReaches` over the lines. `DiagnoseProofs!QuietInv` is about a tree at
rest: the walk has counted the sources it passed and met no obstacle yet, the scan has
read whole files whose sizes add up to what it counted, and no source passed was too large or
exceeded the total.

*Queries.* The parser keeps no count of bytes; the core counts those of the literals.
`ReadingInv` compares them while characters are read: loose text, open phrase and phrases
taken are together no longer than the text read. `SplittingInv` goes on with tokens: identifiers
and terms taken are no longer than the words passed. Between the two lies a fact about `Words`:
the words are slices of the text, each begins behind the end of the one before
(`WordsApart`, `WordsAreSlices`), and so they have no more bytes than the text (`WordsFit`).
It rests on there being one ascending listing of a set of numbers: the one that
`Ascending` chooses. A trimmed word is a part of the word (`TrimmedFits`).

*What a query says.* `ParsedExactly` compares the machine with a definition over the whole
text, which lists positions in order: the quotes, and where the longest stretches begin. A
list in order is split by a mark into the elements before it and the rest (`Marked`), and a
step that moves the mark by one takes the next element or none (`MarkSteps`, `MarkMoves`).
`HeardInv` says so of the quotes passed and the phrases taken, `LooseInv` of the characters
outside of quotes (`Bare`, an opening quote read as a blank among them) and the loose text.
Once the characters are read the loose text is those characters, in order, and neighbours in
a word of it are neighbours in the query (`NextBare`, `SideBySide`). So the longest stretches
are the words, each from its first kept character to its last (`LongestAre`), which is what
is left of a word trimmed (`TrimmedWord`). `TokenInv` marks the words passed, and with them
the stretches (`WordMark`) and those among them that are identifiers or terms (`Listed`).

*Roots.* `ReachedWithoutLinks` is about the end; `RootInv` says how the way is split
at each step. `Ahead`: the last names to open, as many as there are guarded ones, are
opened without following links. `Behind`: the directories opened by the guarded names
passed so far are a chain of directories, each held by the one before under that name.
`Anchored`: for an absolute path of the core the chain starts at the anchor.
A step of `EnterDirectory` moves one name from `Ahead` to `Behind`; a `Change` only
adds to what was held. When a name does not open, what `AskWhy` sees lies at the end
of that chain, which is what `ErrorsAreWitnessed` asks. `JudgeInv` is about a tree at rest:
`Standing` says that the names still to open are the rest of the whole path, that none of
those opened was a parent reference, and that the directory reached is where they lead:
`Followed` with links, and for the core `Real` without. At the first name that does not
open, so the machine stops and so does the reading of the property (`VerdictStuck`).

*Assumptions*, all of which TLC evaluates on the instances.

- Verify: `ContentsAssumption`, `LimitAssumption`, `BundlesAssumption` are types.
  `LocatorsAssumption`: a safe locator of a bundle is one of `Paths` (one outside
  would be one more path that never exists). `SpliceAssumption`: a mixture of several
  versions of a file never happens to be a source that a bundle cites. Without it a
  torn read could be verified with bytes the file never held at once, which no reader
  can exclude. `FreshSpec` is the other such limit: a file that changes and changes
  back between the passes cannot be told from one that never changed. The code
  promises neither; the theorems say what it achieves when neither happens.
- Search: `LimitsAssumption`, `ContentsAssumption`, `PlansAssumption` are types (the
  budgets are numbers from one on, as in the code).
  `PathsAssumption`: paths are byte strings, finitely many, and the walker goes no deeper
  than its `max_depth` allows.
- MCFormats: `ContextLinesAssumption`, a type.
- QueryPlan, QueryParser: `QueryLimitsAssumption`, `QueriesAssumption`, types: limits are
  numbers, a text is a sequence of numbers, of which each is one or two bytes.
- Diagnose: `PathsAssumption` (paths are numbered in byte order, finitely many),
  `ContentsAssumption`, `BudgetAssumption` (budgets are `NonZeroUsize`).
- RootOpen: `RootsAssumption` (what `Path::components` may give: a dot in front only;
  a name that does not open leads to none of the directories, of which there are finitely many).
- EvidenceLoop: the limits of `policy.rs` grant what the defaults of a search allow. No
  theorem rests on this one.

Only model-checked:

- `ExitCodesAreEarned`, `FrontEndsAgree`: FrontEnds has no constants and finitely many
  states, and TLC visits all of them. There is no larger instance to prove anything about.
- `HonestBundleIsNeverRefused`, `LoopClosesAtRest`: the two machines composed; their
  invariants would have to be carried over into one state.
- `Termination`: liveness is out of the prover's reach.

## Findings

* `search_order`: SPEC.md:150 wants no influence of filesystem order. In a tree with
  a directory that cannot be listed *and* too many entries, the order of the walk
  decides between an error and a result with a gap. `DeterminedByTree` states what holds.
* `root_open_links`: SPEC.md:231-238 has every directory component of a target opened
  without following symbolic links, for all three tools. Verification follows links up
  to the last name (`verify/filesystem.rs:32`): its target may be reached through a
  link that a search refuses. `ReachedWithoutLinks` states what holds for each.

Smaller disagreements met on the way, with the model on the side of the code:

- The comment on `VerificationStatus::Stale` (`verify.rs:30`) speaks of any path that
  does not open without following links; the code (`verify/live.rs:36-40`) and
  SPEC.md:196 of missing files only.
- `max_total_bytes` (`model.rs:71`) is not the maximum of bytes read by one search: a
  file that outgrows its limit while it is read costs a limit and a byte, uncounted.
  `WorkIsBounded` states what holds.
- SPEC.md:196 has stale mean a missing source. A bundle without blocks is stale as well
  (`verify.rs:210`) and exits with 4 (`commands.rs:128-130`), though nothing is missing.

## Not modelled

* Parsing of arguments (clap, exit 2), JSON, Markdown and base64 text: formatting; a
  byte field is text, base64 or malformed, and only the decoded bytes matter. Hence
  neither the limit on the size of a bundle's JSON as a number, nor errors of the
  serialiser.
* The ignore rules and hidden names of the walker, the transport and the protocol of
  MCP: libraries, modelled by what the program sees of them.
* Windows prefixes and paths, `usize` overflow of counters of bytes in memory.
* The way to a source: its directories are opened one by one without following links
  (`verify/filesystem.rs:59`, `search/filesystem.rs:137`, `diagnose/filesystem.rs:118`),
  which Verify, Search and Diagnose take for one look at the path together with the
  opening of the file. What can happen between two names is modelled for the root, in
  RootOpen; there the resolution of the current directory (`root.rs:58`) is one step.
* Text of errors, logging, release tooling, benchmarks.

## What is left

The theorems stop where two machines meet: `HonestBundleIsNeverRefused` and
`LoopClosesAtRest` need what SearchProofs says of a result handed to what VerifyProofs says
of a bundle, in one inductive invariant of EvidenceLoop.
