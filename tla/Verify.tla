------------------------------- MODULE Verify -------------------------------
(***************************************************************************)
(* Live verification of an evidence bundle against a file tree that other  *)
(* programs keep changing: verify.rs, verify/live.rs, verify/policy.rs and *)
(* verify/filesystem.rs.                                                   *)
(*                                                                         *)
(* One process, the verifier, runs the code's steps in the code's order.   *)
(* Opening a source and reading it are two steps, and Write, a step of the *)
(* environment, may come between any two.  An open file that is rewritten  *)
(* in place may yield the old bytes, the new ones, or a prefix of one      *)
(* version followed by the rest of another.                                *)
(*                                                                         *)
(* held, passHeld and turn are history variables: no action reads them     *)
(* except the freshness restriction of FreshSpec.                          *)
(***************************************************************************)
EXTENDS Judge, FileTree

CONSTANTS
  Paths,                    \* root-relative paths of the tree, byte strings
  Contents,                 \* contents a file of the tree may have
  Bundles,                  \* bundles handed to verify
  MAX_BLOCKS, MAX_SKIPPED, MAX_LIST_ITEMS, MAX_CONTEXT_LINES,
  MAX_FILE_BYTES, MAX_TOTAL_BYTES, MAX_MATCHES,
  MAX_VERIFY_SOURCE_BYTES,  \* bytes one verification may read
  MaxWrites                 \* bound on Write; negative for no bound

VARIABLES
  tree,       \* what each path holds
  bundle,     \* the bundle under verification
  pc,         \* root -> admit -> open <-> read -> done
  attempt,    \* 1, and 2 for the only retry
  pass,       \* 1 collects a status per block, 2 reads every source again
  next,       \* index of the next block, or of the next snapshot
  window,     \* versions of the open file that its handle may still yield
  blocks,     \* statuses collected by this attempt, in bundle order
  snapshots,  \* path and digest of every source this attempt could read
  raced,      \* whether the second pass saw a source differ
  remaining,  \* bytes left of the read allowance
  outcome,    \* the report or the error
  writes,     \* number of writes so far, when they are bounded
  held,       \* every node a path ever held
  passHeld,   \* the same, within each pass of the current attempt
  turn        \* the tree when the second pass of the attempt began

verifier == <<pc, attempt, pass, next, blocks, snapshots, raced, remaining,
              outcome>>
environment == <<tree, writes, held>>
history == <<passHeld, turn>>
vars == <<bundle, verifier, environment, history, window>>

Nodes == {File(raw) : raw \in Contents} \cup {Missing, Denied}

(***************************************************************************)
(* Admission: what verify decides before it reads any source.              *)
(***************************************************************************)

SupportedSchema(b) == b.schema_version = SchemaVersion

WithinLimits(b) ==
  /\ Len(b.blocks) <= MAX_BLOCKS
  /\ Len(b.skipped) <= MAX_SKIPPED
  /\ Len(b.critic.covered_quoted_phrases) <= MAX_LIST_ITEMS
  /\ Len(b.critic.covered_identifiers) <= MAX_LIST_ITEMS
  /\ Len(b.critic.uncovered) <= MAX_LIST_ITEMS
  /\ \A block \in ToSet(b.blocks) : /\ Len(block.matched_terms) <= MAX_LIST_ITEMS
                                    /\ Len(block.why) <= MAX_LIST_ITEMS
  /\ b.budget.max_blocks <= MAX_BLOCKS
  /\ b.budget.context_lines <= MAX_CONTEXT_LINES
  /\ b.budget.max_file_bytes <= MAX_FILE_BYTES
  /\ b.budget.max_total_bytes <= MAX_TOTAL_BYTES
  /\ b.budget.max_matches <= MAX_MATCHES

(***************************************************************************)
(* The verifier.                                                           *)
(***************************************************************************)

Init ==
  /\ tree \in [Paths -> Nodes]
  /\ bundle \in Bundles
  /\ pc = "root"
  /\ attempt = 1 /\ pass = 1 /\ next = 1
  /\ window = {} /\ blocks = <<>> /\ snapshots = <<>> /\ raced = FALSE
  /\ remaining = MAX_VERIFY_SOURCE_BYTES
  /\ outcome = NoOutcome
  /\ writes = 0
  /\ held = [p \in Paths |-> {tree[p]}]
  /\ passHeld = <<[p \in Paths |-> {}], [p \in Paths |-> {}]>>
  /\ turn = tree

\* Every step below leaves the tree and what is being verified alone.
Control == UNCHANGED <<bundle, environment>>

Stop(result) ==
  /\ pc' = "done" /\ outcome' = result
  /\ UNCHANGED <<attempt, pass, next, window, blocks, snapshots, raced,
                 remaining, history>>
  /\ Control

\* The root may fail to open whatever the tree under it holds.
RootOpenFails == pc = "root" /\ Stop(Failed("root_open"))

OpenRoot ==
  /\ pc = "root" /\ pc' = "admit"
  /\ UNCHANGED <<attempt, pass, next, window, blocks, snapshots, raced,
                 remaining, outcome, history>>
  /\ Control

RejectSchema ==
  /\ pc = "admit" /\ ~SupportedSchema(bundle)
  /\ Stop(Failed("unsupported_schema"))

RejectLimits ==
  /\ pc = "admit" /\ SupportedSchema(bundle)
  /\ ~WithinLimits(bundle)
  /\ Stop(Failed("invalid_bundle"))

\* The digest or the critic verdict does not fit the payload.
RejectPayload ==
  /\ pc = "admit" /\ SupportedSchema(bundle) /\ WithinLimits(bundle)
  /\ ~(IsSealed(bundle) /\ critic_is_consistent(bundle))
  /\ Stop(ForgedReport(bundle))

Authentic(b) ==
  /\ SupportedSchema(b) /\ WithinLimits(b)
  /\ IsSealed(b) /\ critic_is_consistent(b)

RejectLocator ==
  /\ pc = "admit" /\ Authentic(bundle)
  /\ HasUnsafeLocator(bundle)
  /\ Stop(Failed("unsafe_path"))

RejectBlocks ==
  /\ pc = "admit" /\ Authentic(bundle) /\ ~HasUnsafeLocator(bundle)
  /\ Has(Preflight(bundle), "forged")
  /\ Stop(Report(Preflight(bundle), 1))

Admissible(b) ==
  /\ Authentic(b) /\ ~HasUnsafeLocator(b)
  /\ ~Has(Preflight(b), "forged")

\* The history of the first pass of an attempt starts with the tree as it is.
NewPass == passHeld' = <<[p \in Paths |-> {tree[p]}], [p \in Paths |-> {}]>>

StartLive ==
  /\ pc = "admit" /\ Admissible(bundle)
  /\ pc' = "open"
  /\ NewPass
  /\ UNCHANGED <<attempt, pass, next, window, blocks, snapshots, raced,
                 remaining, outcome, turn>>
  /\ Control

(***************************************************************************)
(* Reading the sources of a pass, one after the other.                     *)
(***************************************************************************)

Sources == IF pass = 1 THEN Len(bundle.blocks) ELSE Len(snapshots)
Target  == IF pass = 1 THEN bundle.blocks[next].path.bytes
           ELSE snapshots[next].path

Fits(raw) == Len(raw) <= bundle.budget.max_file_bytes

\* Mutant: a source that is gone at the second pass is no race.
MissSourceForgiven ==
  /\ pc = "open" /\ next <= Sources
  /\ tree[Target] = Missing
  /\ next' = next + 1
  /\ blocks' = IF pass = 1 THEN Append(blocks, "stale") ELSE blocks
  /\ UNCHANGED <<pc, attempt, pass, window, snapshots, raced, remaining, outcome,
                 history>>
  /\ Control

\* A path that does not exist is stale to the first pass, a race to the second.
MissSource ==
  /\ pc = "open" /\ next <= Sources
  /\ tree[Target] = Missing
  /\ next' = next + 1
  /\ blocks' = IF pass = 1 THEN Append(blocks, "stale") ELSE blocks
  /\ raced' = (raced \/ pass = 2)
  /\ UNCHANGED <<pc, attempt, pass, window, snapshots, remaining, outcome, history>>
  /\ Control

RefuseSource ==
  /\ pc = "open" /\ next <= Sources
  /\ \/ tree[Target].kind = "denied"
     \/ tree[Target].kind = "file" /\ ~Fits(tree[Target].raw)
  /\ Stop(Failed("source_policy"))

\* The directories on the way are opened one by one without following links;
\* here that and the opening of the file are one look at the path.
OpenSource ==
  /\ pc = "open" /\ next <= Sources
  /\ tree[Target].kind = "file" /\ Fits(tree[Target].raw)
  /\ pc' = "read" /\ window' = {tree[Target].raw}
  /\ UNCHANGED <<attempt, pass, next, blocks, snapshots, raced, remaining,
                 outcome, history>>
  /\ Control

Collect(raw) ==
  /\ blocks' = Append(blocks, LiveStatus(bundle.blocks[next], raw))
  /\ snapshots' = Append(snapshots, [path   |-> Target,
                                     digest |-> source_sha256(raw)])
  /\ UNCHANGED raced

\* Mutant: only the last source compared decides.
CompareLast(raw) ==
  /\ raced' = (source_sha256(raw) # snapshots[next].digest)
  /\ UNCHANGED <<blocks, snapshots>>

Compare(raw) ==
  /\ raced' = (raced \/ source_sha256(raw) # snapshots[next].digest)
  /\ UNCHANGED <<blocks, snapshots>>

\* Mutant: the allowance is charged and never checked.
ReadSourceUnmetered ==
  /\ pc = "read"
  /\ \E raw \in Readable(window) :
       /\ Fits(raw)
       /\ remaining' = remaining - Len(raw)
       /\ IF pass = 1 THEN Collect(raw) ELSE Compare(raw)
  /\ pc' = "open" /\ next' = next + 1 /\ window' = {}
  /\ UNCHANGED <<attempt, pass, outcome, history>>
  /\ Control

ReadSource ==
  /\ pc = "read"
  /\ \E raw \in Readable(window) :
       /\ Fits(raw) /\ Len(raw) <= remaining
       /\ remaining' = remaining - Len(raw)
       /\ IF pass = 1 THEN Collect(raw) ELSE Compare(raw)
  /\ pc' = "open" /\ next' = next + 1 /\ window' = {}
  /\ UNCHANGED <<attempt, pass, outcome, history>>
  /\ Control

\* The file outgrew the limit after its metadata was checked.
ReadTooLarge ==
  /\ pc = "read"
  /\ \E raw \in Readable(window) : ~Fits(raw)
  /\ Stop(Failed("source_policy"))

\* Mutant: the last byte of the allowance may not be read.
ReadTooMuchEarly ==
  /\ pc = "read"
  /\ \E raw \in Readable(window) : Fits(raw) /\ Len(raw) >= remaining
  /\ Stop(Failed("resource_limit"))

ReadTooMuch ==
  /\ pc = "read"
  /\ \E raw \in Readable(window) : Fits(raw) /\ Len(raw) > remaining
  /\ Stop(Failed("resource_limit"))

\* Any other I/O error, while opening or while reading.
ReadFault ==
  /\ pc \in {"open", "read"} /\ next <= Sources
  /\ Stop(Failed("source_fault"))

(***************************************************************************)
(* The end of a pass and of an attempt.                                    *)
(***************************************************************************)

BeginRecheck ==
  /\ pc = "open" /\ pass = 1 /\ next > Sources
  /\ pass' = 2 /\ next' = 1
  /\ passHeld' = [passHeld EXCEPT ![2] = [p \in Paths |-> {tree[p]}]]
  /\ turn' = tree
  /\ UNCHANGED <<pc, attempt, window, blocks, snapshots, raced, remaining, outcome>>
  /\ Control

AttemptEnds == pc = "open" /\ pass = 2 /\ next > Sources

Conclude ==
  /\ AttemptEnds /\ ~raced
  /\ Stop(Report(blocks, attempt))

\* Mutant: the statuses of the first attempt are kept.
RetryKeepsBlocks ==
  /\ AttemptEnds /\ raced /\ attempt = 1
  /\ attempt' = 2 /\ pass' = 1 /\ next' = 1
  /\ snapshots' = <<>> /\ raced' = FALSE
  /\ NewPass
  /\ UNCHANGED <<pc, window, blocks, remaining, outcome, turn>>
  /\ Control

\* Mutant: verification starts afresh as long as sources change.
RetryAfresh ==
  /\ AttemptEnds /\ raced
  /\ attempt' = 2 /\ pass' = 1 /\ next' = 1
  /\ blocks' = <<>> /\ snapshots' = <<>> /\ raced' = FALSE
  /\ remaining' = MAX_VERIFY_SOURCE_BYTES
  /\ NewPass
  /\ UNCHANGED <<pc, window, outcome, turn>>
  /\ Control

Retry ==
  /\ AttemptEnds /\ raced /\ attempt = 1
  /\ attempt' = 2 /\ pass' = 1 /\ next' = 1
  /\ blocks' = <<>> /\ snapshots' = <<>> /\ raced' = FALSE
  /\ NewPass
  /\ UNCHANGED <<pc, window, remaining, outcome, turn>>
  /\ Control

\* Mutant: the second attempt is believed whatever the tree did.
GiveUpBelieving ==
  /\ AttemptEnds /\ raced /\ attempt = 2
  /\ Stop(Report(blocks, 2))

GiveUp ==
  /\ AttemptEnds /\ raced /\ attempt = 2
  /\ Stop(Report(Downgraded(blocks), 2))

(***************************************************************************)
(* The environment: any path may come to hold anything, at any time.       *)
(* Replacing a file leaves an open handle with the version it opened;      *)
(* writing in place gives it one more version to yield.  Before the first  *)
(* source is opened a write would only be another initial tree.            *)
(***************************************************************************)

Write(p, node) ==
  /\ pc \in {"open", "read"} /\ tree[p] # node
  /\ MaxWrites < 0 \/ writes < MaxWrites
  /\ tree' = [tree EXCEPT ![p] = node]
  /\ writes' = IF MaxWrites < 0 THEN writes ELSE writes + 1
  /\ held' = [held EXCEPT ![p] = @ \cup {node}]
  /\ passHeld' = [passHeld EXCEPT ![pass][p] = @ \cup {node}]
  /\ \/ window' = window
     \/ /\ pc = "read" /\ p = Target /\ node.kind = "file"
        /\ window' = window \cup {node.raw}
  /\ UNCHANGED <<bundle, verifier, turn>>

Done == pc = "done" /\ UNCHANGED vars

Admit == \/ RootOpenFails \/ OpenRoot \/ RejectSchema \/ RejectLimits
         \/ RejectPayload \/ RejectLocator \/ RejectBlocks \/ StartLive

Read == \/ MissSource \/ RefuseSource \/ OpenSource
        \/ ReadSource \/ ReadTooLarge \/ ReadTooMuch \/ ReadFault

Finish == BeginRecheck \/ Conclude \/ Retry \/ GiveUp

Verifier == Admit \/ Read \/ Finish

Next == \/ Verifier
        \/ \E p \in Paths, node \in Nodes : Write(p, node)
        \/ Done

Spec == Init /\ [][Next]_vars

\* Verification is straight-line code in one thread: it takes its next step
\* as long as it has one.  Nothing is assumed of the environment.
FairSpec == Spec /\ WF_vars(Verifier)

\* No path ever holds the same file content twice, with another node in
\* between: what digests alone cannot see.
Fresh == \A p \in Paths :
           tree'[p] = tree[p] \/ tree'[p].kind # "file" \/ tree'[p] \notin held[p]

FreshSpec == Init /\ [][Next /\ Fresh]_vars

(***************************************************************************)
(* Assumptions.                                                            *)
(***************************************************************************)

ASSUME ContentsAssumption == Contents \subseteq Seq(Nat)
ASSUME LimitAssumption == MAX_VERIFY_SOURCE_BYTES \in Nat
ASSUME BundlesAssumption ==
  \A b \in Bundles : b.blocks \in Seq(BlockType) /\ b.budget.max_file_bytes \in Nat
\* A locator outside Paths would be one more path that never exists.
ASSUME LocatorsAssumption ==
  \A b \in Bundles : \A k \in DOMAIN b.blocks :
    SafePath(b.blocks[k].path.bytes) => b.blocks[k].path.bytes \in Paths
\* No mixture of several versions of a file happens to be a cited source.
ASSUME SpliceAssumption ==
  \A b \in Bundles : \A k \in DOMAIN b.blocks :
    \A versions \in SUBSET Contents : \A raw \in Readable(versions) :
      source_sha256(raw) = b.blocks[k].source_sha256 => raw \in versions

(***************************************************************************)
(* Properties.                                                             *)
(***************************************************************************)

Errors == {"root_open", "unsupported_schema", "invalid_bundle", "unsafe_path",
           "source_policy", "source_fault", "resource_limit"}
Outcomes ==
  [kind : {"none", "report", "error"}, status : Statuses \cup Errors \cup {"none"},
   attempts : 0 .. 2, blocks : Seq(Statuses)]

\* Every variable has its type, and the verifier's cursor stays within what
\* the pass iterates over (verify.rs, verify/live.rs).
TypeOK ==
  /\ tree \in [Paths -> Nodes]
  /\ bundle.blocks \in Seq(BlockType)
  /\ pc \in {"root", "admit", "open", "read", "done"}
  /\ attempt \in 1 .. 2 /\ pass \in 1 .. 2
  /\ next \in 1 .. Sources + 1
  /\ pc = "read" => next <= Sources
  /\ window \subseteq Contents
  /\ blocks \in Seq(Statuses)
  /\ snapshots \in Seq([path : Paths, digest : Seq(Nat)])
  /\ raced \in BOOLEAN
  /\ remaining \in 0 .. MAX_VERIFY_SOURCE_BYTES
  /\ outcome \in Outcomes
  /\ writes \in Nat
  /\ held \in [Paths -> SUBSET Nodes]
  /\ passHeld \in [1 .. 2 -> [Paths -> SUBSET Nodes]]
  /\ turn \in [Paths -> Nodes]

Locator(k) == bundle.blocks[k].path.bytes

Reported(status) == outcome.kind = "report" /\ outcome.status = status

\* A verified report has at least one block, and every block is reproduced by
\* a file that its path held during both passes of the deciding attempt,
\* whatever was written in between (verify_with_reader, live::attempt).
VerifiedIsAttested ==
  Reported("verified") =>
    /\ bundle.blocks # <<>>
    /\ \A k \in DOMAIN bundle.blocks : \E raw \in Contents :
         /\ File(raw) \in passHeld[1][Locator(k)] \cap passHeld[2][Locator(k)]
         /\ Attests(bundle.blocks[k], raw)

AttestedBy(block, node) == node.kind = "file" /\ Attests(block, node.raw)

\* Under FreshSpec a verified report describes one instant: the moment the
\* deciding attempt turned from collecting to re-reading, every cited file
\* held what its block cites, all of them at once (live::attempt).
VerifiedIsSnapshot ==
  Reported("verified") =>
    \A k \in DOMAIN bundle.blocks : AttestedBy(bundle.blocks[k], turn[Locator(k)])

Changed(nodes) == \E p \in Paths : \E n, m \in nodes[p] : n # m

DuringAttempt == [p \in Paths |-> passHeld[1][p] \cup passHeld[2][p]]

\* Why a live report may give a block its status.
Witnessed(k, status) ==
  CASE status = "verified" ->
         \E raw \in Contents : /\ File(raw) \in passHeld[1][Locator(k)]
                              /\ Attests(bundle.blocks[k], raw)
    [] status = "stale" -> Missing \in passHeld[1][Locator(k)]
    [] status = "forged" ->
         \E raw \in Contents :
           /\ File(raw) \in passHeld[1][Locator(k)]
           /\ source_sha256(raw) = bundle.blocks[k].source_sha256
           /\ LiveStatus(bundle.blocks[k], raw) = "forged"
    [] status = "source_drift" ->
         \/ \E raw \in Contents :
              /\ File(raw) \in DuringAttempt[Locator(k)]
              /\ source_sha256(raw) # bundle.blocks[k].source_sha256
         \/ outcome.attempts = 2 /\ Changed(DuringAttempt)

\* Each block status of a live report is explained by what the tree held
\* during the deciding attempt, and a second attempt by a change of the tree:
\* no file is blamed for what it never did (verify_with_reader, live_status).
StatusesAreWitnessed ==
  outcome.kind = "report" /\ Admissible(bundle) =>
    /\ Len(outcome.blocks) = Len(bundle.blocks)
    /\ \A k \in DOMAIN outcome.blocks : Witnessed(k, outcome.blocks[k])
    /\ outcome.attempts = 2 => Changed(held)

\* What a tree has for the blocks of a bundle.
Source(b, t, k) == t[b.blocks[k].path.bytes]

Total(sizes) == FoldLeft(LAMBDA sum, n : sum + n, 0, sizes)
SizeUpTo(b, t, k) == Total([j \in 1 .. k |-> Len(Source(b, t, j).raw)])

Refused(b, t) ==
  {k \in DOMAIN b.blocks : \/ Source(b, t, k).kind = "denied"
                           \/ Len(Source(b, t, k).raw) > b.budget.max_file_bytes}

\* The first source refused is met before the allowance is spent.
RefusedInTime(b, t) ==
  \E k \in Refused(b, t) : /\ SizeUpTo(b, t, k - 1) <= MAX_VERIFY_SOURCE_BYTES
                           /\ Refused(b, t) \cap 1 .. k - 1 = {}

Judged(b, t, k) == IF Source(b, t, k) = Missing THEN "stale"
                   ELSE LiveStatus(b.blocks[k], Source(b, t, k).raw)

\* What verification answers for an admissible bundle and a tree at rest.
\* The allowance pays for every block twice, also for blocks of one file.
QuietOutcome(b, t) ==
  LET n == Len(b.blocks)
  IN  IF RefusedInTime(b, t) THEN Failed("source_policy")
      ELSE IF Refused(b, t) # {} \/ 2 * SizeUpTo(b, t, n) > MAX_VERIFY_SOURCE_BYTES
      THEN Failed("resource_limit")
      ELSE Report([k \in 1 .. n |-> Judged(b, t, k)], 1)

\* If nothing was written and no I/O error came from outside, the outcome is
\* the one the tree deserves, at the first attempt: no false alarm, no missed
\* drift, the read allowance exact (verify_with_reader, SourceReader::read).
QuietTreeIsJudgedExactly ==
  pc = "done" /\ Admissible(bundle) /\ ~Changed(held) =>
    outcome \in {Failed("root_open"), Failed("source_fault"),
                QuietOutcome(bundle, tree)}

\* However often the tree changes, verification ends: there is one retry and
\* no more (verify_with_reader).
Termination == <>(pc = "done")

\* Under FreshSpec the reads of an attempt amount to one look at the whole
\* tree, at the turn of the attempt whose report counts.
Answered == IF outcome.kind = "none" THEN "none"
            ELSE IF Reported("verified") THEN "verified" ELSE "other"

Atomic == INSTANCE AtomicVerify WITH
            seen <- turn, verdict <- Answered, Attested <- AttestedBy

ImplementsAtomic == Atomic!Spec
=============================================================================
