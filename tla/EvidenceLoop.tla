---------------------------- MODULE EvidenceLoop ----------------------------
(***************************************************************************)
(* The evidence loop: search, act on the bundle, verify the bundle.  One   *)
(* program runs the command line twice, or calls the two tools of an MCP   *)
(* server, over one tree, while others write to it before, between and     *)
(* after.  It composes Search and Verify, which share the tree, and hands  *)
(* the bundle over as it is.                                               *)
(***************************************************************************)
EXTENDS FileTree, FiniteSets

CONSTANTS
  Paths, SecretPaths, Contents, Plans,
  MAX_QUERY_BYTES, MAX_QUERY_LITERALS,
  MAX_CANDIDATE_FILES, MAX_DISCOVERY_ENTRIES, MAX_DISCOVERY_DEPTH,
  MAX_BLOCKS, MAX_SKIPPED, MAX_LIST_ITEMS, MAX_CONTEXT_LINES,
  MAX_FILE_BYTES, MAX_TOTAL_BYTES, MAX_MATCHES, MAX_VERIFY_SOURCE_BYTES,
  MaxWrites    \* bound on writes

VARIABLES
  phase,       \* search -> hold -> verify -> over
  tree, writes, held,
  \* the search
  plan, s_pc, unseen, entries, candidates, skipped, s_next, s_window,
  totalBytes, totalMatches, ranked, s_outcome, scanned, consumed,
  \* the verification
  bundle, v_pc, attempt, pass, v_next, v_window, blocks, snapshots, raced,
  remaining, v_outcome, passHeld, turn

searching == <<plan, s_pc, unseen, entries, candidates, skipped, s_next, s_window,
               totalBytes, totalMatches, ranked, s_outcome, scanned, consumed>>
verifying == <<bundle, v_pc, attempt, pass, v_next, v_window, blocks, snapshots,
               raced, remaining, v_outcome, passHeld, turn>>
environment == <<tree, writes, held>>
vars == <<phase, environment, searching, verifying>>

S == INSTANCE Search WITH pc <- s_pc, next <- s_next, window <- s_window,
                          outcome <- s_outcome
V == INSTANCE Verify WITH pc <- v_pc, next <- v_next, window <- v_window,
                          outcome <- v_outcome, Bundles <- {}
A == INSTANCE Answers

\* Directories are left to Search.
Nodes == {File(raw) : raw \in Contents} \cup {Missing, Denied}

Init ==
  /\ phase = "search"
  /\ S!Init /\ \A p \in Paths : tree[p] \in Nodes
  /\ bundle = <<>> /\ v_pc = "root"
  /\ attempt = 1 /\ pass = 1 /\ v_next = 1 /\ v_window = {}
  /\ blocks = <<>> /\ snapshots = <<>> /\ raced = FALSE
  /\ remaining = MAX_VERIFY_SOURCE_BYTES /\ v_outcome = V!NoOutcome
  /\ passHeld = <<[p \in Paths |-> {}], [p \in Paths |-> {}]>> /\ turn = tree

SearchStep ==
  /\ phase = "search" /\ S!Searcher
  /\ UNCHANGED <<phase, verifying>>

SearchFailed ==
  /\ phase = "search" /\ s_pc = "done" /\ ~S!Finished
  /\ phase' = "over"
  /\ UNCHANGED <<environment, searching, verifying>>

HandOver ==
  /\ phase = "search" /\ s_pc = "done" /\ S!Finished
  /\ phase' = "hold" /\ bundle' = S!Bundle
  /\ UNCHANGED <<environment, searching, v_pc, attempt, pass, v_next, v_window, blocks,
                 snapshots, raced, remaining, v_outcome, passHeld, turn>>

StartVerify ==
  /\ phase = "hold" /\ phase' = "verify"
  /\ UNCHANGED <<environment, searching, verifying>>

VerifyStep ==
  /\ phase = "verify" /\ V!Verifier
  /\ UNCHANGED <<phase, searching>>

VerifyDone ==
  /\ phase = "verify" /\ v_pc = "done" /\ phase' = "over"
  /\ UNCHANGED <<environment, searching, verifying>>

\* What others write while nobody looks.
WriteBetween(p, node) ==
  /\ tree[p] # node /\ writes < MaxWrites /\ writes' = writes + 1
  /\ tree' = [tree EXCEPT ![p] = node]
  /\ held' = [held EXCEPT ![p] = @ \cup {node}]
  /\ UNCHANGED <<phase, searching, verifying>>

Write(p, node) ==
  \/ phase = "search" /\ S!Write(p, node) /\ UNCHANGED <<phase, verifying>>
  \/ phase = "hold" /\ WriteBetween(p, node)
  \/ phase = "verify" /\ V!Write(p, node) /\ UNCHANGED <<phase, searching>>

Done == phase = "over" /\ UNCHANGED vars

Next == \/ SearchStep \/ SearchFailed \/ HandOver
        \/ StartVerify \/ VerifyStep \/ VerifyDone
        \/ \E p \in Paths, node \in Nodes : Write(p, node)
        \/ Done

Spec == Init /\ [][Next]_vars

(***************************************************************************)
(* Assumptions.  What the defaults and limits of the two sides grant:      *)
(* Budget::default, the constants of search.rs and those of policy.rs.     *)
(***************************************************************************)

ASSUME LimitsAssumption ==
  /\ MAX_DISCOVERY_ENTRIES + 1 <= MAX_SKIPPED
  /\ MAX_QUERY_LITERALS <= MAX_LIST_ITEMS
  /\ 6 <= MAX_LIST_ITEMS   \* a reason for each component of a score
  /\ \A p \in Plans :
       /\ p.budget.max_blocks <= MAX_BLOCKS
       /\ p.budget.context_lines <= MAX_CONTEXT_LINES
       /\ p.budget.max_file_bytes <= MAX_FILE_BYTES
       /\ p.budget.max_total_bytes <= MAX_TOTAL_BYTES
       /\ p.budget.max_matches <= MAX_MATCHES
       /\ 4 * p.budget.max_blocks * p.budget.max_file_bytes <= MAX_VERIFY_SOURCE_BYTES

(***************************************************************************)
(* Properties.                                                             *)
(***************************************************************************)

Verified == phase = "over" /\ v_pc = "done"
Reported == Verified /\ v_outcome.kind = "report"

SearchCode == A!Code[A!OfVerdict(bundle.critic.verdict)]
VerifyCode == A!Code[A!OfReport(v_outcome.status, bundle.critic.verdict)]

\* A bundle that was handed over as the search made it is never refused:
\* whatever anybody writes before, between or during the two, no verdict on
\* it is forged, its locators are safe, it is within the limits of a bundle,
\* and the allowance of the verification pays for both attempts
\* (assemble_bundle, validate_limits, preflight_status, live_status,
\* SourceReader).
HonestBundleIsNeverRefused ==
  Verified =>
    /\ v_outcome.status \notin {"forged", "unsupported_schema", "invalid_bundle",
                                "unsafe_path", "resource_limit"}
    /\ ~V!Has(v_outcome.blocks, "forged")

\* Where nobody writes, verification confirms the search: every block is
\* verified at the first attempt and the exit code is that of the search,
\* with nothing but a fault of the system to prevent it.  A bundle without
\* blocks is the exception: it is reported stale (run_search, run_verify).
LoopClosesAtRest ==
  Verified /\ writes = 0 =>
    /\ v_outcome.kind = "error" => v_outcome.status \in {"root_open", "source_fault"}
    /\ Reported /\ bundle.blocks # <<>> =>
         /\ v_outcome.status = "verified" /\ v_outcome.attempts = 1
         /\ VerifyCode = SearchCode
=============================================================================
