------------------------------ MODULE Answers ------------------------------
(***************************************************************************)
(* How the command line and the MCP server of hanimo-find turn what the    *)
(* core answers into an exit code or a reply: commands.rs, mcp.rs and      *)
(* search_adapter.rs::is_usage.  Both repeat the same checks before they   *)
(* call the core, each in its own order.                                   *)
(*                                                                         *)
(* A request is what the checks tell apart of one.  Its field core is what *)
(* the core answers: for a verification a status of Judge or an error of   *)
(* Verify, otherwise "done" or "failed".                                   *)
(***************************************************************************)
EXTENDS Integers, Sequences, FiniteSets

Tools == {"search", "verify", "diagnose"}

Statuses == {"verified", "stale", "source_drift", "forged"}

\* VerifyError::invalid_bundle_reason has a reason for these.
InvalidBundleErrors == {"unsupported_schema", "invalid_bundle"}
OtherErrors == {"root_open", "unsafe_path", "source_policy", "source_fault",
                "resource_limit"}

Request ==
  [tool         : Tools,
   normal_path  : BOOLEAN,  \* the path given to MCP has normal components only
   utf8_root    : BOOLEAN,
   good_query   : BOOLEAN,  \* it parses, and is within the limits
   readable     : BOOLEAN,  \* the file given to the command line can be read
   small        : BOOLEAN,  \* at most MAX_VERIFY_BUNDLE_BYTES of bundle
   well_formed  : BOOLEAN,  \* it is the JSON of a bundle
   supported    : BOOLEAN,  \* of the schema version, with a root
   root_matches : BOOLEAN,  \* the root is the recorded display root
   core         : Statuses \cup InvalidBundleErrors \cup OtherErrors \cup {"done", "failed"},
   verdict      : {"accepted", "rejected"}]

(***************************************************************************)
(* The command line: Status, and whether there is something to print.      *)
(***************************************************************************)

Code == [success |-> 0, rejected |-> 1, usage |-> 2, invalid_bundle |-> 3,
         evidence_mismatch |-> 4, scan_failure |-> 5]

Answer(status)  == [ok |-> TRUE, status |-> status]
Failure(status) == [ok |-> FALSE, status |-> status]

OfVerdict(verdict) == IF verdict = "accepted" THEN "success" ELSE "rejected"

\* The adapter looks at the root before the query; only the query is usage.
SearchFails(r) == ~r.utf8_root \/ ~r.good_query \/ r.core = "failed"
IsUsage(r)     == r.utf8_root /\ ~r.good_query

run_search(r) ==
  IF SearchFails(r) THEN Failure(IF IsUsage(r) THEN "usage" ELSE "scan_failure")
  ELSE Answer(OfVerdict(r.verdict))

\* Mutant: the critic is forgotten.
OfReportUncritical(status, verdict) ==
  IF status = "verified" THEN "success" ELSE "evidence_mismatch"

OfReport(status, verdict) ==
  IF status = "verified" THEN OfVerdict(verdict) ELSE "evidence_mismatch"

\* Mutant: the root is compared before the bundle is looked into.
run_verify_root_first(r) ==
  IF ~r.readable \/ ~r.small \/ ~r.well_formed THEN Failure("invalid_bundle")
  ELSE IF ~r.root_matches THEN Failure("scan_failure")
  ELSE IF ~r.supported \/ r.core \in InvalidBundleErrors THEN Failure("invalid_bundle")
  ELSE IF r.core \in OtherErrors THEN Failure("scan_failure")
  ELSE Answer(OfReport(r.core, r.verdict))

run_verify(r) ==
  IF ~r.readable \/ ~r.small \/ ~r.well_formed \/ ~r.supported THEN Failure("invalid_bundle")
  ELSE IF ~r.root_matches THEN Failure("scan_failure")
  ELSE IF r.core \in InvalidBundleErrors THEN Failure("invalid_bundle")
  ELSE IF r.core \in OtherErrors THEN Failure("scan_failure")
  ELSE Answer(OfReport(r.core, r.verdict))

run_diagnose(r) ==
  IF r.core = "failed" THEN Failure("scan_failure") ELSE Answer("success")

Run(r) == CASE r.tool = "search"   -> run_search(r)
            [] r.tool = "verify"   -> run_verify(r)
            [] r.tool = "diagnose" -> run_diagnose(r)

(***************************************************************************)
(* The MCP server: a structured reply, a structured error, or an error of  *)
(* the protocol.                                                           *)
(***************************************************************************)

Structured(accepted) == [kind |-> "structured", accepted |-> accepted]
StructuredError == [kind |-> "structured_error", accepted |-> FALSE]
InvalidParams   == [kind |-> "invalid_params", accepted |-> FALSE]

\* The caller of a search gates on the verdict in the bundle itself.
search_evidence(r) ==
  IF SearchFails(r) THEN IF IsUsage(r) THEN InvalidParams ELSE StructuredError
  ELSE Structured(r.verdict = "accepted")

\* Mutant: a verified report is accepted whatever the critic said.
verify_evidence_uncritical(r) ==
  IF ~r.small \/ ~r.well_formed \/ ~r.supported THEN InvalidParams
  ELSE IF ~r.root_matches THEN StructuredError
  ELSE IF r.core \in InvalidBundleErrors THEN InvalidParams
  ELSE IF r.core \in OtherErrors THEN StructuredError
  ELSE Structured(r.core = "verified")

verify_evidence(r) ==
  IF ~r.small \/ ~r.well_formed \/ ~r.supported THEN InvalidParams
  ELSE IF ~r.root_matches THEN StructuredError
  ELSE IF r.core \in InvalidBundleErrors THEN InvalidParams
  ELSE IF r.core \in OtherErrors THEN StructuredError
  ELSE Structured(r.core = "verified" /\ r.verdict = "accepted")

diagnose_repo(r) ==
  IF r.core = "failed" THEN StructuredError ELSE Structured(TRUE)

\* resolve_target comes first.
Reply(r) ==
  IF ~r.normal_path THEN InvalidParams
  ELSE CASE r.tool = "search"   -> search_evidence(r)
         [] r.tool = "verify"   -> verify_evidence(r)
         [] r.tool = "diagnose" -> diagnose_repo(r)
=============================================================================
