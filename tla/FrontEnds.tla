----------------------------- MODULE FrontEnds -----------------------------
(***************************************************************************)
(* One request given to the command line and to an MCP server at once:     *)
(* main.rs, commands.rs::dispatch, the writing of answers and errors, and  *)
(* mcp.rs::serve_stdio.  Standard output and standard error may fail at    *)
(* any time, and so may the transport.                                     *)
(***************************************************************************)
EXTENDS Answers

VARIABLES
  request,
  cli,        \* run -> write | report -> exited
  result,     \* Answer or Failure, once the command has run
  stdout,     \* nothing, part or all of the answer
  stderr,     \* whether the error was reported
  code,       \* exit code of the command, -1 before
  server,     \* start -> serving -> exited
  reply,      \* to the request
  server_code \* exit code of the server

command == <<cli, result, stdout, stderr, code>>
service == <<server, reply, server_code>>
vars == <<request, command, service>>

NoReply == [kind |-> "none", accepted |-> FALSE]

\* What a tool does not look at is set.
Requests ==
  {r \in Request :
     /\ r.tool = "search" => r.readable /\ r.small /\ r.well_formed /\ r.supported
                               /\ r.root_matches /\ r.core \in {"done", "failed"}
     /\ r.tool = "verify" => r.utf8_root /\ r.good_query
                               /\ r.core \notin {"done", "failed", "unsupported_schema"}
     /\ r.tool = "diagnose" => r.readable /\ r.small /\ r.well_formed /\ r.supported
                               /\ r.root_matches /\ r.utf8_root /\ r.good_query
                               /\ r.core \in {"done", "failed"} /\ r.verdict = "accepted"}

Init ==
  /\ request \in Requests
  /\ cli = "run" /\ result = Answer("success") /\ code = -1
  /\ stdout = "nothing" /\ stderr = FALSE
  /\ server = "start" /\ reply = NoReply /\ server_code = -1

(***************************************************************************)
(* The command.                                                            *)
(***************************************************************************)

Dispatch ==
  /\ cli = "run"
  /\ result' = Run(request)
  /\ cli' = IF result'.ok THEN "write" ELSE "report"
  /\ UNCHANGED <<request, stdout, stderr, code, service>>

WriteAnswer ==
  /\ cli = "write"
  /\ stdout' = "all" /\ cli' = "exited" /\ code' = Code[result.status]
  /\ UNCHANGED <<request, result, stderr, service>>

\* Mutant: an answer that cannot be written is not an error.
WriteFailsSilently ==
  /\ cli = "write"
  /\ stdout' \in {"nothing", "part"}
  /\ cli' = "exited" /\ code' = Code[result.status]
  /\ UNCHANGED <<request, result, stderr, service>>

\* The JSON, or the newline after it, cannot be written.
WriteFails ==
  /\ cli = "write"
  /\ stdout' \in {"nothing", "part"}
  /\ cli' = "report" /\ result' = Failure("scan_failure")
  /\ UNCHANGED <<request, stderr, code, service>>

ReportFailure ==
  /\ cli = "report"
  /\ stderr' = TRUE /\ cli' = "exited" /\ code' = Code[result.status]
  /\ UNCHANGED <<request, result, stdout, service>>

\* An error nobody can be told is a failure of its own.
ReportFails ==
  /\ cli = "report"
  /\ cli' = "exited" /\ code' = Code.scan_failure
  /\ UNCHANGED <<request, result, stdout, stderr, service>>

(***************************************************************************)
(* The server.                                                             *)
(***************************************************************************)

Exit(n) == server' = "exited" /\ server_code' = n /\ UNCHANGED <<request, command>>

\* No current directory, or no handshake.
ServerCannotStart == server = "start" /\ Exit(Code.scan_failure) /\ UNCHANGED reply

ServerStarts ==
  /\ server = "start" /\ server' = "serving"
  /\ UNCHANGED <<request, command, reply, server_code>>

Serve ==
  /\ server = "serving" /\ reply = NoReply
  /\ reply' = Reply(request)
  /\ UNCHANGED <<request, command, server, server_code>>

\* The transport is closed, or breaks.
ServerStops ==
  /\ server = "serving"
  /\ (Exit(Code.success) \/ Exit(Code.scan_failure))
  /\ UNCHANGED reply

Done == cli = "exited" /\ server = "exited" /\ UNCHANGED vars

Next == \/ Dispatch \/ WriteAnswer \/ WriteFails \/ ReportFailure \/ ReportFails
        \/ ServerCannotStart \/ ServerStarts \/ Serve \/ ServerStops
        \/ Done

Spec == Init /\ [][Next]_vars

(***************************************************************************)
(* Properties.                                                             *)
(***************************************************************************)

\* The core's consent, and the critic's.
Consent(r) ==
  /\ r.core \in {"done", "verified"} /\ r.verdict = "accepted"
  /\ r.utf8_root /\ r.good_query
  /\ r.readable /\ r.small /\ r.well_formed /\ r.supported /\ r.root_matches

\* An exit code says what a script that never reads the output believes.
\* Success is earned by an answer that was written whole, with the core's
\* consent and the critic's; a rejection and a mismatch come with the whole
\* report; a usage error and an invalid bundle with an error on stderr and
\* nothing on stdout; and no failed output is taken for any of them
\* (dispatch, write_json, write_text, report_failure).
ExitCodesAreEarned ==
  cli = "exited" =>
    /\ code = 0 => Consent(request)
    /\ code \in {0, 1, 4} => stdout = "all"
    /\ code \in {2, 3} => stdout = "nothing" /\ stderr

\* Nothing that had to be written failed.
Faultless == cli = "exited" /\ (IF Run(request).ok THEN stdout = "all" ELSE stderr)

\* For the same request over the same tree the two front ends say the same,
\* as SPEC.md section 9 has it: accepted is the condition of exit code 0,
\* stale, forged and drifted evidence and a rejection come in-band, a query
\* or a bundle that is refused is an error of the parameters, and a scan that
\* fails is a structured error.  Each repeats the checks of the other by hand
\* (run_search, run_verify, run_diagnose; search_evidence, verify_evidence,
\* diagnose_repo).
FrontEndsAgree ==
  Faultless /\ reply # NoReply /\ request.normal_path /\ request.readable =>
    /\ code = 0 <=> reply.accepted
    /\ code \in {1, 4} <=> reply.kind = "structured" /\ ~reply.accepted
    /\ code \in {2, 3} <=> reply.kind = "invalid_params"
    /\ code = 5 <=> reply.kind = "structured_error"
=============================================================================
