------------------------------- MODULE Judge -------------------------------
(***************************************************************************)
(* The judgements of the verifier that need nothing but a bundle and the   *)
(* bytes of a source: locators (verify/filesystem.rs), preflight and       *)
(* aggregation (verify.rs), and the live status of a block                 *)
(* (verify/live.rs).  Verify puts them to use.                             *)
(***************************************************************************)
EXTENDS Evidence

Statuses == {"verified", "stale", "forged", "source_drift"}

BlockType ==
  [path : [encoding : Encodings, bytes : Seq(Nat)],
   line_start : Nat, line_end : Nat, byte_start : Nat, byte_end : Nat,
   content : [encoding : Encodings, bytes : Seq(Nat)],
   matched_terms : Seq(Seq(Nat)), score : Nat,
   score_components : [exact_phrase : Nat, identifier : Nat, all_terms : Nat,
                       heading : Nat, path : Nat, proximity : Nat],
   why : Seq(Seq(Nat)), block_id : Seq(Nat), source_sha256 : Seq(Nat)]

(***************************************************************************)
(* Locators: verify/filesystem.rs::path_from_bytes.                        *)
(***************************************************************************)

Slash == 47
Dot   == 46

\* The parts between slashes.
Components(path) ==
  LET cuts == {0, Len(path) + 1} \cup {i \in DOMAIN path : path[i] = Slash}
      adjacent == {c \in cuts \X cuts :
                     c[1] < c[2] /\ \A d \in cuts : d <= c[1] \/ d >= c[2]}
  IN  {SubSeq(path, c[1] + 1, c[2] - 1) : c \in adjacent}

SafePath(path) ==
  /\ 0 \notin ToSet(path)
  /\ Components(path) \cap {<<>>, <<Dot>>, <<Dot, Dot>>} = {}

(***************************************************************************)
(* Preflight: what can be told without reading a source.                   *)
(***************************************************************************)

IsSealed(b) == Attestable(b) /\ bundle_sha256(b) = b.bundle_sha256

HasUnsafeLocator(b) ==
  \E block \in ToSet(b.blocks) :
    /\ Decodable(block.path) /\ Decodable(block.content)
    /\ ~SafePath(block.path.bytes)

\* Mutant: a block of one line is taken for an empty range.
PreflightStatusStrict(block) ==
  IF /\ Decodable(block.path) /\ Decodable(block.content)
     /\ block.line_start < block.line_end
     /\ block.byte_start <= block.byte_end
     /\ HasTotal(block.score_components)
     /\ ScoreSum(block.score_components) = block.score
     /\ block.block_id = block_id(block.path.bytes, block.line_start,
                                  block.line_end, block.content.bytes)
  THEN "verified" ELSE "forged"

PreflightStatus(block) ==
  IF /\ Decodable(block.path) /\ Decodable(block.content)
     /\ block.line_start <= block.line_end
     /\ block.byte_start <= block.byte_end
     /\ HasTotal(block.score_components)
     /\ ScoreSum(block.score_components) = block.score
     /\ block.block_id = block_id(block.path.bytes, block.line_start,
                                  block.line_end, block.content.bytes)
  THEN "verified" ELSE "forged"

Preflight(b) == [k \in DOMAIN b.blocks |-> PreflightStatus(b.blocks[k])]

(***************************************************************************)
(* Judging one block against the bytes of its source: live_status.         *)
(***************************************************************************)

\* Mutant: the end of the bytes is not compared.
ReproducesStart(block, path, canonical) ==
  /\ canonical.content = block.content.bytes
  /\ canonical.byte_start = block.byte_start
  /\ block.block_id = block_id(path, block.line_start, block.line_end,
                               canonical.content)

Reproduces(block, path, canonical) ==
  /\ canonical.content = block.content.bytes
  /\ canonical.byte_start = block.byte_start
  /\ canonical.byte_end = block.byte_end
  /\ block.block_id = block_id(path, block.line_start, block.line_end,
                               canonical.content)

\* Mutant: the digest of the source is not compared.
LiveStatusUndigested(block, raw) ==
  LET lines == ParseLines(raw)
      range == LineRange(block.line_start - 1, block.line_end - 1)
  IN  IF /\ IsRangeOf(lines, range)
         /\ Reproduces(block, block.path.bytes, CanonicalBlock(lines, range))
      THEN "verified" ELSE "forged"

LiveStatus(block, raw) ==
  LET lines == ParseLines(raw)
      range == LineRange(block.line_start - 1, block.line_end - 1)
  IN  IF source_sha256(raw) # block.source_sha256 THEN "source_drift"
      ELSE IF /\ IsRangeOf(lines, range)
              /\ Reproduces(block, block.path.bytes, CanonicalBlock(lines, range))
           THEN "verified" ELSE "forged"

(***************************************************************************)
(* Outcomes.                                                               *)
(***************************************************************************)

Has(statuses, status) == \E k \in DOMAIN statuses : statuses[k] = status

Aggregate(statuses) ==
  IF Has(statuses, "forged") THEN "forged"
  ELSE IF Has(statuses, "stale") \/ statuses = <<>> THEN "stale"
  ELSE IF Has(statuses, "source_drift") THEN "source_drift"
  ELSE "verified"

Report(statuses, attempts) ==
  [kind |-> "report", status |-> Aggregate(statuses), attempts |-> attempts,
   blocks |-> statuses]

\* A bundle rejected as a whole is forged even when it has no blocks.
ForgedReport(b) ==
  [kind |-> "report", status |-> "forged", attempts |-> 1,
   blocks |-> [k \in DOMAIN b.blocks |-> "forged"]]

Failed(error) ==
  [kind |-> "error", status |-> error, attempts |-> 0, blocks |-> <<>>]

NoOutcome == [kind |-> "none", status |-> "none", attempts |-> 0, blocks |-> <<>>]

Downgraded(statuses) ==
  [k \in DOMAIN statuses |->
     IF statuses[k] = "verified" THEN "source_drift" ELSE statuses[k]]

(***************************************************************************)
(* What a consumer relies on.                                              *)
(***************************************************************************)

Attests(block, raw) == LiveStatus(block, raw) = "verified"
=============================================================================
