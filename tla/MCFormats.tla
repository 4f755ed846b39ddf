------------------------------ MODULE MCFormats ------------------------------
(***************************************************************************)
(* The parts without state, over all small inputs.                         *)
(*                                                                         *)
(* A source is fed byte by byte, searched by the code of Blocks and judged *)
(* by the code of Judge: do the ranges of lines, the bytes of a block and  *)
(* the verifier's reading of them agree with what a reader of the file     *)
(* sees?                                                                   *)
(*                                                                         *)
(* Two bundles start equal and are edited apart.  The edits are those an   *)
(* unframed or miscounted preimage would not notice: a byte, a digit, a    *)
(* string or a whole item moves from the end of one field to the beginning *)
(* of the next one hashed.  When do the digests still agree?               *)
(***************************************************************************)
EXTENDS Blocks, Judge

CONSTANTS
  MaxBytes,      \* bound on the length of a source
  MaxPlain,      \* the same for one of matches and line endings only
  ContextLines,  \* Budget.context_lines
  MaxEdits       \* bound on the edits of both bundles together

ASSUME ContextLinesAssumption == ContextLines \in Nat

VARIABLES raw, left, right, edits

x == 120  y == 121  a == <<97>>  b == <<98>>

(***************************************************************************)
(* Sources.                                                                *)
(***************************************************************************)

Endings  == {x, LF, CR}
Alphabet == Endings \cup {Hash, Space}

Sources ==
  {s \in Seq(Alphabet) : Len(s) <= IF ToSet(s) \subseteq Endings THEN MaxPlain ELSE MaxBytes}

Plan ==
  [query |-> <<x>>, root |-> <<>>, quoted_phrases |-> <<<<x, x>>>>,
   identifiers |-> <<<<x>>>>, terms |-> <<<<Hash, x>>>>,
   budget |-> [max_blocks |-> 8, context_lines |-> ContextLines,
               max_file_bytes |-> MaxBytes, max_total_bytes |-> MaxBytes,
               max_matches |-> 8]]

Lines == ParseLines(raw)
Found == blocks_for_file(Plan, a, raw)

(***************************************************************************)
(* Which lines a search should cite, line by line.                         *)
(***************************************************************************)

IsHeadingLine(i) == IsHeading(Lines[i + 1].content)

\* h is the heading of the section that line i is in.
SectionOf(h, i) == /\ h <= i /\ IsHeadingLine(h)
                   /\ \A g \in h + 1 .. i : ~IsHeadingLine(g)

Wanted ==
  {j \in 0 .. Len(Lines) - 1 :
     \E i \in MatchingLines(Plan, Lines) :
       \/ j - i \in -ContextLines .. ContextLines
       \/ \E h \in 0 .. j : j <= i /\ SectionOf(h, i)}

\* The longest runs of wanted lines.
Runs == {run \in {LineRange(s, e) : s, e \in Wanted} :
           /\ run.start .. run.end \subseteq Wanted /\ run.start <= run.end
           /\ {run.start - 1, run.end + 1} \cap Wanted = {}}

\* The cited ranges are the maximal runs of lines that are context of a match
\* or lie between a match and the heading of its section, in file order: no
\* line is cited twice, missed, or cited for no match (matching_ranges,
\* merge_ranges).
RangesAreMaximalRuns ==
  LET ranges == matching_ranges(Plan, Lines)
  IN  /\ ToSet(ranges) = Runs
      /\ \A i, j \in DOMAIN ranges : i < j => ranges[i].end < ranges[j].start

\* What search reports of a file, verification confirms of the same file: the
\* two sides compute lines, offsets and identifiers independently (build_block
\* against preflight_status and live_status).
FoundBlocksVerify ==
  \A block \in ToSet(Found) : /\ PreflightStatus(block) = "verified"
                              /\ LiveStatus(block, raw) = "verified"

(***************************************************************************)
(* What a reader of the file sees.                                         *)
(***************************************************************************)

\* The bytes with every CRLF replaced by LF.
Normalised(bytes) ==
  LET kept == {i \in DOMAIN bytes :
                 ~(bytes[i] = CR /\ i < Len(bytes) /\ bytes[i + 1] = LF)}
      order == Ascending(kept)
  IN  [k \in DOMAIN order |-> bytes[order[k]]]

LineOf(bytes, offset) == 1 + Cardinality({i \in 1 .. offset : bytes[i] = LF})

AtLineStart(bytes, offset) == offset = 0 \/ bytes[offset] = LF

AtLineEnd(bytes, offset) ==
  LET rest == Slice(bytes, offset, Len(bytes))
  IN  \/ rest = <<>>
      \/ IsPrefix(<<CR, LF>>, rest)
      \/ rest[1] = LF /\ (offset = 0 \/ bytes[offset] # CR)

\* A consumer who opens the file at the cited bytes finds the content shown,
\* on the lines cited, and whole lines only.
Shows(block, bytes) ==
  /\ source_sha256(bytes) = block.source_sha256
  /\ block.byte_start <= block.byte_end /\ block.byte_end <= Len(bytes)
  /\ AtLineStart(bytes, block.byte_start) /\ AtLineEnd(bytes, block.byte_end)
  /\ block.line_start = LineOf(bytes, block.byte_start)
  /\ block.line_end = LineOf(bytes, block.byte_end)
  /\ block.content.bytes = Normalised(Slice(bytes, block.byte_start, block.byte_end))

(***************************************************************************)
(* Blocks that no search produced.                                         *)
(***************************************************************************)

Near(n) == {k \in {n - 1, n, n + 1} : k >= 0}

\* The block moved by a line or a byte at either end, or with a byte of its
\* content gone or added, and with an identifier computed for it.
Lined(block, s, t) == [block EXCEPT !.line_start = s, !.line_end = t]
Cut(block, s, t)   == [block EXCEPT !.byte_start = s, !.byte_end = t]
Worded(block, c)   == [block EXCEPT !.content.bytes = c]
Renamed(e) == [e EXCEPT !.block_id = block_id(e.path.bytes, e.line_start, e.line_end,
                                              e.content.bytes)]

Edited(block) ==
  LET content == block.content.bytes
  IN  {Renamed(e) : e \in
         {Lined(block, s, t) : s \in Near(block.line_start), t \in Near(block.line_end)}
         \cup {Cut(block, s, t) : s \in Near(block.byte_start), t \in Near(block.byte_end)}
         \cup {Worded(block, c) :
                 c \in {Front(content), Tail(content)}
                         \cup {Append(content, byte) : byte \in {LF, CR}}}}

\* A block that verification confirms is found in the file by a reader who
\* knows nothing of parsed lines: its bytes are there at the cited offsets,
\* on the cited lines, whole lines only, with CRLF shown as LF
\* (live_status, canonical_block, parse_lines).
VerifiedBlocksShow ==
  \A block \in ToSet(Found) : \A e \in Edited(block) \cup {block} :
    LiveStatus(e, raw) = "verified" => Shows(e, raw)

\* Blocks of different files or lines never compare equal: the ranking, and
\* what truncation to max_blocks keeps, does not depend on the order in which
\* files were scanned (compare_ranked).
RankingIsTotal ==
  LET both == ToSet(Found \o blocks_for_file(Plan, b, raw))
  IN  \A p, q \in both : p # q => (RankedBefore(p, q) <=> ~RankedBefore(q, p))
(***************************************************************************)
(* Bundles.                                                                *)
(***************************************************************************)

Block ==
  [path |-> Encoded(<<x, y>>), line_start |-> 11, line_end |-> 2,
   byte_start |-> 1, byte_end |-> 12, content |-> Encoded(<<x>>),
   matched_terms |-> <<<<x, y>>, <<x>>>>, score |-> 5,
   score_components |-> [exact_phrase |-> 1, identifier |-> 1, all_terms |-> 1,
                         heading |-> 1, path |-> 1, proximity |-> 0],
   why |-> <<<<x>>>>, block_id |-> <<x, x>>, source_sha256 |-> <<y>>]

Original ==
  [schema_version |-> SchemaVersion, bundle_sha256 |-> <<>>, query |-> <<x, y>>,
   root |-> <<x>>, budget |-> 1, blocks |-> <<Block>>,
   skipped |-> <<[path |-> Encoded(<<y>>), reason |-> "secret"]>>,
   critic |-> [verdict |-> "accepted", covered_quoted_phrases |-> <<>>,
               covered_identifiers |-> <<<<x>>>>, uncovered |-> <<>>]]

(***************************************************************************)
(* Edits.                                                                  *)
(***************************************************************************)

\* The last item of one sequence becomes the first of another.
Passed(seqs, i, j) ==
  [seqs EXCEPT ![i] = Front(@), ![j] = <<Last(seqs[i])>> \o @]

Passes(seqs) ==
  {Passed(seqs, p[1], p[2]) :
     p \in {q \in (DOMAIN seqs) \X (DOMAIN seqs) : q[1] # q[2] /\ seqs[q[1]] # <<>>}}

\* The first two strings of a list become one, or its first becomes two.
Regrouped(list) ==
  {IF Len(list) > 1 THEN <<list[1] \o list[2]>> \o SubSeq(list, 3, Len(list)) ELSE list,
   IF list # <<>> /\ Len(list[1]) > 1
   THEN <<<<list[1][1]>>, Tail(list[1])>> \o Tail(list) ELSE list}

Texts(k) == <<k.path.bytes, k.content.bytes, k.block_id, k.source_sha256>>
WithTexts(k, t) == [k EXCEPT !.path.bytes = t[1], !.content.bytes = t[2],
                             !.block_id = t[3], !.source_sha256 = t[4]]

Moved(n, m) == <<n \div 10, IF m < 10 THEN 10 * (n % 10) + m ELSE m>>

BlockEdits(k) ==
  {WithTexts(k, t) : t \in Passes(Texts(k))}
  \cup {[k EXCEPT !.matched_terms = l[1], !.why = l[2]] :
          l \in Passes(<<k.matched_terms, k.why>>)}
  \cup {[k EXCEPT !.matched_terms = l] : l \in Regrouped(k.matched_terms)}
  \cup {[k EXCEPT !.line_start = Moved(@, k.line_end)[1],
                  !.line_end = Moved(k.line_start, @)[2]],
        [k EXCEPT !.line_end = k.byte_start, !.byte_start = k.line_end],
        [k EXCEPT !.score = 0, !.score_components.exact_phrase = 5],
        [k EXCEPT !.path.encoding = "base64"]}

CriticEdits(c) ==
  {[c EXCEPT !.covered_quoted_phrases = l[1], !.covered_identifiers = l[2],
             !.uncovered = l[3]] :
     l \in Passes(<<c.covered_quoted_phrases, c.covered_identifiers, c.uncovered>>)}
  \cup {[c EXCEPT !.verdict = "rejected"]}

Edits(bundle) ==
  {[bundle EXCEPT !.critic = c] : c \in CriticEdits(bundle.critic)}
  \cup {[bundle EXCEPT !.blocks = <<>>], [bundle EXCEPT !.blocks = @ \o @],
        [bundle EXCEPT !.skipped = <<>>], [bundle EXCEPT !.skipped = @ \o @],
        [bundle EXCEPT !.skipped = [i \in DOMAIN @ |-> [@[i] EXCEPT !.reason = "budget"]]],
        [bundle EXCEPT !.query = <<x>>],
        [bundle EXCEPT !.root = <<y>>], [bundle EXCEPT !.budget = 2]}
  \cup UNION {{[bundle EXCEPT !.blocks[i] = k] : k \in BlockEdits(bundle.blocks[i])} :
                i \in DOMAIN bundle.blocks}

(***************************************************************************)
(* The inputs: a source grows, or the bundles move apart.                  *)
(***************************************************************************)

Init == raw = <<>> /\ left = Original /\ right = Original /\ edits = 0

Feed(byte) ==
  /\ edits = 0
  /\ Append(raw, byte) \in Sources /\ raw' = Append(raw, byte)
  /\ UNCHANGED <<left, right, edits>>

EditLeft  == left' \in Edits(left) /\ UNCHANGED right
EditRight == right' \in Edits(right) /\ UNCHANGED left

Edit == /\ raw = <<>> /\ edits < MaxEdits /\ edits' = edits + 1
        /\ EditLeft \/ EditRight
        /\ UNCHANGED raw

Next == Edit \/ \E byte \in Alphabet : Feed(byte)

Spec == Init /\ [][Next]_<<raw, left, right, edits>>

(***************************************************************************)
(* Properties of digests.                                                  *)
(***************************************************************************)

\* The decoded content of everything but the root, the budget, the digest.
Payload(bundle) ==
  <<bundle.schema_version, bundle.query,
    [k \in DOMAIN bundle.blocks |->
       [bundle.blocks[k] EXCEPT !.path = @.bytes, !.content = @.bytes]],
    [k \in DOMAIN bundle.skipped |-> [bundle.skipped[k] EXCEPT !.path = @.bytes]],
    bundle.critic>>

\* Two bundles have one digest exactly when they agree on every attested
\* field: no byte, item or digit can move from field to field unnoticed, and
\* root, budget and encoding are display only (compute_bundle_sha256).
DigestBindsPayload ==
  bundle_sha256(left) = bundle_sha256(right) <=> Payload(left) = Payload(right)

Identity(k) == block_id(k.path.bytes, k.line_start, k.line_end, k.content.bytes)
Located(k)  == <<k.path.bytes, k.line_start, k.line_end, k.content.bytes>>

\* Two blocks have one identifier exactly when they show the same bytes on
\* the same lines of the same path (identity.rs::block_id).
IdentifierBindsBlock ==
  \A k \in ToSet(left.blocks), l \in ToSet(right.blocks) :
    Identity(k) = Identity(l) <=> Located(k) = Located(l)
=============================================================================
