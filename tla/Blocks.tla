------------------------------- MODULE Blocks -------------------------------
(***************************************************************************)
(* The evidence blocks of one file: the ranges of lines that match a plan, *)
(* how they merge, how a block is scored, and how blocks are ranked.       *)
(* crates/hanimo-core/src/search.rs (blocks_for_file and what it calls),   *)
(* rank.rs, search/ranking.rs.                                             *)
(*                                                                         *)
(* A plan is a record with the sequences of literals quoted_phrases,       *)
(* identifiers and terms and a budget.                                     *)
(***************************************************************************)
EXTENDS Evidence

Literals(plan) == plan.quoted_phrases \o plan.identifiers \o plan.terms

(***************************************************************************)
(* Matching lines and their ranges (search.rs).                            *)
(***************************************************************************)

LineMatches(plan, line) ==
  FoldLeft(LAMBDA count, needle : count + OccurrenceCount(line.content, needle),
           0, Literals(plan))

\* Zero-based indices of the lines that contain a literal.
MatchingLines(plan, lines) ==
  {i \in 0 .. Len(lines) - 1 : LineMatches(plan, lines[i + 1]) > 0}

Smaller(a, b) == IF a < b THEN a ELSE b
Larger(a, b)  == IF a > b THEN a ELSE b

\* The range a matching line opens: its context, extended upwards to the
\* nearest heading at or above it.
RangeOf(plan, lines, i) ==
  LET ctx      == plan.budget.context_lines
      start    == Larger(i - ctx, 0)
      headings == {h \in 0 .. i : IsHeading(lines[h + 1].content)}
      heading  == IF headings = {} THEN start
                  ELSE CHOOSE h \in headings : \A g \in headings : g <= h
  IN  LineRange(Smaller(heading, start), Smaller(i + ctx, Len(lines) - 1))

\* Mutant: ranges that touch are kept apart.
MergeRangeOverlap(merged, range) ==
  IF merged # <<>> /\ range.start <= Last(merged).end
  THEN Append(Front(merged),
              [Last(merged) EXCEPT !.end = Larger(@, range.end)])
  ELSE Append(merged, range)

\* A range that overlaps or touches the last merged one extends it.
MergeRange(merged, range) ==
  IF merged # <<>> /\ range.start <= Last(merged).end + 1
  THEN Append(Front(merged),
              [Last(merged) EXCEPT !.end = Larger(@, range.end)])
  ELSE Append(merged, range)

merge_ranges(ranges) == FoldLeft(MergeRange, <<>>, ranges)

matching_ranges(plan, lines) ==
  LET matching == Ascending(MatchingLines(plan, lines))
  IN  merge_ranges([k \in DOMAIN matching |-> RangeOf(plan, lines, matching[k])])

file_matches(plan, lines) ==
  FoldLeft(LAMBDA count, line : count + LineMatches(plan, line), 0, lines)

(***************************************************************************)
(* Scoring (rank.rs).                                                      *)
(***************************************************************************)

Occurring(needles, content) ==
  SelectSeq(needles, LAMBDA needle : Occurs(content, needle))

component_any(needles, content, value) ==
  IF Occurring(needles, content) # <<>> THEN value ELSE 0

component_all(needles, content, value) ==
  IF needles # <<>> /\ Occurring(needles, content) = needles THEN value ELSE 0

\* 40 for a block whose required literals share a line, 5 less for each line
\* between the first and the last line with one, never less than 0.
proximity(plan, selected) ==
  LET required  == plan.quoted_phrases \o plan.identifiers
      positions == {i \in DOMAIN selected :
                      Occurring(required, selected[i].content) # <<>>}
      first == CHOOSE i \in positions : \A j \in positions : i <= j
      last  == CHOOSE i \in positions : \A j \in positions : i >= j
  IN  IF positions = {} THEN 0 ELSE 40 - 5 * Smaller(last - first, 8)

score(plan, selected, content) ==
  [exact_phrase |-> component_any(plan.quoted_phrases, content, 300),
   identifier   |-> component_any(plan.identifiers, content, 250),
   all_terms    |-> component_all(plan.terms, content, 150),
   heading      |-> IF \E line \in ToSet(selected) : IsHeading(line.content)
                    THEN 75 ELSE 0,
   path         |-> 50,
   proximity    |-> proximity(plan, selected)]

\* The names of the reasons are the field names of the components.
reasons(s) ==
  SelectSeq(<<<<1>>, <<2>>, <<3>>, <<4>>, <<5>>, <<6>>>>,
            LAMBDA r : <<s.exact_phrase, s.identifier, s.all_terms,
                         s.heading, s.path, s.proximity>>[r[1]] > 0)

(***************************************************************************)
(* Blocks and their order (search.rs, search/ranking.rs).                  *)
(***************************************************************************)

build_block(plan, path, raw, lines, range) ==
  LET canonical  == CanonicalBlock(lines, range)
      components == score(plan, Selected(lines, range), canonical.content)
  IN  [path             |-> Encoded(path),
       line_start       |-> range.start + 1,
       line_end         |-> range.end + 1,
       byte_start       |-> canonical.byte_start,
       byte_end         |-> canonical.byte_end,
       content          |-> Encoded(canonical.content),
       matched_terms    |-> Occurring(Literals(plan), canonical.content),
       score            |-> ScoreSum(components),
       score_components |-> components,
       why              |-> reasons(components),
       block_id         |-> block_id(path, range.start + 1, range.end + 1,
                                     canonical.content),
       source_sha256    |-> source_sha256(raw)]

blocks_for_file(plan, path, raw) ==
  LET lines  == ParseLines(raw)
      ranges == matching_ranges(plan, lines)
  IN  [k \in DOMAIN ranges |-> build_block(plan, path, raw, lines, ranges[k])]

\* Mutant: the path is no part of the order.
RankedBeforeByLine(a, b) ==
  \/ a.score > b.score
  \/ /\ a.score = b.score
     /\ \/ a.line_start < b.line_start
        \/ a.line_start = b.line_start /\ a.byte_start < b.byte_start

\* compare_ranked; block identifiers are compared last, in the order of
\* their digests, which no model can know: blocks equal up to there are the
\* same block.
RankedBefore(a, b) ==
  \/ a.score > b.score
  \/ /\ a.score = b.score
     /\ \/ BytesBefore(a.path.bytes, b.path.bytes)
        \/ /\ a.path.bytes = b.path.bytes
           /\ \/ a.line_start < b.line_start
              \/ a.line_start = b.line_start /\ a.byte_start < b.byte_start
=============================================================================
