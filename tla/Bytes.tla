------------------------------- MODULE Bytes -------------------------------
(***************************************************************************)
(* Raw source bytes, their physical lines and canonical blocks of lines:   *)
(* crates/hanimo-core/src/bytes.rs.  Bytes are the numbers 0 .. 255, byte  *)
(* offsets and line indices are zero-based as in the code, sequences are   *)
(* one-based as in TLA+.  The module holds operators only; MCFormats       *)
(* checks them against independent definitions.                            *)
(***************************************************************************)
EXTENDS Integers, Sequences, FiniteSets, SequencesExt

Byte  == 0 .. 255
LF    == 10
CR    == 13
Space == 32
Hash  == 35

\* A set of integers in ascending order.
Ascending(S) ==
  [k \in 1 .. Cardinality(S) |->
     CHOOSE i \in S : Cardinality({j \in S : j <= i}) = k]

\* The bytes at offsets start .. end - 1.
Slice(raw, start, end) == SubSeq(raw, start + 1, end)

(***************************************************************************)
(* Lines.                                                                  *)
(***************************************************************************)

\* Offsets at which split_inclusive ends a chunk: after every LF and at the
\* end of the input.
ChunkEnds(raw) == {i \in DOMAIN raw : raw[i] = LF \/ i = Len(raw)}

\* How many bytes of a chunk are content.  A chunk has at most one LF, its
\* last byte; CR is a terminator only in front of that LF.
TerminatedContentLength(chunk) ==
  LET n == Len(chunk)
      crlf == n > 1 /\ chunk[n] = LF /\ chunk[n - 1] = CR
  IN  IF crlf THEN n - 2
      ELSE IF n > 0 /\ chunk[n] = LF THEN n - 1
      ELSE n

ParseLines(raw) ==
  LET ends  == Ascending(ChunkEnds(raw))
      start(k) == IF k = 1 THEN 0 ELSE ends[k - 1]
      length(k) == TerminatedContentLength(Slice(raw, start(k), ends[k]))
  IN  [k \in DOMAIN ends |->
         [content    |-> Slice(raw, start(k), start(k) + length(k)),
          byte_start |-> start(k),
          byte_end   |-> start(k) + length(k)]]

(***************************************************************************)
(* Ranges of lines.  A range is inclusive at both ends.                    *)
(***************************************************************************)

LineRange(start, end) == [start |-> start, end |-> end]

\* canonical_block answers InvalidRange for every other range.
IsRangeOf(lines, range) ==
  /\ 0 <= range.start
  /\ range.start <= range.end
  /\ range.end < Len(lines)

\* The lines of a range, in order.
Selected(lines, range) == SubSeq(lines, range.start + 1, range.end + 1)

CanonicalContent(selected) ==
  FlattenSeq([k \in DOMAIN selected |->
                (IF k = 1 THEN <<>> ELSE <<LF>>) \o selected[k].content])

CanonicalBlock(lines, range) ==
  [content    |-> CanonicalContent(Selected(lines, range)),
   byte_start |-> lines[range.start + 1].byte_start,
   byte_end   |-> lines[range.end + 1].byte_end]

(***************************************************************************)
(* Literals and headings.                                                  *)
(***************************************************************************)

\* Overlapping occurrences count each; the empty needle never occurs.
OccurrenceCount(haystack, needle) ==
  IF needle = <<>> THEN 0
  ELSE Cardinality({i \in DOMAIN haystack :
                      /\ i + Len(needle) - 1 <= Len(haystack)
                      /\ SubSeq(haystack, i, i + Len(needle) - 1) = needle})

Occurs(haystack, needle) == OccurrenceCount(haystack, needle) > 0

HeadingLevel(line) ==
  Cardinality({i \in DOMAIN line : \A j \in 1 .. i : line[j] = Hash})

IsHeading(line) ==
  LET level == HeadingLevel(line)
  IN  /\ level \in 1 .. 6
      /\ Len(line) = level \/ line[level + 1] = Space
=============================================================================
