--------------------------- MODULE MCEvidenceLoop ---------------------------
(***************************************************************************)
(* Two files of the largest size, one of which has two blocks; the read    *)
(* allowance of the verification is exactly what two attempts can need.    *)
(***************************************************************************)
EXTENDS EvidenceLoop

x == 120  y == 121  LF == 10
a == <<97>>  b == <<98>>

Twice == <<x, LF, y, LF, x>>   \* two blocks
Other == <<y, LF, y, LF, y>>   \* none

MCPaths    == {a, b}
OnePath    == {a}
None       == {}
MCContents == {Twice, Other}

Plan(blocks_max, phrases, names) ==
  [schema_version |-> <<0, 1, 0>>, query |-> <<x>>, root |-> <<>>,
   quoted_phrases |-> phrases, identifiers |-> names, terms |-> <<<<x>>>>,
   budget |-> [max_blocks |-> blocks_max, context_lines |-> 0, max_file_bytes |-> 5,
               max_total_bytes |-> 10, max_matches |-> 8]]

\* The literal required is there, or it is not.
MCPlans == {Plan(2, <<>>, <<<<x>>>>), Plan(2, <<<<x, x>>>>, <<>>)}
=============================================================================
