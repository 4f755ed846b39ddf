------------------------------ MODULE MCSearch ------------------------------
(***************************************************************************)
(* Small instances of Search.  The sizes and matches of the contents meet  *)
(* every budget exactly, and exceed it by one.                             *)
(***************************************************************************)
EXTENDS Search

x == 120  y == 121
a == <<97>>  b == <<98>>  c == <<99>>  secret == <<115>>
below == <<98, 47, 97>>  deeper == <<98, 47, 97, 47, 97>>   \* under b

One     == <<x, LF>>           \* two bytes, one match
Many    == <<y, x, x>>         \* three bytes, three matches, ranks above One
TooLong == <<x, x, x, x, x>>   \* over max_file_bytes

MCPaths    == {a, b, below, deeper, c, secret}
MCSecret   == {secret}
TwoPaths   == {a, b}
MCContents == {One, Many, TooLong}

Plan ==
  [schema_version |-> SchemaVersion, query |-> <<x>>, root |-> <<>>,
   quoted_phrases |-> <<>>, identifiers |-> <<<<x>>>>, terms |-> <<<<y>>>>,
   budget |-> [max_blocks |-> 1, context_lines |-> 0, max_file_bytes |-> 4,
               max_total_bytes |-> 5, max_matches |-> 3]]

ThePlan == {Plan}

\* At every query limit, below and one above each, of another schema, and with more
\* matches allowed than bytes.
MCPlans ==
  {Plan, [Plan EXCEPT !.budget.max_matches = 6],
   [Plan EXCEPT !.schema_version = <<0, 2, 0>>],
   [Plan EXCEPT !.query = <<x, x, x>>], [Plan EXCEPT !.terms = <<>>],
   [Plan EXCEPT !.terms = <<<<>>, <<>>>>], [Plan EXCEPT !.terms = <<<<x, x>>>>]}

\* Either nobody writes, and the plan is the first; or two files are raced, any
\* plan is searched with, and the walker passes the other paths, which stay
\* empty, in one order and before the two.
Raced == {a, c}
Quiet == writes = 0 /\ plan = Plan
Race  == /\ \A p \in Paths \ Raced : held[p] = {Missing}
         /\ Raced \subseteq unseen \/ unseen \subseteq Raced
         /\ secret \in unseen \/ {b, below, deeper} \cap unseen = {}

Scope == Quiet \/ Race
=============================================================================
