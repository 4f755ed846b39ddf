------------------------------ MODULE MCVerify ------------------------------
(***************************************************************************)
(* Small instances of Verify.  The bundles are made by the code's own      *)
(* search and assembly (Blocks, Evidence) from two small files, and then   *)
(* edited, with and without sealing them again.                            *)
(***************************************************************************)
EXTENDS Verify, Blocks

x == 120  y == 121  z == 122  a == <<97>>  b == <<98>>

Plain   == <<x, LF>>                 \* one matching line
Mixed   == <<z, CR, LF, x>>          \* the match is on the second line
Twice   == <<x, LF, y, LF, x>>       \* two separate matching lines
TooLong == <<65, 65, 65, 65, 65, 65>>

MCPaths    == {a, b}
MCContents == {Plain, Mixed, Twice, TooLong}
TwoVersions == {Plain, Twice}
Cited       == {Plain, Mixed}

Plan ==
  [query |-> <<x>>, root |-> <<>>, quoted_phrases |-> <<>>,
   identifiers |-> <<<<x>>>>, terms |-> <<>>,
   budget |-> [max_blocks |-> 2, context_lines |-> 0, max_file_bytes |-> 5,
               max_total_bytes |-> 10, max_matches |-> 4]]

Bundle(found, skipped) == assemble_bundle(Plan, found, skipped)

TwoFiles == Bundle(blocks_for_file(Plan, a, Plain)
                     \o blocks_for_file(Plan, b, Mixed), <<>>)
OneFile  == Bundle(blocks_for_file(Plan, a, Plain), <<>>)
OneTwice == Bundle(blocks_for_file(Plan, a, Twice), <<>>)
Empty    == Bundle(<<>>, <<>>)

\* The same block with another identifier computed for it.
Renamed(block) ==
  [block EXCEPT !.block_id = block_id(block.path.bytes, block.line_start,
                                      block.line_end, block.content.bytes)]

WithFirst(bundle0, block) == [bundle0 EXCEPT !.blocks[1] = block]

First == OneFile.blocks[1]

\* Edits that leave the digest alone.
EditedOnly ==
  {WithFirst(OneFile, Renamed([First EXCEPT !.content = Encoded(<<y>>)])),
   WithFirst(OneFile, [First EXCEPT !.source_sha256 = source_sha256(Mixed)]),
   [OneFile EXCEPT !.critic.verdict = "rejected"]}

\* Edits sealed again.
Resealed ==
  {Seal(WithFirst(OneFile, edited)) : edited \in
     {Renamed([First EXCEPT !.content = Encoded(<<y>>)]),       \* other words
      Renamed([First EXCEPT !.line_start = 2, !.line_end = 2]), \* other lines
      [First EXCEPT !.byte_end = 2],                            \* other bytes
      [First EXCEPT !.source_sha256 = source_sha256(Mixed)],    \* other source
      [First EXCEPT !.content.bytes = <<y>>],                   \* other block
      [First EXCEPT !.score = 1],
      Renamed([First EXCEPT !.path = Encoded(<<Dot, Dot, Slash, 97>>)]),
      [First EXCEPT !.path.encoding = "malformed"],
      [First EXCEPT !.path.encoding = "base64"]}}               \* no edit at all
  \cup {Seal([OneFile EXCEPT !.critic.verdict = "rejected"]),
        Seal([OneFile EXCEPT !.schema_version = <<0, 2, 0>>]),
        [OneFile EXCEPT !.budget.max_file_bytes = 7],
        Seal([OneFile EXCEPT !.skipped = <<[path |-> Encoded(b),
                                            reason |-> "secret"]>>])}

\* The same block cited again and again; four take all of the allowance.
Repeated(n) == Bundle([k \in 1 .. n |-> OneTwice.blocks[1]], <<>>)

MCBundles     == {TwoFiles, OneFile, OneTwice, Empty, Repeated(4), Repeated(5)}
                   \cup EditedOnly \cup Resealed
TwoSources    == {TwoFiles}
OneSource     == {OneFile}
OnePath       == {a}

\* A second write is for the bundles of two blocks, and files that fit.
Scope ==
  writes > 1 => /\ Len(bundle.blocks) = 2
                /\ \A p \in Paths : File(TooLong) \notin held[p]

\* Writes without end.
NoBound == -1
=============================================================================
