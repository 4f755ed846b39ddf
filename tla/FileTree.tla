------------------------------ MODULE FileTree ------------------------------
(***************************************************************************)
(* What the paths of a file tree hold, and what reading an open file may   *)
(* yield while other programs write to it.  The file system is not part of *)
(* the repository: this is what the code in root.rs, search/filesystem.rs  *)
(* and verify/filesystem.rs sees of it.                                    *)
(***************************************************************************)
EXTENDS Integers, Sequences

Node(kind, raw) == [kind |-> kind, raw |-> raw]

File(raw) == Node("file", raw)
Missing   == Node("missing", <<>>)
Directory == Node("directory", <<>>)
\* There is something, and it does not open without following a link: a
\* symlink, or what permissions forbid.
Denied    == Node("denied", <<>>)

\* A prefix of one version followed by the rest of another.
Splices(old, new) ==
  {SubSeq(old, 1, k) \o SubSeq(new, k + 1, Len(new)) : k \in 0 .. Len(old)}

\* What reading a file may yield that had these versions while it was open.
Readable(versions) ==
  UNION {Splices(v[1], v[2]) : v \in versions \X versions}
=============================================================================
