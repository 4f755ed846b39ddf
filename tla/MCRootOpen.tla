----------------------------- MODULE MCRootOpen -----------------------------
(***************************************************************************)
(* Small instances of RootOpen: the anchor and a few more directories, one *)
(* name in each, and paths of up to two names with dots between them.      *)
(* Directories other than the anchor are alike.                            *)
(***************************************************************************)
EXTENDS RootOpen

CONSTANTS top, home, work, away

FourDirs  == {top, home, work, away}
MCNames   == {"a"}
Both      == {"core", "verify"}
Verifier  == {"verify"}
Alike     == Permutations({home, work, away})

Absolute(parts) == [absolute |-> TRUE, parts |-> parts]
Relative(parts) == [absolute |-> FALSE, parts |-> parts]

AllRoots ==
  {Absolute(<<>>), Absolute(<<"a", "a">>), Absolute(<<"a", "..">>),
   Relative(<<>>), Relative(<<".">>), Relative(<<".", "a", "a">>),
   Relative(<<"a">>), Relative(<<"a", "..">>)}
TwoNames == {Absolute(<<"a", "a">>)}
RacedRoots == {Absolute(<<"a", "a">>), Relative(<<"a">>)}

\* A directory nobody can get to.
Unused(d) ==
  /\ cwd # d /\ \A n \in Names : held[d][n] = {Other}
  /\ \A from \in Dirs, n \in Names : \A entry \in held[from][n] : entry.to # d

\* Changes are for raced roots and trees of three directories.
Scope ==
  changes > 0 => root \in RacedRoots /\ \E d \in Dirs \ {Top} : Unused(d)
=============================================================================
