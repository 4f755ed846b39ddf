------------------------------ MODULE RootOpen ------------------------------
(***************************************************************************)
(* How a supplied root path becomes an open directory: root.rs for search  *)
(* and diagnosis ("core"), open_root of verify/filesystem.rs ("verify").   *)
(*                                                                         *)
(* Paths are opened one name at a time while other programs rename         *)
(* directories and put symbolic links in their place.  A name is opened    *)
(* either following links, as the operating system does for an ambient     *)
(* path, or not.  An entry of a directory is a directory, a link, named by *)
(* the directory it leads to, or something else: a file, or nothing.       *)
(***************************************************************************)
EXTENDS Integers, Sequences, FiniteSets, SequencesExt

CONSTANTS
  Dirs,        \* the directories there are
  Top,         \* the one at the anchor of absolute paths
  Names,       \* names an entry may have
  Openers,     \* who opens: a subset of {"core", "verify"}
  Roots,       \* root paths as Path::components gives them
  MaxChanges   \* bound on Change

VARIABLES
  entries,   \* what each name in each directory is
  cwd,       \* the current directory of the process
  opener, root,
  pc,        \* start -> [cwd ->] hop <-> ask -> done
  base,      \* the names of the current directory, when they were asked for
  todo,      \* names still to open, each following links or not
  at,        \* the directory opened last
  trail,     \* directories opened since a link could last be followed
  outcome,
  changes,
  held       \* what each name in each directory ever was

environment == <<entries, cwd, changes, held>>
vars == <<environment, opener, root, pc, base, todo, at, trail, outcome>>

CurDir == "."
ParentDir == ".."

Dir(d)  == [kind |-> "dir", to |-> d]
Link(d) == [kind |-> "link", to |-> d]
Other   == [kind |-> "other", to |-> Top]
Entries == {Dir(d) : d \in Dirs \ {Top}} \cup {Link(d) : d \in Dirs} \cup {Other}

\* Where names lead from a directory without and with links followed.
NoDir == "none"
Real(e, from, names) ==
  FoldLeft(LAMBDA d, n : IF d # NoDir /\ e[d][n].kind = "dir" THEN e[d][n].to ELSE NoDir,
           from, names)
Followed(e, from, names) ==
  FoldLeft(LAMBDA d, n : IF d # NoDir /\ e[d][n].kind # "other" THEN e[d][n].to ELSE NoDir,
           from, names)

NameLists == UNION {[1 .. n -> Names] : n \in 0 .. Cardinality(Dirs)}

\* A directory is in one place, and not below itself.
IsTree(e) ==
  /\ \A d1, d2 \in Dirs, n1, n2 \in Names :
       e[d1][n1].kind = "dir" /\ e[d1][n1] = e[d2][n2] => <<d1, n1>> = <<d2, n2>>
  /\ \A d \in Dirs, names \in NameLists : names # <<>> => Real(e, d, names) # d

\* The canonical names of a directory; none when it was moved out of sight.
PlacesOf(e, d) == {names \in NameLists : Real(e, Top, names) = d}

(***************************************************************************)
(* The opener.                                                             *)
(***************************************************************************)

NoOutcome == [kind |-> "none", names |-> <<>>]
Failed(error) == [kind |-> error, names |-> <<>>]

Init ==
  /\ entries \in [Dirs -> [Names -> Entries]] /\ IsTree(entries)
  /\ cwd \in Dirs /\ opener \in Openers /\ root \in Roots
  /\ pc = "start" /\ base = <<>> /\ todo = <<>> /\ at = Top /\ trail = <<Top>>
  /\ outcome = NoOutcome
  /\ changes = 0
  /\ held = [d \in Dirs |-> [n \in Names |-> {entries[d][n]}]]

Control == UNCHANGED <<environment, opener, root>>

Finish(result) ==
  /\ pc' = "done" /\ outcome' = result
  /\ UNCHANGED <<base, todo, at, trail>>
  /\ Control

Hops(names, follow) == [k \in DOMAIN names |-> [name |-> names[k], follow |-> follow]]

\* Mutant: the dot in front is taken for a name.
SuppliedDotted == root.parts

\* Both drop the dots; Path::components leaves one in front only.
Supplied ==
  IF root.parts # <<>> /\ Head(root.parts) = CurDir THEN Tail(root.parts) ELSE root.parts

\* verify opens the path of the parent as it is, and the last name alone
\* without following links.
VerifyHops(names) ==
  IF names = <<>> THEN <<>> ELSE Hops(Front(names), TRUE) \o Hops(<<Last(names)>>, FALSE)

IsEmpty == ~root.absolute /\ root.parts = <<>>

\* verify and an absolute path look for dot-dot before anything is opened; a
\* relative path of the core meets it on its way.
Rejected ==
  \/ IsEmpty
  \/ (opener = "verify" \/ root.absolute) /\ ParentDir \in ToSet(root.parts)

RejectRoot == pc = "start" /\ Rejected /\ Finish(Failed("invalid"))

\* Mutant: nothing but the last name is opened without following links.
StartAtAnchorFollowing ==
  /\ pc = "start" /\ ~Rejected /\ root.absolute
  /\ pc' = "hop" /\ at' = Top /\ trail' = <<Top>>
  /\ todo' = VerifyHops(Supplied)
  /\ UNCHANGED <<base, outcome>>
  /\ Control

StartAtAnchor ==
  /\ pc = "start" /\ ~Rejected /\ root.absolute
  /\ pc' = "hop" /\ at' = Top /\ trail' = <<Top>>
  /\ todo' = IF opener = "verify" THEN VerifyHops(Supplied) ELSE Hops(Supplied, FALSE)
  /\ UNCHANGED <<base, outcome>>
  /\ Control

\* current_dir; verify goes on with its names, the core makes them canonical.
AskCurrentDir ==
  /\ pc = "start" /\ ~Rejected /\ ~root.absolute
  /\ \E names \in PlacesOf(entries, cwd) :
       /\ base' = names
       /\ IF opener = "verify"
          THEN pc' = "hop" /\ todo' = VerifyHops(names \o Supplied)
          ELSE pc' = "cwd" /\ todo' = todo
  /\ UNCHANGED <<at, trail, outcome>>
  /\ Control

\* The real path of the current directory is found in one step: the links that
\* are followed on the way to it are followed in one tree.
Canonicalize ==
  /\ pc = "cwd"
  /\ LET d == Followed(entries, Top, base)
     IN  /\ d # NoDir
         /\ \E names \in PlacesOf(entries, d) :
              /\ base' = names
              /\ todo' = Hops(names, TRUE) \o Hops(Supplied, FALSE)
  /\ pc' = "hop"
  /\ UNCHANGED <<at, trail, outcome>>
  /\ Control

\* The anchor does not open, or the current directory has no path any more.
StartFails == pc \in {"start", "cwd"} /\ ~Rejected /\ Finish(Failed("io"))

Hop == Head(todo)
AtHop == pc = "hop" /\ todo # <<>>

RejectParentDir == AtHop /\ Hop.name = ParentDir /\ Finish(Failed("invalid"))

\* open_component, and one step of the operating system through a path.
EnterDirectory ==
  /\ AtHop /\ Hop.name # ParentDir
  /\ LET entry == entries[at][Hop.name]
     IN  /\ entry.kind = "dir" \/ (Hop.follow /\ entry.kind = "link")
         /\ at' = entry.to
         /\ trail' = IF Hop.follow THEN <<entry.to>> ELSE Append(trail, entry.to)
  /\ todo' = Tail(todo)
  /\ UNCHANGED <<pc, base, outcome>>
  /\ Control

\* The name is no directory, or the open fails for another reason.  The core
\* asks once more what the name is.
OpenFails ==
  /\ AtHop /\ Hop.name # ParentDir
  /\ IF opener = "core" /\ ~Hop.follow
     THEN pc' = "ask" /\ UNCHANGED <<base, todo, at, trail, outcome>> /\ Control
     ELSE Finish(Failed("io"))

\* Mutant: what does not open without following links is taken for a link.
AskWhyAssuming ==
  pc = "ask" /\ Finish(Failed("symlink"))

AskWhy ==
  /\ pc = "ask"
  /\ Finish(Failed(IF entries[at][Hop.name].kind = "link" THEN "symlink" ELSE "io"))

\* Mutant: the path handed to the walker lacks the current directory.
OpenedWithoutBase ==
  /\ pc = "hop" /\ todo = <<>>
  /\ Finish([kind |-> "opened", names |-> Supplied])

\* The names are the absolute path that search and diagnosis walk.
Opened ==
  /\ pc = "hop" /\ todo = <<>>
  /\ Finish([kind |-> "opened", names |-> base \o Supplied])

(***************************************************************************)
(* The environment.                                                        *)
(***************************************************************************)

Change(d, n, entry) ==
  /\ pc \notin {"start", "done"} /\ entries[d][n] # entry
  /\ changes < MaxChanges /\ changes' = changes + 1
  /\ entries' = [entries EXCEPT ![d][n] = entry] /\ IsTree(entries')
  /\ held' = [held EXCEPT ![d][n] = @ \cup {entry}]
  /\ UNCHANGED <<cwd, opener, root, pc, base, todo, at, trail, outcome>>

Done == pc = "done" /\ UNCHANGED vars

Open == \/ RejectRoot \/ StartAtAnchor \/ AskCurrentDir \/ Canonicalize
        \/ StartFails \/ RejectParentDir \/ EnterDirectory \/ OpenFails
        \/ AskWhy \/ Opened

Next == \/ Open
        \/ \E d \in Dirs, n \in Names, entry \in Entries : Change(d, n, entry)
        \/ Done

Spec == Init /\ [][Next]_vars

ASSUME RootsAssumption ==
  /\ Top \in Dirs /\ NoDir \notin Dirs /\ IsFiniteSet(Dirs)
  /\ Openers \subseteq {"core", "verify"}
  /\ \A r \in Roots : /\ r.absolute \in BOOLEAN
                     /\ r.parts \in Seq(Names \cup {CurDir, ParentDir})
                     /\ \A k \in DOMAIN r.parts : k > 1 => r.parts[k] # CurDir
  /\ Names \cap {CurDir, ParentDir} = {} /\ MaxChanges \in Nat

(***************************************************************************)
(* Properties.                                                             *)
(***************************************************************************)

HopType == [name : Names \cup {ParentDir}, follow : BOOLEAN]

\* Every variable has its type; what the process holds open is the end of
\* its trail.
TypeOK ==
  /\ entries \in [Dirs -> [Names -> Entries]] /\ cwd \in Dirs
  /\ opener \in Openers /\ root \in Roots
  /\ pc \in {"start", "cwd", "hop", "ask", "done"}
  /\ base \in Seq(Names) /\ todo \in Seq(HopType) /\ (pc = "ask" => todo # <<>>)
  /\ trail \in Seq(Dirs) /\ trail # <<>> /\ at = Last(trail)
  /\ outcome.kind \in {"none", "opened", "symlink", "invalid", "io"}
  /\ changes \in 0 .. MaxChanges
  /\ held \in [Dirs -> [Names -> SUBSET Entries]]

IsOpened == outcome.kind = "opened"

\* The names led from one directory to the next, each of them a real
\* directory at some time while the root was being opened.
Chain(chain, names) ==
  /\ Len(chain) = Len(names) + 1
  /\ \A k \in DOMAIN names : Dir(chain[k + 1]) \in held[chain[k]][names[k]]

Chains(names) == {c \in [1 .. Len(names) + 1 -> Dirs] : Chain(c, names)}

\* The names that are opened without following links.
Guarded ==
  IF opener = "core" \/ base \o Supplied = <<>> THEN Supplied
  ELSE <<Last(base \o Supplied)>>

\* An opened root was reached by its guarded names through real directories
\* only: a link planted on the way, at whatever moment, is never passed, and
\* for an absolute path of the core the way starts at the anchor
\* (open_absolute, open_relative, open_root).
ReachedWithoutLinks ==
  IsOpened => \E chain \in Chains(Guarded) :
                /\ Last(chain) = at
                /\ opener = "core" /\ root.absolute => chain[1] = Top

\* Whoever is told of a symbolic link, or of an unsafe path, met one: the
\* link lay where real directories led, although the open that failed and
\* the question why are two looks at a changing tree (open_component).
ErrorsAreWitnessed ==
  /\ outcome.kind = "symlink" =>
       /\ opener = "core"
       /\ \E k \in DOMAIN Supplied : \E chain \in Chains(SubSeq(Supplied, 1, k - 1)) :
            \E entry \in held[Last(chain)][Supplied[k]] : entry.kind = "link"
  /\ outcome.kind = "invalid" => IsEmpty \/ ParentDir \in ToSet(root.parts)

Quiet == \A d \in Dirs, n \in Names : held[d][n] = {entries[d][n]}

\* What is to be said of names opened one by one from a directory.
Verdict(e, from, names) ==
  LET reach(k) == Real(e, from, SubSeq(names, 1, k))
      bad == {k \in DOMAIN names :
                /\ \A j \in 1 .. k - 1 : names[j] # ParentDir
                /\ names[k] = ParentDir \/ reach(k) = NoDir}
      k == CHOOSE i \in bad : \A j \in bad : i <= j
  IN  IF bad = {} THEN "opened"
      ELSE IF names[k] = ParentDir THEN "invalid"
      ELSE IF e[reach(k - 1)][names[k]].kind = "link" THEN "symlink"
      ELSE "io"

\* Where the supplied names begin.
From == IF root.absolute THEN Top ELSE cwd

\* In a tree at rest the core opens, and calls by its name, exactly the
\* directory that the path leads to without a link: verify, which follows
\* links up to the last name, and the walker, which gets the names, see the
\* same directory (open, open_root, discover).
QuietRootIsJudgedExactly ==
  pc = "done" /\ Quiet =>
    /\ Rejected <=> outcome.kind = "invalid" /\ todo = <<>>
    /\ opener = "core" /\ ~Rejected =>
         outcome.kind \in {"io", Verdict(entries, From, Supplied)}
    /\ IsOpened => /\ Followed(entries, Top, outcome.names) = at
                   /\ opener = "core" => Real(entries, Top, outcome.names) = at

\* SPEC.md:232-238: every directory component of the target is opened without
\* following symlinks, intermediate ones included, for verify_evidence as for
\* the other tools.  verify opens all but the last name following links.
IntermediateLinksFail ==
  IsOpened => \E chain \in Chains(Supplied) : Last(chain) = at
=============================================================================
