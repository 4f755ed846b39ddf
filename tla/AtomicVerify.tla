---------------------------- MODULE AtomicVerify ----------------------------
(***************************************************************************)
(* What a verified report promises, without saying how: the verifier looks *)
(* at the whole tree at one instant, and answers "verified" only if every  *)
(* block of the bundle is attested by what it saw.  Verify implements this *)
(* with reads that take time, as long as no file returns to a content it   *)
(* had before.                                                             *)
(***************************************************************************)
EXTENDS Sequences

CONSTANTS
  Paths, Nodes, Bundles,
  Attested(_, _)   \* whether a block is attested by what its path holds

VARIABLES
  tree,            \* what each path holds
  bundle,          \* the bundle under verification
  seen,            \* the tree as last observed
  verdict          \* "none" until the verifier answers

vars == <<tree, bundle, seen, verdict>>

Init ==
  /\ tree \in [Paths -> Nodes]
  /\ bundle \in Bundles
  /\ seen = tree
  /\ verdict = "none"

Write ==
  /\ verdict = "none"
  /\ tree' \in [Paths -> Nodes]
  /\ UNCHANGED <<bundle, seen, verdict>>

Observe ==
  /\ verdict = "none"
  /\ seen' = tree
  /\ UNCHANGED <<tree, bundle, verdict>>

AllAttested ==
  \A k \in DOMAIN bundle.blocks :
    Attested(bundle.blocks[k], seen[bundle.blocks[k].path.bytes])

Answer(status) ==
  /\ verdict = "none"
  /\ status = "verified" => bundle.blocks # <<>> /\ AllAttested
  /\ verdict' = status
  /\ UNCHANGED <<tree, bundle, seen>>

Next == Write \/ Observe \/ \E status \in {"verified", "other"} : Answer(status)

Spec == Init /\ [][Next]_vars
=============================================================================
