------------------------------ MODULE Sorting ------------------------------
(***************************************************************************)
(* slice::sort_by of the standard library, by a comparison that says which *)
(* of two elements comes first: elements that it does not tell apart stay  *)
(* in the order they had.                                                  *)
(***************************************************************************)
EXTENDS Integers, FiniteSets

CONSTANT Before(_, _)

\* What a stable sort puts no later than s[i], s[i] included.
NoLater(s, i) ==
  {j \in DOMAIN s : \/ Before(s[j], s[i])
                    \/ ~Before(s[i], s[j]) /\ j <= i}

Sorted(s) ==
  LET place == [i \in DOMAIN s |-> Cardinality(NoLater(s, i))]
  IN  [k \in DOMAIN s |-> s[CHOOSE i \in DOMAIN s : place[i] = k]]
=============================================================================
