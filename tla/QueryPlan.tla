----------------------------- MODULE QueryPlan -----------------------------
(***************************************************************************)
(* The limits of a query plan, as the core checks them before a search     *)
(* (model.rs).                                                             *)
(***************************************************************************)
EXTENDS Blocks

CONSTANTS MAX_QUERY_BYTES, MAX_QUERY_LITERALS

ASSUME QueryLimitsAssumption == {MAX_QUERY_BYTES, MAX_QUERY_LITERALS} \subseteq Nat

LiteralBytes(p) == FoldLeft(LAMBDA n, literal : n + Len(literal), 0, Literals(p))

ValidLimits(p) ==
  /\ Len(p.query) <= MAX_QUERY_BYTES
  /\ Len(Literals(p)) <= MAX_QUERY_LITERALS
  /\ LiteralBytes(p) <= MAX_QUERY_BYTES
=============================================================================
