------------------------------ MODULE Evidence ------------------------------
(***************************************************************************)
(* Evidence bundles: how a search result becomes a bundle with a critic    *)
(* report (evidence.rs), and when a critic report agrees with the rest of  *)
(* its bundle (verify/policy.rs).                                          *)
(***************************************************************************)
EXTENDS Digests

SchemaVersion == <<0, 1, 0>>

\* The u16 sum of the score components (model.rs); it has no value when it
\* overflows.
MaxU16 == 65535
ScoreSum(s) ==
  s.exact_phrase + s.identifier + s.all_terms + s.heading + s.path + s.proximity
HasTotal(s) == ScoreSum(s) <= MaxU16

\* raw byte strings in the order of Vec<u8>: bytewise, a prefix first.
BytesBefore(a, b) ==
  \/ IsStrictPrefix(a, b)
  \/ \E i \in DOMAIN a \cap DOMAIN b :
       /\ \A j \in 1 .. i - 1 : a[j] = b[j]
       /\ a[i] < b[i]

SkipBefore(s, t) ==
  \/ BytesBefore(s.path.bytes, t.path.bytes)
  \/ /\ s.path.bytes = t.path.bytes
     /\ ReasonOrder(s.reason) < ReasonOrder(t.reason)

GapOrder == INSTANCE Sorting WITH Before <- SkipBefore

Covered(blocks, literal) ==
  \E b \in ToSet(blocks) : Occurs(b.content.bytes, literal)

\* classify_required keeps the order of the required literals.
CoveredOf(blocks, required) ==
  SelectSeq(required, LAMBDA literal : Covered(blocks, literal))
UncoveredOf(blocks, required) ==
  SelectSeq(required, LAMBDA literal : ~Covered(blocks, literal))

Verdict(blocks, skipped, uncovered) ==
  IF \/ blocks = <<>>
     \/ uncovered # <<>>
     \/ \E s \in ToSet(skipped) : s.reason = "budget"
  THEN "rejected" ELSE "accepted"

Unsealed(plan, blocks, skipped) ==
  LET uncovered == UncoveredOf(blocks, plan.quoted_phrases)
                     \o UncoveredOf(blocks, plan.identifiers)
  IN  [schema_version |-> SchemaVersion,
       bundle_sha256  |-> <<>>,
       query          |-> plan.query,
       root           |-> plan.root,
       budget         |-> plan.budget,
       blocks         |-> blocks,
       skipped        |-> GapOrder!Sorted(skipped),
       critic         |->
         [verdict                |-> Verdict(blocks, skipped, uncovered),
          covered_quoted_phrases |-> CoveredOf(blocks, plan.quoted_phrases),
          covered_identifiers    |-> CoveredOf(blocks, plan.identifiers),
          uncovered              |-> uncovered]]

Seal(bundle) == [bundle EXCEPT !.bundle_sha256 = bundle_sha256(bundle)]

\* Defined for a plan of the supported schema; another one is an error.
assemble_bundle(plan, blocks, skipped) == Seal(Unsealed(plan, blocks, skipped))

critic_is_consistent(bundle) ==
  bundle.critic.verdict =
    Verdict(bundle.blocks, bundle.skipped, bundle.critic.uncovered)
=============================================================================
