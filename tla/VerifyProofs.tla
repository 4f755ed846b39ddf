---------------------------- MODULE VerifyProofs ----------------------------
(***************************************************************************)
(* Theorems about Verify, for any tree, contents, bundles and limits.      *)
(***************************************************************************)
EXTENDS Verify, SequenceTheorems, TLAPS

(***************************************************************************)
(* The operators.                                                          *)
(***************************************************************************)

\* A node of the tree that is a file is File of one of the contents.
LEMMA FileNodes ==
  ASSUME NEW node \in Nodes, node.kind = "file"
  PROVE  node.raw \in Contents /\ node = File(node.raw)
BY DEF Nodes, File, Missing, Denied, Node

\* A splice of two byte strings is a byte string.
LEMMA SpliceType ==
  ASSUME NEW old \in Seq(Nat), NEW new \in Seq(Nat), NEW k \in 0 .. Len(old)
  PROVE  SubSeq(old, 1, k) \o SubSeq(new, k + 1, Len(new)) \in Seq(Nat)
<1>1. SubSeq(old, 1, k) \in Seq(Nat)
  <2>1. \A i \in 1 .. k : old[i] \in Nat
    BY ElementOfSeq, LenProperties
  <2> QED BY <2>1, LenProperties, SubSeqProperties
<1>2. SubSeq(new, k + 1, Len(new)) \in Seq(Nat)
  <2>1. \A i \in k + 1 .. Len(new) : new[i] \in Nat
    BY ElementOfSeq, LenProperties
  <2> QED BY <2>1, LenProperties, SubSeqProperties
<1> QED BY <1>1, <1>2, ConcatProperties

\* Whatever an open file yields is a byte string.
LEMMA ReadableType ==
  ASSUME NEW W \in SUBSET Contents, NEW raw \in Readable(W)
  PROVE  raw \in Seq(Nat)
<1>1. PICK v \in W \X W : raw \in Splices(v[1], v[2])
  BY DEF Readable
<1>2. PICK k \in 0 .. Len(v[1]) :
        raw = SubSeq(v[1], 1, k) \o SubSeq(v[2], k + 1, Len(v[2]))
  BY <1>1 DEF Splices
<1>3. v[1] \in Seq(Nat) /\ v[2] \in Seq(Nat)
  BY ContentsAssumption
<1> QED BY <1>2, <1>3, SpliceType

\* A live status is a status; a verified block cites the bytes it was judged by.
LEMMA LiveStatuses ==
  ASSUME NEW block, NEW raw
  PROVE  /\ LiveStatus(block, raw) \in Statuses
         /\ Attests(block, raw) => source_sha256(raw) = block.source_sha256
BY DEF LiveStatus, Attests, Statuses

\* The sources of an admissible bundle are paths of the tree.
LEMMA AdmissibleLocators ==
  ASSUME NEW b \in Bundles, Admissible(b), NEW k \in DOMAIN b.blocks
  PROVE  b.blocks[k].path.bytes \in Paths
<1>1. b.blocks[k] \in ToSet(b.blocks)
  BY DEF ToSet
<1>2. Decodable(b.blocks[k].path) /\ Decodable(b.blocks[k].content)
  BY <1>1 DEF Admissible, Authentic, IsSealed, Attestable
<1>3. SafePath(b.blocks[k].path.bytes)
  BY <1>1, <1>2 DEF Admissible, HasUnsafeLocator
<1> QED BY <1>3, LocatorsAssumption

\* The results the verifier stops with are outcomes.
LEMMA OutcomeTypes ==
  /\ \A error \in Errors : Failed(error) \in Outcomes
  /\ \A statuses \in Seq(Statuses), n \in 1 .. 2 : Report(statuses, n) \in Outcomes
  /\ \A b \in Bundles : ForgedReport(b) \in Outcomes
<1>1. \A error \in Errors : Failed(error) \in Outcomes
  BY EmptySeq DEF Failed, Outcomes
<1>2. \A statuses \in Seq(Statuses), n \in 1 .. 2 : Report(statuses, n) \in Outcomes
  <2> TAKE statuses \in Seq(Statuses), n \in 1 .. 2
  <2>1. Aggregate(statuses) \in Statuses
    BY DEF Aggregate, Statuses
  <2> QED BY <2>1 DEF Report, Outcomes
<1>3. \A b \in Bundles : ForgedReport(b) \in Outcomes
  <2> TAKE b \in Bundles
  <2>1. b.blocks \in Seq(BlockType)
    BY BundlesAssumption
  <2>2. [k \in DOMAIN b.blocks |-> "forged"] \in Seq(Statuses)
    BY <2>1 DEF Statuses
  <2> QED BY <2>2 DEF ForgedReport, Outcomes, Statuses
<1> QED BY <1>1, <1>2, <1>3

\* The preflight statuses, and the downgraded ones, are sequences of statuses.
LEMMA PreflightType ==
  ASSUME NEW b \in Bundles
  PROVE  Preflight(b) \in Seq(Statuses)
<1>1. b.blocks \in Seq(BlockType)
  BY BundlesAssumption
<1>2. \A k \in DOMAIN b.blocks : PreflightStatus(b.blocks[k]) \in Statuses
  BY DEF PreflightStatus, Statuses
<1> QED BY <1>1, <1>2 DEF Preflight

\* Downgraded statuses are statuses, and never make a verified report.
LEMMA DowngradedType ==
  ASSUME NEW statuses \in Seq(Statuses)
  PROVE  /\ Downgraded(statuses) \in Seq(Statuses)
         /\ Aggregate(Downgraded(statuses)) # "verified"
<1>1. \A k \in DOMAIN statuses : statuses[k] \in Statuses
  OBVIOUS
<1>2. Downgraded(statuses) \in Seq(Statuses)
  BY <1>1 DEF Downgraded, Statuses
<1>3. CASE statuses = <<>>
  <2>1. Downgraded(statuses) = <<>>
    BY <1>3 DEF Downgraded
  <2> QED BY <1>2, <2>1 DEF Aggregate
<1>4. CASE statuses # <<>>
  <2>1. 1 \in DOMAIN statuses
    BY <1>4, EmptySeq, LenProperties
  <2>2. Downgraded(statuses)[1] \in {"stale", "forged", "source_drift"}
    BY <1>1, <2>1 DEF Downgraded, Statuses
  <2>3. 1 \in DOMAIN Downgraded(statuses)
    BY <2>1 DEF Downgraded
  <2>4. \E status \in {"stale", "forged", "source_drift"} :
          Has(Downgraded(statuses), status)
    BY <2>2, <2>3 DEF Has
  <2> QED BY <1>2, <2>4 DEF Aggregate
<1> QED BY <1>3, <1>4

\* Only verified blocks, and at least one, make a verified report.
LEMMA VerifiedBlocks ==
  ASSUME NEW statuses \in Seq(Statuses), Aggregate(statuses) = "verified"
  PROVE  /\ statuses # <<>>
         /\ \A k \in DOMAIN statuses : statuses[k] = "verified"
BY DEF Aggregate, Has, Statuses

(***************************************************************************)
(* Type correctness.  The invariant adds to TypeOK what the types rest on: *)
(* only an admissible bundle is read for, so every locator is a path.      *)
(***************************************************************************)

Live == pc \in {"open", "read"}

TypeInv ==
  /\ TypeOK
  /\ bundle \in Bundles
  /\ Live => Admissible(bundle)
  /\ pc # "done" => outcome = NoOutcome

\* The source a pass reads next is a path of the tree.
LEMMA TargetType ==
  ASSUME TypeInv, Live, next <= Sources
  PROVE  /\ Target \in Paths
         /\ pass = 1 => /\ next \in DOMAIN bundle.blocks
                        /\ Target = Locator(next)
         /\ pass = 2 => next \in DOMAIN snapshots
<1>1. CASE pass = 1
  <2>1. next \in DOMAIN bundle.blocks
    BY <1>1 DEF TypeInv, TypeOK, Sources
  <2>2. Locator(next) \in Paths
    BY <2>1, AdmissibleLocators DEF TypeInv, Locator
  <2>3. Target = Locator(next)
    BY <1>1 DEF Target, Locator
  <2> QED BY <1>1, <2>1, <2>2, <2>3
<1>2. CASE pass = 2
  <2>1. next \in DOMAIN snapshots
    BY <1>2 DEF TypeInv, TypeOK, Sources
  <2>2. snapshots[next] \in [path : Paths, digest : Seq(Nat)]
    <3> DEFINE Snapshots == [path : Paths, digest : Seq(Nat)]
    <3>1. snapshots \in Seq(Snapshots)
      BY DEF TypeInv, TypeOK
    <3> HIDE DEF Snapshots
    <3>2. snapshots[next] \in Snapshots
      BY <2>1, <3>1, ElementOfSeq, LenProperties
    <3> QED BY <3>2 DEF Snapshots
  <2>3. Target = snapshots[next].path
    BY <1>2 DEF Target
  <2> QED BY <1>2, <2>1, <2>2, <2>3
<1> QED BY <1>1, <1>2 DEF TypeInv, TypeOK

\* The types hold initially.
LEMMA TypeInit == Init => TypeInv
<1> SUFFICES ASSUME Init PROVE TypeInv
  OBVIOUS
<1>1. bundle.blocks \in Seq(BlockType)
  BY BundlesAssumption DEF Init
<1>2. tree \in [Paths -> Nodes] /\ held \in [Paths -> SUBSET Nodes]
  BY DEF Init
<1>3. passHeld \in [1 .. 2 -> [Paths -> SUBSET Nodes]]
  BY DEF Init
<1>4. NoOutcome \in Outcomes
  BY EmptySeq DEF NoOutcome, Outcomes
<1>5. next \in 1 .. Sources + 1
  BY <1>1, LenProperties DEF Init, Sources
<1>6. blocks \in Seq(Statuses) /\ snapshots \in Seq([path : Paths, digest : Seq(Nat)])
  BY EmptySeq DEF Init
<1>7. remaining \in 0 .. MAX_VERIFY_SOURCE_BYTES
  BY LimitAssumption DEF Init
<1>8. pc = "root" /\ outcome = NoOutcome /\ raced \in BOOLEAN
  BY DEF Init
<1>9. bundle \in Bundles /\ attempt = 1 /\ pass = 1 /\ window = {} /\ writes = 0 /\ turn = tree
  BY DEF Init
<1> QED BY <1>1, <1>2, <1>3, <1>4, <1>5, <1>6, <1>7, <1>8, <1>9
        DEF TypeInv, TypeOK, Live

\* Stopping with an outcome keeps the types.
LEMMA StopType ==
  ASSUME TypeInv, NEW result \in Outcomes, Stop(result)
  PROVE  TypeInv'
BY DEF TypeInv, TypeOK, Live, Stop, Control, environment, history, Sources

\* Every step keeps the types.
LEMMA TypeStep == TypeInv /\ [Next]_vars => TypeInv'
<1> SUFFICES ASSUME TypeInv, [Next]_vars PROVE TypeInv'
  OBVIOUS
<1> USE DEF Errors
<1>1. CASE RootOpenFails
  BY <1>1, StopType, OutcomeTypes DEF RootOpenFails
<1>2. CASE OpenRoot
  BY <1>2 DEF OpenRoot, Control, environment, history, TypeInv, TypeOK, Live, Sources
<1>3. CASE RejectSchema
  BY <1>3, StopType, OutcomeTypes DEF RejectSchema
<1>4. CASE RejectLimits
  BY <1>4, StopType, OutcomeTypes DEF RejectLimits
<1>5. CASE RejectPayload
  BY <1>5, StopType, OutcomeTypes DEF RejectPayload, TypeInv
<1>6. CASE RejectLocator
  BY <1>6, StopType, OutcomeTypes DEF RejectLocator
<1>7. CASE RejectBlocks
  BY <1>7, StopType, OutcomeTypes, PreflightType DEF RejectBlocks, TypeInv
<1>8. CASE StartLive
  <2>1. passHeld' \in [1 .. 2 -> [Paths -> SUBSET Nodes]]
    BY <1>8 DEF StartLive, NewPass, TypeInv, TypeOK
  <2> QED BY <1>8, <2>1 DEF StartLive, Control, environment, TypeInv, TypeOK, Live, Sources
<1>9. CASE MissSource
  <2>1. blocks' \in Seq(Statuses) /\ raced' \in BOOLEAN
    BY <1>9 DEF MissSource, TypeInv, TypeOK, Statuses
  <2>2. next' \in 1 .. Sources' + 1
    BY <1>9 DEF MissSource, Control, TypeInv, TypeOK, Sources
  <2> QED BY <1>9, <2>1, <2>2
          DEF MissSource, Control, environment, history, TypeInv, TypeOK, Live
<1>10. CASE RefuseSource
  BY <1>10, StopType, OutcomeTypes DEF RefuseSource
<1>11. CASE OpenSource
  <2>1. tree[Target] \in Nodes
    BY <1>11, TargetType DEF OpenSource, TypeInv, TypeOK, Live
  <2>2. window' \subseteq Contents
    BY <1>11, <2>1, FileNodes DEF OpenSource
  <2> QED BY <1>11, <2>2
          DEF OpenSource, Control, environment, history, TypeInv, TypeOK, Live, Sources
<1>12. CASE ReadSource
  <2>1. Live /\ next <= Sources
    BY <1>12 DEF ReadSource, TypeInv, TypeOK, Live
  <2>2. PICK raw \in Readable(window) :
          /\ Fits(raw) /\ Len(raw) <= remaining
          /\ remaining' = remaining - Len(raw)
          /\ IF pass = 1 THEN Collect(raw) ELSE Compare(raw)
    BY <1>12 DEF ReadSource
  <2>3. raw \in Seq(Nat)
    BY ReadableType DEF TypeInv, TypeOK
  <2>4. remaining' \in 0 .. MAX_VERIFY_SOURCE_BYTES
    BY <2>2, <2>3, LenProperties, LimitAssumption DEF TypeInv, TypeOK
  <2>5. /\ blocks' \in Seq(Statuses) /\ raced' \in BOOLEAN
        /\ snapshots' \in Seq([path : Paths, digest : Seq(Nat)])
        /\ next' \in 1 .. Sources' + 1
    <3>1. CASE pass = 1
      <4>1. [path |-> Target, digest |-> source_sha256(raw)]
              \in [path : Paths, digest : Seq(Nat)]
        BY <2>1, <2>3, TargetType DEF source_sha256, SHA256
      <4>2. snapshots' \in Seq([path : Paths, digest : Seq(Nat)])
        <5> DEFINE Snapshots == [path : Paths, digest : Seq(Nat)]
                   snapshot  == [path |-> Target, digest |-> source_sha256(raw)]
        <5>1. snapshots \in Seq(Snapshots)
          BY DEF TypeInv, TypeOK
        <5>2. snapshots' = Append(snapshots, snapshot)
          BY <2>2, <3>1 DEF Collect
        <5>3. snapshot \in Snapshots
          BY <4>1
        <5> HIDE DEF Snapshots, snapshot
        <5>4. snapshots' \in Seq(Snapshots)
          BY <5>1, <5>2, <5>3
        <5> QED BY <5>4 DEF Snapshots
      <4>3. blocks' \in Seq(Statuses) /\ raced' \in BOOLEAN
        <5>1. blocks \in Seq(Statuses) /\ raced \in BOOLEAN
          BY DEF TypeInv, TypeOK
        <5>2. LiveStatus(bundle.blocks[next], raw) \in Statuses
          BY LiveStatuses
        <5>3. /\ blocks' = Append(blocks, LiveStatus(bundle.blocks[next], raw))
              /\ raced' = raced
          BY <2>2, <3>1 DEF Collect
        <5> QED BY <5>1, <5>2, <5>3
      <4>4. next' \in 1 .. Sources' + 1
        BY <1>12, <2>1, <3>1 DEF ReadSource, Control, TypeInv, TypeOK, Sources
      <4> QED BY <4>2, <4>3, <4>4
    <3>2. CASE pass = 2
      <4>1. blocks' \in Seq(Statuses) /\ raced' \in BOOLEAN
        BY <2>2, <3>2 DEF Compare, TypeInv, TypeOK
      <4>2. snapshots' = snapshots
        BY <2>2, <3>2 DEF Compare
      <4>3. next' \in 1 .. Sources' + 1
        BY <1>12, <2>1, <3>2, <4>2 DEF ReadSource, Control, TypeInv, TypeOK, Sources
      <4> QED BY <4>1, <4>2, <4>3 DEF TypeInv, TypeOK
    <3> QED BY <3>1, <3>2 DEF TypeInv, TypeOK
  <2> QED BY <1>12, <2>1, <2>4, <2>5
          DEF ReadSource, Control, environment, history, TypeInv, TypeOK, Live
<1>13. CASE ReadTooLarge
  BY <1>13, StopType, OutcomeTypes DEF ReadTooLarge
<1>14. CASE ReadTooMuch
  BY <1>14, StopType, OutcomeTypes DEF ReadTooMuch
<1>15. CASE ReadFault
  BY <1>15, StopType, OutcomeTypes DEF ReadFault
<1>16. CASE BeginRecheck
  <2>1. passHeld' \in [1 .. 2 -> [Paths -> SUBSET Nodes]]
    BY <1>16 DEF BeginRecheck, TypeInv, TypeOK
  <2>2. next' \in 1 .. Sources' + 1
    BY <1>16, LenProperties DEF BeginRecheck, Sources, TypeInv, TypeOK
  <2> QED BY <1>16, <2>1, <2>2
          DEF BeginRecheck, Control, environment, TypeInv, TypeOK, Live
<1>17. CASE Conclude
  BY <1>17, StopType, OutcomeTypes DEF Conclude, TypeInv, TypeOK
<1>18. CASE Retry
  <2>1. passHeld' \in [1 .. 2 -> [Paths -> SUBSET Nodes]]
    BY <1>18 DEF Retry, NewPass, TypeInv, TypeOK
  <2>2. next' \in 1 .. Sources' + 1
    BY <1>18, LenProperties DEF Retry, Control, Sources, TypeInv, TypeOK
  <2>3. /\ blocks' \in Seq(Statuses)
        /\ snapshots' \in Seq([path : Paths, digest : Seq(Nat)])
        /\ raced' \in BOOLEAN
    BY <1>18, EmptySeq DEF Retry
  <2> QED BY <1>18, <2>1, <2>2, <2>3
          DEF Retry, AttemptEnds, Control, environment, TypeInv, TypeOK, Live
<1>19. CASE GiveUp
  BY <1>19, StopType, OutcomeTypes, DowngradedType DEF GiveUp, TypeInv, TypeOK
<1>20. ASSUME NEW p \in Paths, NEW node \in Nodes, Write(p, node)
       PROVE  TypeInv'
  <2>1. window' \subseteq Contents
    <3>1. window \subseteq Contents
      BY DEF TypeInv, TypeOK
    <3>2. \/ window' = window
          \/ /\ node.kind = "file"
             /\ window' = window \cup {node.raw}
      BY <1>20 DEF Write
    <3> QED BY <3>1, <3>2, FileNodes
  <2>2. tree' \in [Paths -> Nodes] /\ held' \in [Paths -> SUBSET Nodes]
    BY <1>20 DEF Write, TypeInv, TypeOK
  <2>3. passHeld' \in [1 .. 2 -> [Paths -> SUBSET Nodes]]
    BY <1>20 DEF Write, TypeInv, TypeOK
  <2>4. writes' \in Nat
    BY <1>20 DEF Write, TypeInv, TypeOK
  <2> QED BY <1>20, <2>1, <2>2, <2>3, <2>4
          DEF Write, verifier, TypeInv, TypeOK, Live, Sources
<1>21. CASE UNCHANGED vars
  BY <1>21 DEF vars, verifier, environment, history, TypeInv, TypeOK, Live, Sources
<1> QED BY <1>1, <1>2, <1>3, <1>4, <1>5, <1>6, <1>7, <1>8, <1>9, <1>10, <1>11,
           <1>12, <1>13, <1>14, <1>15, <1>16, <1>17, <1>18, <1>19, <1>20, <1>21
        DEF Next, Verifier, Admit, Read, Finish, Done

\* Whatever the tree does, every variable keeps its type.
THEOREM TypeCorrect == Spec => []TypeOK
<1>1. TypeInv => TypeOK
  BY DEF TypeInv
<1> QED BY TypeInit, TypeStep, <1>1, PTL DEF Spec

(***************************************************************************)
(* A verified report is attested.  VerifiedIsAttested says nothing before  *)
(* the report exists; what makes it inductive is what the two passes have  *)
(* established so far about the blocks and snapshots they went through.    *)
(***************************************************************************)

\* Nothing is collected before the first attempt.
NotStarted == pc \in {"root", "admit"} => pass = 1 /\ next = 1 /\ blocks = <<>>

\* What the tree holds counts as held in the current pass.
CurrentHeld == Live => \A p \in Paths : tree[p] \in passHeld[pass][p]

\* So does what an open file may yield.
WindowHeld == pc = "read" => \A raw \in window : File(raw) \in passHeld[pass][Target]

\* A block that was verified left a snapshot, and its source was held.
Kept(k) ==
  /\ \E s \in DOMAIN snapshots :
       snapshots[s] = [path   |-> Locator(k),
                       digest |-> bundle.blocks[k].source_sha256]
  /\ \E raw \in Contents : /\ File(raw) \in passHeld[1][Locator(k)]
                          /\ Attests(bundle.blocks[k], raw)

Collected ==
  Live => /\ Len(blocks) = IF pass = 1 THEN next - 1 ELSE Len(bundle.blocks)
          /\ \A k \in DOMAIN blocks : blocks[k] = "verified" => Kept(k)

\* A snapshot of a cited source that was read again without a race is held
\* in the second pass.
Again(s) ==
  \A k \in DOMAIN bundle.blocks :
    snapshots[s] = [path   |-> Locator(k),
                    digest |-> bundle.blocks[k].source_sha256]
    => \E raw \in Contents : /\ File(raw) \in passHeld[2][Locator(k)]
                            /\ source_sha256(raw) = bundle.blocks[k].source_sha256

Rechecked == Live /\ pass = 2 /\ ~raced => \A s \in 1 .. next - 1 : Again(s)

AttestInv ==
  /\ TypeInv
  /\ NotStarted /\ CurrentHeld /\ WindowHeld /\ Collected /\ Rechecked
  /\ VerifiedIsAttested

\* Initially nothing is claimed.
LEMMA AttestInit == Init => AttestInv
<1> SUFFICES ASSUME Init PROVE AttestInv
  OBVIOUS
<1>1. TypeInv
  BY TypeInit
<1>2. pc = "root" /\ pass = 1 /\ next = 1 /\ blocks = <<>> /\ outcome = NoOutcome
  BY DEF Init
<1> QED BY <1>1, <1>2 DEF AttestInv, NotStarted, CurrentHeld, WindowHeld, Collected,
             Rechecked, Live, VerifiedIsAttested, Reported, NoOutcome

\* What a verified outcome must come with.
AllHeld ==
  /\ bundle.blocks # <<>>
  /\ \A k \in DOMAIN bundle.blocks : \E raw \in Contents :
       /\ File(raw) \in passHeld[1][Locator(k)] \cap passHeld[2][Locator(k)]
       /\ Attests(bundle.blocks[k], raw)

\* Stopping keeps the invariant if a verified result is attested.
LEMMA StopAttests ==
  ASSUME AttestInv, TypeInv', NEW result, Stop(result),
         result.kind = "report" /\ result.status = "verified" => AllHeld
  PROVE  AttestInv'
<1>1. pc' = "done" /\ outcome' = result /\ UNCHANGED <<bundle, passHeld>>
  BY DEF Stop, Control, history
<1>2. VerifiedIsAttested'
  BY <1>1 DEF VerifiedIsAttested, Reported, AllHeld, Locator
<1> QED BY <1>1, <1>2 DEF AttestInv, NotStarted, CurrentHeld, WindowHeld, Collected,
             Rechecked, Live

\* As long as there is no outcome nothing is claimed.
LEMMA NothingClaimed ==
  ASSUME TypeInv', pc' # "done"
  PROVE  VerifiedIsAttested'
BY DEF TypeInv, VerifiedIsAttested, Reported, NoOutcome

\* What was kept stays kept while more is held and more is collected.
LEMMA KeptStays ==
  ASSUME NEW k, Kept(k), bundle' = bundle,
         passHeld[1][Locator(k)] \subseteq passHeld'[1][Locator(k)],
         \A s \in DOMAIN snapshots : s \in DOMAIN snapshots' /\ snapshots'[s] = snapshots[s]
  PROVE  Kept(k)'
BY DEF Kept, Locator

\* A completed attempt without a race has held every verified block twice.
LEMMA ConcludeAttests ==
  ASSUME AttestInv, AttemptEnds, ~raced, Aggregate(blocks) = "verified"
  PROVE  AllHeld
<1>1. /\ Live /\ pass = 2 /\ next > Len(snapshots)
      /\ blocks \in Seq(Statuses) /\ Len(blocks) = Len(bundle.blocks)
      /\ bundle.blocks \in Seq(BlockType)
      /\ DOMAIN snapshots = 1 .. Len(snapshots) /\ Len(snapshots) \in Nat
  BY LenProperties
  DEF AttemptEnds, Sources, AttestInv, Collected, TypeInv, TypeOK, Live
<1>2. blocks # <<>> /\ \A k \in DOMAIN blocks : blocks[k] = "verified"
  BY <1>1, VerifiedBlocks
<1>3. DOMAIN blocks = DOMAIN bundle.blocks /\ bundle.blocks # <<>>
  BY <1>1, <1>2, EmptySeq, LenProperties
<1>4. ASSUME NEW k \in DOMAIN bundle.blocks
      PROVE  \E raw \in Contents :
               /\ File(raw) \in passHeld[1][Locator(k)] \cap passHeld[2][Locator(k)]
               /\ Attests(bundle.blocks[k], raw)
  <2>1. Kept(k)
    BY <1>1, <1>2, <1>3, <1>4 DEF AttestInv, Collected
  <2>2. PICK s \in DOMAIN snapshots :
          snapshots[s] = [path   |-> Locator(k),
                          digest |-> bundle.blocks[k].source_sha256]
    BY <2>1 DEF Kept
  <2>3. PICK raw \in Contents : /\ File(raw) \in passHeld[1][Locator(k)]
                                /\ Attests(bundle.blocks[k], raw)
    BY <2>1 DEF Kept
  <2>4. s \in 1 .. next - 1
    BY <1>1, <2>2 DEF AttestInv, TypeInv, TypeOK
  <2>5. Again(s)
    BY <1>1, <2>4 DEF AttestInv, Rechecked
  <2>6. PICK again \in Contents :
          /\ File(again) \in passHeld[2][Locator(k)]
          /\ source_sha256(again) = bundle.blocks[k].source_sha256
    BY <1>4, <2>2, <2>5 DEF Again
  <2>7. again = raw
    BY <2>3, <2>6, LiveStatuses DEF source_sha256, SHA256
  <2> QED BY <2>3, <2>6, <2>7
<1> QED BY <1>3, <1>4 DEF AllHeld

\* What the readers of a pass find was held in the pass, if it is cited.
LEMMA CitedHeld ==
  ASSUME AttestInv, pc = "read", NEW raw \in Readable(window),
         NEW k \in DOMAIN bundle.blocks,
         source_sha256(raw) = bundle.blocks[k].source_sha256
  PROVE  raw \in Contents /\ File(raw) \in passHeld[pass][Target]
<1>1. window \in SUBSET Contents /\ bundle \in Bundles
  BY DEF AttestInv, TypeInv, TypeOK
<1>2. raw \in window
  BY <1>1, SpliceAssumption
<1> QED BY <1>1, <1>2 DEF AttestInv, WindowHeld

\* Reading a source in the first pass.
LEMMA CollectAttests ==
  ASSUME AttestInv, TypeInv', ReadSource, pass = 1
  PROVE  Collected'
<1>1. PICK raw \in Readable(window) : Collect(raw)
  BY DEF ReadSource
<1>2. /\ pc = "read" /\ Live /\ next <= Sources
      /\ blocks \in Seq(Statuses) /\ next \in Nat
      /\ bundle' = bundle /\ passHeld' = passHeld /\ pass' = 1 /\ next' = next + 1
  BY LenProperties
  DEF ReadSource, Control, history, AttestInv, TypeInv, TypeOK, Live, Sources
<1>3. Target = Locator(next) /\ next \in DOMAIN bundle.blocks
  BY <1>2, TargetType DEF AttestInv
<1> DEFINE status   == LiveStatus(bundle.blocks[next], raw)
           snapshot == [path |-> Target, digest |-> source_sha256(raw)]
<1>4. blocks' = Append(blocks, status) /\ snapshots' = Append(snapshots, snapshot)
  BY <1>1 DEF Collect
<1>5. Len(blocks) = next - 1 /\ \A k \in DOMAIN blocks : blocks[k] = "verified" => Kept(k)
  BY <1>2 DEF AttestInv, Collected
<1>6. /\ \A s \in DOMAIN snapshots : s \in DOMAIN snapshots' /\ snapshots'[s] = snapshots[s]
      /\ Len(snapshots) + 1 \in DOMAIN snapshots'
      /\ snapshots'[Len(snapshots) + 1] = snapshot
  <2> DEFINE Snapshots == [path : Paths, digest : Seq(Nat)]
  <2>1. snapshots \in Seq(Snapshots) /\ snapshots' \in Seq(Snapshots)
    BY DEF AttestInv, TypeInv, TypeOK
  <2> HIDE DEF Snapshots, snapshot
  <2> QED BY <1>4, <2>1, LenProperties
<1>7. ASSUME NEW k \in DOMAIN blocks', blocks'[k] = "verified"
      PROVE  Kept(k)'
  <2>1. status \in Statuses
    BY LiveStatuses
  <2> HIDE DEF status
  <2>2. CASE k \in DOMAIN blocks
    <3>1. blocks[k] = "verified"
      BY <1>2, <1>4, <1>7, <2>1, <2>2
    <3> QED BY <1>2, <1>5, <1>6, <2>2, <3>1, KeptStays
  <2>3. CASE k \notin DOMAIN blocks
    <3>1. k = next /\ status = "verified"
      BY <1>2, <1>4, <1>5, <1>7, <2>1, <2>3
    <3>2. Attests(bundle.blocks[next], raw)
      BY <3>1 DEF status, Attests
    <3>3. source_sha256(raw) = bundle.blocks[next].source_sha256
      BY <3>2, LiveStatuses
    <3>4. raw \in Contents /\ File(raw) \in passHeld[pass][Target]
      BY <1>2, <1>3, <3>3, CitedHeld
    <3> QED BY <1>2, <1>3, <1>6, <3>1, <3>2, <3>3, <3>4 DEF Kept, Locator
  <2> QED BY <2>2, <2>3
<1>8. Len(blocks') = next' - 1
  <2> HIDE DEF status
  <2> QED BY <1>2, <1>4, <1>5, LiveStatuses, LenProperties DEF status
<1> QED BY <1>2, <1>7, <1>8 DEF Collected

\* Reading a source in the second pass.
LEMMA CompareAttests ==
  ASSUME AttestInv, TypeInv', ReadSource, pass = 2
  PROVE  Collected' /\ Rechecked'
<1>1. PICK raw \in Readable(window) : Compare(raw)
  BY DEF ReadSource
<1>2. /\ pc = "read" /\ Live /\ next <= Sources /\ next \in Nat
      /\ bundle' = bundle /\ passHeld' = passHeld /\ pass' = 2 /\ next' = next + 1
      /\ blocks' = blocks /\ snapshots' = snapshots
  BY <1>1, LenProperties
  DEF ReadSource, Compare, Control, history, AttestInv, TypeInv, TypeOK, Live
<1>3. Collected'
  BY <1>2, KeptStays DEF AttestInv, Collected, Locator, Kept
<1>4. ASSUME ~raced', NEW s \in 1 .. next' - 1
      PROVE  Again(s)'
  <2>1. ~raced /\ source_sha256(raw) = snapshots[next].digest
    BY <1>1, <1>4 DEF Compare
  <2>2. CASE s # next
    <3>1. s \in 1 .. next - 1
      BY <1>2, <1>4, <2>2
    <3>2. Again(s)
      BY <1>2, <2>1, <3>1 DEF AttestInv, Rechecked
    <3> QED BY <1>2, <3>2 DEF Again, Locator
  <2>3. CASE s = next
    <3>1. Target = snapshots[next].path
      BY <1>2 DEF Target
    <3>2. ASSUME NEW k \in DOMAIN bundle.blocks,
                 snapshots[s] = [path   |-> Locator(k),
                                 digest |-> bundle.blocks[k].source_sha256]
          PROVE  /\ raw \in Contents /\ File(raw) \in passHeld[2][Locator(k)]
                 /\ source_sha256(raw) = bundle.blocks[k].source_sha256
      <4>1. /\ source_sha256(raw) = bundle.blocks[k].source_sha256
            /\ Target = Locator(k)
        BY <2>1, <2>3, <3>1, <3>2
      <4> QED BY <1>2, <4>1, CitedHeld
    <3> QED BY <1>2, <2>3, <3>2 DEF Again, Locator
  <2> QED BY <2>2, <2>3
<1> QED BY <1>2, <1>3, <1>4 DEF Rechecked

\* A write only adds to what was held.
LEMMA WriteAttests ==
  ASSUME AttestInv, TypeInv', NEW p \in Paths, NEW node \in Nodes, Write(p, node)
  PROVE  AttestInv'
<1>1. /\ Live /\ pass \in 1 .. 2
      /\ UNCHANGED <<bundle, pc, pass, next, blocks, snapshots, raced, outcome>>
      /\ tree \in [Paths -> Nodes] /\ tree' = [tree EXCEPT ![p] = node]
      /\ passHeld \in [1 .. 2 -> [Paths -> SUBSET Nodes]]
      /\ passHeld' = [passHeld EXCEPT ![pass][p] = @ \cup {node}]
  BY DEF Write, verifier, AttestInv, TypeInv, TypeOK, Live
<1>2. /\ \A i \in 1 .. 2, q \in Paths : passHeld[i][q] \subseteq passHeld'[i][q]
      /\ node \in passHeld'[pass][p]
  BY <1>1
<1>3. \A k \in DOMAIN bundle.blocks : Locator(k) \in Paths
  BY <1>1, AdmissibleLocators DEF AttestInv, TypeInv, Locator
<1>4. CurrentHeld'
  BY <1>1, <1>2 DEF AttestInv, CurrentHeld, Live
<1>5. WindowHeld'
  <2>1. CASE pc = "read"
    <3>1. Target \in Paths /\ Target' = Target
      BY <1>1, <2>1, TargetType DEF AttestInv, TypeInv, TypeOK, Target
    <3>2. \A raw \in window : File(raw) \in passHeld'[pass][Target]
      BY <1>1, <1>2, <2>1, <3>1 DEF AttestInv, WindowHeld
    <3>3. \/ window' = window
          \/ p = Target /\ node.kind = "file" /\ window' = window \cup {node.raw}
      BY DEF Write
    <3>4. node.kind = "file" => File(node.raw) = node
      BY FileNodes
    <3> QED BY <1>1, <1>2, <3>1, <3>2, <3>3, <3>4 DEF WindowHeld
  <2>2. CASE pc # "read"
    BY <1>1, <2>2 DEF WindowHeld
  <2> QED BY <2>1, <2>2
<1>6. Collected'
  <2>1. \A k \in DOMAIN bundle.blocks : Kept(k) => Kept(k)'
    BY <1>1, <1>2, <1>3, KeptStays
  <2>2. DOMAIN blocks \subseteq DOMAIN bundle.blocks
    BY <1>1, LenProperties DEF AttestInv, Collected, TypeInv, TypeOK, Sources
  <2> QED BY <1>1, <2>1, <2>2 DEF AttestInv, Collected, Live
<1>7. Rechecked'
  <2>1. \A s \in 1 .. next - 1 : Again(s) => Again(s)'
    BY <1>1, <1>2, <1>3 DEF Again, Locator
  <2> QED BY <1>1, <2>1 DEF AttestInv, Rechecked, Live
<1>8. NotStarted' /\ VerifiedIsAttested'
  BY <1>1, NothingClaimed DEF NotStarted, Live
<1> QED BY <1>4, <1>5, <1>6, <1>7, <1>8 DEF AttestInv

\* Every step keeps what the passes have established.
LEMMA AttestStep == AttestInv /\ [Next]_vars => AttestInv'
<1> SUFFICES ASSUME AttestInv, [Next]_vars PROVE AttestInv'
  OBVIOUS
<1>0. TypeInv /\ TypeInv'
  BY TypeStep DEF AttestInv
<1>1. CASE RootOpenFails
  BY <1>0, <1>1, StopAttests DEF RootOpenFails, Failed
<1>2. CASE OpenRoot
  <2>1. VerifiedIsAttested'
    BY <1>0, <1>2, NothingClaimed DEF OpenRoot
  <2> QED BY <1>0, <1>2, <2>1 DEF OpenRoot, Control, AttestInv, NotStarted, CurrentHeld,
               WindowHeld, Collected, Rechecked, Live
<1>3. CASE RejectSchema
  BY <1>0, <1>3, StopAttests DEF RejectSchema, Failed
<1>4. CASE RejectLimits
  BY <1>0, <1>4, StopAttests DEF RejectLimits, Failed
<1>5. CASE RejectPayload
  BY <1>0, <1>5, StopAttests DEF RejectPayload, ForgedReport
<1>6. CASE RejectLocator
  BY <1>0, <1>6, StopAttests DEF RejectLocator, Failed
<1>7. CASE RejectBlocks
  BY <1>0, <1>7, StopAttests DEF RejectBlocks, Report, Aggregate
<1>8. CASE StartLive
  <2>1. VerifiedIsAttested'
    BY <1>0, <1>8, NothingClaimed DEF StartLive
  <2>2. /\ pc' = "open" /\ pass' = 1 /\ pass = 1 /\ next' = 1 /\ blocks' = <<>>
        /\ tree' = tree
    BY <1>8 DEF StartLive, Control, environment, AttestInv, NotStarted
  <2>3. CurrentHeld'
    BY <1>8, <2>2 DEF StartLive, NewPass, CurrentHeld
  <2>4. Collected'
    BY <2>2, EmptySeq DEF Collected
  <2> QED BY <1>0, <2>1, <2>2, <2>3, <2>4 DEF AttestInv, NotStarted, WindowHeld, Rechecked
<1>9. CASE MissSource
  <2>1. VerifiedIsAttested'
    BY <1>0, <1>9, NothingClaimed DEF MissSource
  <2>2. /\ Live /\ pc' = pc /\ pc = "open" /\ pass' = pass /\ next' = next + 1
        /\ bundle' = bundle /\ passHeld' = passHeld /\ tree' = tree
        /\ snapshots' = snapshots
        /\ blocks \in Seq(Statuses) /\ next \in Nat
    BY <1>0, <1>9 DEF MissSource, Control, environment, history, Live, TypeInv, TypeOK
  <2>3. \A k : Kept(k) => Kept(k)'
    BY <2>2, KeptStays
  <2>4. Collected'
    <3>1. CASE pass = 1
      <4>1. blocks' = Append(blocks, "stale")
        BY <1>9, <3>1 DEF MissSource
      <4>2. Len(blocks) = next - 1 /\ \A k \in DOMAIN blocks : blocks[k] = "verified" => Kept(k)
        BY <2>2, <3>1 DEF AttestInv, Collected
      <4>3. Len(blocks') = next' - 1
        BY <2>2, <4>1, <4>2 DEF Statuses
      <4>4. \A k \in DOMAIN blocks' :
              blocks'[k] = "verified" => k \in DOMAIN blocks /\ blocks[k] = "verified"
        BY <2>2, <4>1 DEF Statuses
      <4> QED BY <2>2, <2>3, <3>1, <4>2, <4>3, <4>4 DEF Collected
    <3>2. CASE pass # 1
      <4>1. blocks' = blocks
        BY <1>9, <3>2 DEF MissSource
      <4> QED BY <2>2, <2>3, <3>2, <4>1 DEF AttestInv, Collected
    <3> QED BY <3>1, <3>2
  <2>5. Rechecked'
    BY <1>9, <2>2 DEF MissSource, Rechecked
  <2> QED BY <1>0, <2>1, <2>2, <2>4, <2>5
          DEF AttestInv, NotStarted, CurrentHeld, WindowHeld, Live
<1>10. CASE RefuseSource
  BY <1>0, <1>10, StopAttests DEF RefuseSource, Failed
<1>11. CASE OpenSource
  <2>1. VerifiedIsAttested'
    BY <1>0, <1>11, NothingClaimed DEF OpenSource
  <2>2. /\ Live /\ pc' = "read" /\ window' = {tree[Target].raw} /\ next <= Sources
        /\ UNCHANGED <<bundle, tree, pass, next, blocks, snapshots, raced, passHeld>>
    BY <1>11 DEF OpenSource, Control, environment, history, Live
  <2>3. Target \in Paths /\ Target' = Target
    BY <1>0, <2>2, TargetType DEF Target
  <2>4. tree[Target] = File(tree[Target].raw)
    BY <1>0, <1>11, <2>3, FileNodes DEF OpenSource, TypeInv, TypeOK
  <2>5. WindowHeld'
    BY <2>2, <2>3, <2>4 DEF AttestInv, CurrentHeld, WindowHeld
  <2>6. Collected' /\ Rechecked'
    BY <2>2, KeptStays DEF AttestInv, Collected, Rechecked, Again, Kept, Locator, Live
  <2> QED BY <1>0, <2>1, <2>2, <2>5, <2>6 DEF AttestInv, NotStarted, CurrentHeld, Live
<1>12. CASE ReadSource
  <2>1. VerifiedIsAttested'
    BY <1>0, <1>12, NothingClaimed DEF ReadSource
  <2>2. /\ Live /\ pc' = "open" /\ pass' = pass /\ pass \in 1 .. 2
        /\ tree' = tree /\ passHeld' = passHeld
    BY <1>0, <1>12 DEF ReadSource, Control, environment, history, Live, TypeInv, TypeOK
  <2>3. Collected' /\ Rechecked'
    <3>1. CASE pass = 1
      BY <1>0, <1>12, <2>2, <3>1, CollectAttests DEF Rechecked
    <3>2. CASE pass = 2
      BY <1>0, <1>12, <3>2, CompareAttests
    <3> QED BY <2>2, <3>1, <3>2
  <2> QED BY <1>0, <2>1, <2>2, <2>3
          DEF AttestInv, NotStarted, CurrentHeld, WindowHeld, Live
<1>13. CASE ReadTooLarge
  BY <1>0, <1>13, StopAttests DEF ReadTooLarge, Failed
<1>14. CASE ReadTooMuch
  BY <1>0, <1>14, StopAttests DEF ReadTooMuch, Failed
<1>15. CASE ReadFault
  BY <1>0, <1>15, StopAttests DEF ReadFault, Failed
<1>16. CASE BeginRecheck
  <2>1. VerifiedIsAttested'
    BY <1>0, <1>16, NothingClaimed DEF BeginRecheck
  <2>2. /\ Live /\ pc' = "open" /\ pass = 1 /\ pass' = 2 /\ next' = 1
        /\ next = Len(bundle.blocks) + 1
        /\ UNCHANGED <<bundle, tree, blocks, snapshots>>
    BY <1>0, <1>16, LenProperties
    DEF BeginRecheck, Control, environment, Sources, Live, TypeInv, TypeOK
  <2>3. /\ passHeld'[1] = passHeld[1]
        /\ passHeld'[2] = [p \in Paths |-> {tree[p]}]
    BY <1>0, <1>16 DEF BeginRecheck, TypeInv, TypeOK
  <2>4. Collected'
    <3>1. Len(blocks) = Len(bundle.blocks)
      BY <1>0, <2>2, LenProperties DEF AttestInv, Collected, TypeInv, TypeOK
    <3> QED BY <2>2, <2>3, <3>1, KeptStays DEF AttestInv, Collected
  <2>5. CurrentHeld' /\ Rechecked'
    BY <2>2, <2>3 DEF CurrentHeld, Rechecked
  <2> QED BY <1>0, <2>1, <2>2, <2>4, <2>5 DEF AttestInv, NotStarted, WindowHeld
<1>17. CASE Conclude
  <2>1. Aggregate(blocks) = "verified" => AllHeld
    BY <1>17, ConcludeAttests DEF Conclude
  <2> QED BY <1>0, <1>17, <2>1, StopAttests DEF Conclude, Report
<1>18. CASE Retry
  <2>1. VerifiedIsAttested'
    BY <1>0, <1>18, NothingClaimed DEF Retry, AttemptEnds
  <2>2. pc' = "open" /\ pass' = 1 /\ next' = 1 /\ blocks' = <<>> /\ tree' = tree
    BY <1>18 DEF Retry, AttemptEnds, Control, environment
  <2>3. CurrentHeld'
    BY <1>18, <2>2 DEF Retry, NewPass, CurrentHeld
  <2>4. Collected'
    BY <2>2, EmptySeq DEF Collected
  <2> QED BY <1>0, <2>1, <2>2, <2>3, <2>4 DEF AttestInv, NotStarted, WindowHeld, Rechecked
<1>19. CASE GiveUp
  <2>1. Aggregate(Downgraded(blocks)) # "verified"
    BY <1>0, DowngradedType DEF TypeInv, TypeOK
  <2> QED BY <1>0, <1>19, <2>1, StopAttests DEF GiveUp, Report
<1>20. ASSUME NEW p \in Paths, NEW node \in Nodes, Write(p, node)
       PROVE  AttestInv'
  BY <1>0, <1>20, WriteAttests
<1>21. CASE UNCHANGED vars
  <2>1. UNCHANGED <<bundle, tree, pc, pass, next, blocks, snapshots, raced, window,
                    outcome, passHeld>>
    BY <1>21 DEF vars, verifier, environment, history
  <2>2. Target' = Target
    BY <2>1 DEF Target
  <2>3. NotStarted' /\ CurrentHeld' /\ WindowHeld'
    BY <2>1, <2>2 DEF AttestInv, NotStarted, CurrentHeld, WindowHeld, Live
  <2>4. Collected' /\ Rechecked'
    BY <2>1 DEF AttestInv, Collected, Rechecked, Again, Kept, Locator, Live
  <2>5. VerifiedIsAttested'
    BY <2>1 DEF AttestInv, VerifiedIsAttested, Reported, Locator
  <2> QED BY <1>0, <2>3, <2>4, <2>5 DEF AttestInv
<1> QED BY <1>1, <1>2, <1>3, <1>4, <1>5, <1>6, <1>7, <1>8, <1>9, <1>10, <1>11,
           <1>12, <1>13, <1>14, <1>15, <1>16, <1>17, <1>18, <1>19, <1>20, <1>21
        DEF Next, Verifier, Admit, Read, Finish, Done

\* A verified report is attested by what the tree held in both passes of the
\* deciding attempt, whatever was written in between.
THEOREM VerifiedAttested == Spec => []VerifiedIsAttested
<1>1. AttestInv => VerifiedIsAttested
  BY DEF AttestInv
<1> QED BY AttestInit, AttestStep, <1>1, PTL DEF Spec

(***************************************************************************)
(* Every status of a live report has its reason.  The invariant says what  *)
(* a status, a snapshot and a race are worth while the attempt goes on.    *)
(***************************************************************************)

\* What a path held in a pass, of what may be read.
Versions(i, p) == {raw \in Contents : File(raw) \in passHeld[i][p]}

\* Why the first pass may collect a status for a block.
Reason(k, status) ==
  \/ /\ status = "verified"
     /\ \E raw \in Versions(1, Locator(k)) : Attests(bundle.blocks[k], raw)
  \/ status = "stale" /\ Missing \in passHeld[1][Locator(k)]
  \/ /\ status = "forged"
     /\ \E raw \in Versions(1, Locator(k)) :
          /\ source_sha256(raw) = bundle.blocks[k].source_sha256
          /\ LiveStatus(bundle.blocks[k], raw) = "forged"
  \/ /\ status = "source_drift"
     /\ \E raw \in Versions(1, Locator(k)) :
          source_sha256(raw) # bundle.blocks[k].source_sha256

Explained == Live => \A k \in DOMAIN blocks : Reason(k, blocks[k])

\* A snapshot was read from what its path held in the first pass.
Taken(s) ==
  \E raw \in Readable(Versions(1, snapshots[s].path)) :
    snapshots[s].digest = source_sha256(raw)

AllTaken ==
  /\ pc \in {"root", "admit"} => snapshots = <<>>
  /\ Live => \A s \in DOMAIN snapshots : Taken(s)

\* What was held in a pass was held, and a race is a change of the tree.
Nested == \A p \in Paths : /\ tree[p] \in held[p]
                           /\ \A i \in 1 .. 2 : passHeld[i][p] \subseteq held[p]

RaceSeen ==
  /\ pc # "done" /\ raced => Live /\ pass = 2 /\ Changed(DuringAttempt)
  /\ attempt = 2 => Changed(held)

WitnessInv ==
  /\ AttestInv
  /\ Explained /\ AllTaken /\ Nested /\ RaceSeen
  /\ StatusesAreWitnessed

\* A mixture of one version with itself is that version.
LEMMA OneVersion ==
  ASSUME NEW W \in SUBSET Contents, \A v, w \in W : v = w, NEW raw \in Readable(W)
  PROVE  raw \in W
<1>1. PICK v \in W : raw \in Splices(v, v)
  BY DEF Readable
<1>2. v \in Seq(Nat)
  BY ContentsAssumption
<1>3. PICK i \in 0 .. Len(v) : raw = SubSeq(v, 1, i) \o SubSeq(v, i + 1, Len(v))
  BY <1>1 DEF Splices
<1>4. /\ Len(v) \in Nat /\ 1 \in 1 .. Len(v) + 1 /\ i \in 1 - 1 .. Len(v)
      /\ Len(v) \in i .. Len(v)
  BY <1>2, <1>3, LenProperties
<1>5. SubSeq(v, 1, i) \o SubSeq(v, i + 1, Len(v)) = SubSeq(v, 1, Len(v))
  BY <1>2, <1>4, ConcatAdjacentSubSeq
<1> QED BY <1>2, <1>3, <1>5, SubSeqFull

\* What an open file may yield is a mixture of what was held in the pass.
LEMMA WindowVersions ==
  ASSUME AttestInv, pc = "read"
  PROVE  window \in SUBSET Versions(pass, Target)
BY DEF AttestInv, TypeInv, TypeOK, WindowHeld, Versions

\* The reason for a status stays while more is held.
LEMMA ReasonStays ==
  ASSUME NEW k, NEW status, Reason(k, status), bundle' = bundle,
         passHeld[1][Locator(k)] \subseteq passHeld'[1][Locator(k)]
  PROVE  Reason(k, status)'
BY DEF Reason, Versions, Locator

\* What was mixed from some versions is mixed from more of them.
LEMMA ReadableGrows ==
  ASSUME NEW V, NEW W, V \subseteq W
  PROVE  Readable(V) \subseteq Readable(W)
BY DEF Readable

\* The status a first pass gives to a source it could read has its reason.
LEMMA CollectReason ==
  ASSUME AttestInv, pc = "read", pass = 1, NEW raw \in Readable(window)
  PROVE  Reason(next, LiveStatus(bundle.blocks[next], raw))
<1> DEFINE status == LiveStatus(bundle.blocks[next], raw)
           cited  == bundle.blocks[next].source_sha256
<1>1. /\ next \in DOMAIN bundle.blocks /\ Target = Locator(next)
      /\ window \in SUBSET Contents
  <2>1. TypeInv /\ Live /\ next <= Sources /\ window \in SUBSET Contents
    BY DEF AttestInv, TypeInv, TypeOK, Live
  <2> QED BY <2>1, TargetType
<1>2. window \subseteq Versions(1, Locator(next))
  BY <1>1, WindowVersions
<1>3. CASE source_sha256(raw) = cited
  <2>1. raw \in Versions(1, Locator(next))
    BY <1>1, <1>3, CitedHeld DEF Versions
  <2>2. status \in {"verified", "forged"} /\ (status = "verified" => Attests(bundle.blocks[next], raw))
    BY <1>3 DEF LiveStatus, Attests
  <2> QED BY <1>3, <2>1, <2>2 DEF Reason
<1>4. CASE source_sha256(raw) # cited
  <2>1. status = "source_drift"
    BY <1>4 DEF LiveStatus
  <2>2. \E v \in window : source_sha256(v) # cited
    <3> SUFFICES ASSUME \A v \in window : source_sha256(v) = cited
                 PROVE  FALSE
      OBVIOUS
    <3>1. \A v, w \in window : v = w
      BY DEF source_sha256, SHA256
    <3>2. raw \in window
      BY <1>1, <3>1, OneVersion
    <3> QED BY <1>4, <3>2
  <2>3. \E v \in Versions(1, Locator(next)) : source_sha256(v) # cited
    BY <1>2, <2>2
  <2> QED BY <2>1, <2>3 DEF Reason
<1> QED BY <1>3, <1>4

\* A source that reads differently the second time has changed.
LEMMA CompareChanged ==
  ASSUME WitnessInv, pc = "read", pass = 2, NEW raw \in Readable(window),
         source_sha256(raw) # snapshots[next].digest
  PROVE  Changed(DuringAttempt)
<1>1. /\ TypeInv /\ Live /\ next <= Sources /\ window \in SUBSET Contents
  BY DEF WitnessInv, AttestInv, TypeInv, TypeOK, Live
<1>2. Target \in Paths /\ next \in DOMAIN snapshots /\ snapshots[next].path = Target
  BY <1>1, TargetType DEF Target
<1> DEFINE V == Versions(1, Target)
<1>3. PICK first \in Readable(V) : snapshots[next].digest = source_sha256(first)
  BY <1>1, <1>2 DEF WitnessInv, AllTaken, Taken
<1>4. window \subseteq Versions(2, Target)
  BY WindowVersions DEF WitnessInv
<1> SUFFICES ASSUME ~Changed(DuringAttempt)
             PROVE  FALSE
  OBVIOUS
<1>5. \A v, w \in V \cup window : v = w
  <2>1. \A v, w \in V \cup window :
          {File(v), File(w)} \subseteq passHeld[1][Target] \cup passHeld[2][Target]
    BY <1>4 DEF Versions
  <2>2. \A v, w \in V \cup window : File(v) = File(w)
    BY <1>2, <2>1 DEF Changed, DuringAttempt
  <2> QED BY <2>2 DEF File, Node
<1>6. first \in V /\ raw \in window
  <2>1. V \in SUBSET Contents
    BY DEF Versions
  <2> QED BY <1>1, <1>5, <2>1, OneVersion
<1> QED BY <1>3, <1>5, <1>6

\* A source that is gone the second time has changed.
LEMMA MissChanged ==
  ASSUME WitnessInv, pc = "open", pass = 2, next <= Sources, tree[Target] = Missing
  PROVE  Changed(DuringAttempt)
<1>1. TypeInv /\ Live
  BY DEF WitnessInv, AttestInv, Live
<1>2. Target \in Paths /\ next \in DOMAIN snapshots /\ snapshots[next].path = Target
  BY <1>1, TargetType DEF Target
<1>3. PICK raw \in Versions(1, Target) : TRUE
  <2>1. PICK first \in Readable(Versions(1, Target)) : TRUE
    BY <1>1, <1>2 DEF WitnessInv, AllTaken, Taken
  <2> QED BY <2>1 DEF Readable
<1>4. File(raw) \in DuringAttempt[Target] /\ Missing \in DuringAttempt[Target]
  <2>1. Missing \in passHeld[2][Target]
    BY <1>1, <1>2 DEF WitnessInv, AttestInv, CurrentHeld
  <2> QED BY <1>2, <1>3, <2>1 DEF DuringAttempt, Versions
<1>5. File(raw) # Missing
  BY DEF File, Missing, Node
<1> QED BY <1>2, <1>4, <1>5 DEF Changed

\* What changed during the attempt has changed.
LEMMA ChangedAtAll ==
  ASSUME Nested, Changed(DuringAttempt)
  PROVE  Changed(held)
<1>1. PICK p \in Paths : \E n, m \in DuringAttempt[p] : n # m
  BY DEF Changed
<1>2. DuringAttempt[p] \subseteq held[p]
  BY DEF Nested, DuringAttempt
<1> QED BY <1>1, <1>2 DEF Changed

\* Initially nothing has to be explained.
LEMMA WitnessInit == Init => WitnessInv
<1> SUFFICES ASSUME Init PROVE WitnessInv
  OBVIOUS
<1>1. AttestInv
  BY AttestInit
<1>2. /\ pc = "root" /\ raced = FALSE /\ attempt = 1 /\ outcome = NoOutcome
      /\ held = [p \in Paths |-> {tree[p]}]
      /\ passHeld = <<[p \in Paths |-> {}], [p \in Paths |-> {}]>>
      /\ snapshots = <<>>
  BY DEF Init
<1>3. Nested
  BY <1>2 DEF Nested
<1>4. StatusesAreWitnessed
  BY <1>2 DEF StatusesAreWitnessed, NoOutcome
<1> QED BY <1>1, <1>2, <1>3, <1>4 DEF WitnessInv, Explained, AllTaken, RaceSeen, Live

\* Stopping keeps the invariant if the statuses of a report have a reason.
LEMMA StopWitnesses ==
  ASSUME WitnessInv, AttestInv', NEW result, Stop(result), Live \/ pc \in {"root", "admit"},
         result.kind = "report" /\ Admissible(bundle) =>
           /\ Len(result.blocks) = Len(bundle.blocks)
           /\ result.attempts = attempt
           /\ \A k \in DOMAIN result.blocks :
                \/ Reason(k, result.blocks[k])
                \/ /\ result.blocks[k] = "source_drift" /\ attempt = 2
                   /\ Changed(DuringAttempt)
  PROVE  WitnessInv'
<1>1. /\ pc' = "done" /\ outcome' = result
      /\ UNCHANGED <<bundle, passHeld, held, tree, attempt, raced>>
  BY DEF Stop, Control, history, environment
<1>2. Nested'
  BY <1>1 DEF WitnessInv, Nested
<1>3. RaceSeen'
  BY <1>1 DEF WitnessInv, RaceSeen, Changed
<1>4. StatusesAreWitnessed'
  <2> SUFFICES ASSUME result.kind = "report", Admissible(bundle)
               PROVE  /\ Len(result.blocks) = Len(bundle.blocks)
                      /\ \A k \in DOMAIN result.blocks : Witnessed(k, result.blocks[k])'
                      /\ result.attempts = 2 => Changed(held)
    BY <1>1 DEF StatusesAreWitnessed, Changed
  <2>1. /\ Len(result.blocks) = Len(bundle.blocks) /\ result.attempts = attempt
        /\ \A k \in DOMAIN result.blocks :
             \/ Reason(k, result.blocks[k])
             \/ /\ result.blocks[k] = "source_drift" /\ attempt = 2
                /\ Changed(DuringAttempt)
    OBVIOUS
  <2>3. \A k \in DOMAIN result.blocks : Locator(k) \in Paths
    <3>1. /\ bundle \in Bundles /\ bundle.blocks \in Seq(BlockType)
          /\ result.blocks \in Seq(Statuses)
      BY <1>1 DEF WitnessInv, AttestInv, TypeInv, TypeOK, Outcomes
    <3>2. DOMAIN result.blocks = DOMAIN bundle.blocks
      BY <2>1, <3>1, LenProperties
    <3> QED BY <3>1, <3>2, AdmissibleLocators DEF Locator
  <2>2. ASSUME NEW k \in DOMAIN result.blocks
        PROVE  Witnessed(k, result.blocks[k])'
    <3>1. CASE Reason(k, result.blocks[k])
      <4>1. CASE result.blocks[k] = "verified"
        BY <1>1, <3>1, <4>1 DEF Reason, Witnessed, Versions, Locator
      <4>2. CASE result.blocks[k] = "stale"
        BY <1>1, <3>1, <4>2 DEF Reason, Witnessed, Versions, Locator
      <4>3. CASE result.blocks[k] = "forged"
        BY <1>1, <3>1, <4>3 DEF Reason, Witnessed, Versions, Locator
      <4>4. CASE result.blocks[k] = "source_drift"
        <5>1. PICK raw \in Versions(1, Locator(k)) :
                source_sha256(raw) # bundle.blocks[k].source_sha256
          BY <3>1, <4>4 DEF Reason
        <5>2. raw \in Contents /\ File(raw) \in passHeld[1][Locator(k)]
          BY DEF Versions
        <5>3. Locator(k)' = Locator(k) /\ Locator(k) \in Paths
          BY <1>1, <2>3 DEF Locator
        <5>4. File(raw) \in DuringAttempt'[Locator(k)]
          BY <1>1, <5>2, <5>3 DEF DuringAttempt
        <5> QED BY <1>1, <4>4, <5>1, <5>2, <5>3, <5>4 DEF Witnessed
      <4> QED BY <3>1, <4>1, <4>2, <4>3, <4>4 DEF Reason
    <3>2. CASE /\ result.blocks[k] = "source_drift" /\ attempt = 2
               /\ Changed(DuringAttempt)
      <4>1. DuringAttempt' = DuringAttempt
        BY <1>1 DEF DuringAttempt
      <4>2. Changed(DuringAttempt)'
        BY <3>2, <4>1 DEF Changed
      <4> QED BY <1>1, <2>1, <3>2, <4>2 DEF Witnessed
    <3> QED BY <2>1, <3>1, <3>2
  <2> QED BY <2>1, <2>2 DEF WitnessInv, RaceSeen
<1> QED BY <1>1, <1>2, <1>3, <1>4 DEF WitnessInv, Explained, AllTaken, Live

\* As long as there is no outcome nothing has to be explained.
LEMMA NothingExplained ==
  ASSUME TypeInv', pc' # "done"
  PROVE  StatusesAreWitnessed'
BY DEF TypeInv, StatusesAreWitnessed, NoOutcome

\* A status is added to those of the blocks before it.
LEMMA StatusAdded ==
  ASSUME WitnessInv, Live, pass = 1, next \in Nat,
         NEW status \in Statuses, Reason(next, status),
         blocks' = Append(blocks, status), bundle' = bundle, passHeld' = passHeld
  PROVE  Explained'
<1>1. /\ blocks \in Seq(Statuses) /\ Len(blocks) = next - 1
      /\ \A k \in DOMAIN blocks : Reason(k, blocks[k])
  BY DEF WitnessInv, AttestInv, TypeInv, TypeOK, Collected, Explained
<1>2. ASSUME NEW k \in DOMAIN blocks'
      PROVE  Reason(k, blocks'[k])
  <2>1. CASE k \in DOMAIN blocks
    <3>1. blocks'[k] = blocks[k]
      BY <1>1, <2>1
    <3> QED BY <1>1, <2>1, <3>1
  <2>2. CASE k \notin DOMAIN blocks
    <3>1. k = next /\ blocks'[k] = status
      BY <1>1, <1>2, <2>2
    <3> QED BY <3>1
  <2> QED BY <2>1, <2>2
<1>3. ASSUME NEW k, NEW st, Reason(k, st)
      PROVE  Reason(k, st)'
  BY <1>3, ReasonStays
<1> QED BY <1>2, <1>3 DEF Explained

\* A source that does not exist.
LEMMA MissWitnesses ==
  ASSUME WitnessInv, AttestInv', MissSource
  PROVE  WitnessInv'
<1>1. /\ Live /\ pc = "open" /\ pc' = "open" /\ next <= Sources /\ tree[Target] = Missing
      /\ raced' = (raced \/ pass = 2)
      /\ UNCHANGED <<bundle, tree, held, passHeld, pass, attempt, snapshots>>
  BY DEF MissSource, Control, environment, history, Live
<1>2. pass \in 1 .. 2 /\ next \in Nat /\ TypeInv
  BY DEF WitnessInv, AttestInv, TypeInv, TypeOK
<1>3. Explained'
  <2>1. CASE pass = 1
    <3>1. blocks' = Append(blocks, "stale")
      BY <2>1 DEF MissSource
    <3>2. Target \in Paths /\ Target = Locator(next)
      BY <1>1, <1>2, <2>1, TargetType
    <3>3. Missing \in passHeld[1][Locator(next)]
      BY <1>1, <2>1, <3>2 DEF WitnessInv, AttestInv, CurrentHeld
    <3>4. Reason(next, "stale") /\ "stale" \in Statuses
      BY <3>3 DEF Reason, Statuses
    <3> QED BY <1>1, <1>2, <2>1, <3>1, <3>4, StatusAdded
  <2>2. CASE pass # 1
    <3>1. blocks' = blocks
      BY <2>2 DEF MissSource
    <3> QED BY <1>1, <3>1, ReasonStays DEF WitnessInv, Explained
  <2> QED BY <2>1, <2>2
<1>4. AllTaken'
  BY <1>1 DEF WitnessInv, AllTaken, Taken, Versions
<1>5. Nested'
  BY <1>1 DEF WitnessInv, Nested
<1>6. RaceSeen'
  <2>1. raced' => pass = 2 /\ Changed(DuringAttempt)
    BY <1>1, MissChanged DEF WitnessInv, RaceSeen
  <2>2. DuringAttempt' = DuringAttempt
    BY <1>1 DEF DuringAttempt
  <2>3. (attempt = 2 => Changed(held))'
    BY <1>1 DEF WitnessInv, RaceSeen, Changed
  <2> QED BY <1>1, <2>1, <2>2, <2>3 DEF RaceSeen, Changed, Live
<1>7. StatusesAreWitnessed'
  BY <1>1, NothingExplained DEF AttestInv
<1> QED BY <1>3, <1>4, <1>5, <1>6, <1>7 DEF WitnessInv

\* A source that is read.
LEMMA ReadWitnesses ==
  ASSUME WitnessInv, AttestInv', ReadSource
  PROVE  WitnessInv'
<1>1. /\ Live /\ pc = "read" /\ pc' = "open"
      /\ UNCHANGED <<bundle, tree, held, passHeld, pass, attempt>>
  BY DEF ReadSource, Control, environment, history, Live
<1>2. /\ pass \in 1 .. 2 /\ next \in Nat /\ TypeInv /\ next <= Sources
      /\ window \in SUBSET Contents
  BY <1>1 DEF WitnessInv, AttestInv, TypeInv, TypeOK
<1>3. Nested' /\ (attempt = 2 => Changed(held))' /\ DuringAttempt' = DuringAttempt
  BY <1>1 DEF WitnessInv, Nested, RaceSeen, Changed, DuringAttempt
<1>4. StatusesAreWitnessed'
  BY <1>1, NothingExplained DEF AttestInv
<1>5. PICK raw \in Readable(window) : IF pass = 1 THEN Collect(raw) ELSE Compare(raw)
  BY DEF ReadSource
<1>6. CASE pass = 1
  <2> DEFINE status   == LiveStatus(bundle.blocks[next], raw)
             snapshot == [path |-> Target, digest |-> source_sha256(raw)]
  <2>1. /\ blocks' = Append(blocks, status) /\ snapshots' = Append(snapshots, snapshot)
        /\ raced' = raced
    BY <1>5, <1>6 DEF Collect
  <2>2. Reason(next, status) /\ status \in Statuses
    BY <1>1, <1>6, CollectReason, LiveStatuses DEF WitnessInv
  <2> HIDE DEF status
  <2>3. Explained'
    BY <1>1, <1>2, <1>6, <2>1, <2>2, StatusAdded
  <2>4. \E v \in Readable(Versions(1, Target)) : snapshot.digest = source_sha256(v)
    <3>1. window \subseteq Versions(1, Target)
      BY <1>1, <1>6, WindowVersions DEF WitnessInv
    <3>2. raw \in Readable(Versions(1, Target))
      BY <3>1, ReadableGrows
    <3> QED BY <3>2
  <2>5. AllTaken'
    <3> DEFINE Snapshots == [path : Paths, digest : Seq(Nat)]
    <3>1. snapshots \in Seq(Snapshots) /\ snapshots' \in Seq(Snapshots)
      BY DEF WitnessInv, AttestInv, TypeInv, TypeOK
    <3>2. ASSUME NEW s \in DOMAIN snapshots'
          PROVE  \/ s \in DOMAIN snapshots /\ snapshots'[s] = snapshots[s]
                 \/ snapshots'[s] = snapshot
      <4> HIDE DEF Snapshots, snapshot
      <4> QED BY <2>1, <3>1, LenProperties
    <3>3. snapshot.path = Target
      OBVIOUS
    <3> HIDE DEF Snapshots, snapshot
    <3>4. ASSUME NEW s \in DOMAIN snapshots'
          PROVE  \E v \in Readable(Versions(1, snapshots'[s].path)) :
                   snapshots'[s].digest = source_sha256(v)
      <4>1. CASE s \in DOMAIN snapshots /\ snapshots'[s] = snapshots[s]
        <5>1. Taken(s)
          BY <1>1, <4>1 DEF WitnessInv, AllTaken
        <5> QED BY <4>1, <5>1 DEF Taken
      <4>2. CASE snapshots'[s] = snapshot
        BY <2>4, <3>3, <4>2
      <4> QED BY <3>2, <4>1, <4>2
    <3>5. \A p : Versions(1, p)' = Versions(1, p)
      BY <1>1 DEF Versions
    <3> QED BY <1>1, <3>4, <3>5 DEF AllTaken, Taken, Versions
  <2>6. RaceSeen'
    <3>1. ~raced
      BY <1>1, <1>6 DEF WitnessInv, RaceSeen
    <3> QED BY <1>3, <2>1, <3>1 DEF RaceSeen
  <2> QED BY <1>3, <1>4, <2>3, <2>5, <2>6 DEF WitnessInv
<1>7. CASE pass = 2
  <2>1. /\ UNCHANGED <<blocks, snapshots>>
        /\ raced' = (raced \/ source_sha256(raw) # snapshots[next].digest)
    BY <1>5, <1>7 DEF Compare
  <2>2. Explained'
    BY <1>1, <2>1, ReasonStays DEF WitnessInv, Explained
  <2>3. AllTaken'
    BY <1>1, <2>1 DEF WitnessInv, AllTaken, Taken, Versions
  <2>4. raced' => Changed(DuringAttempt)
    BY <1>1, <1>7, <2>1, CompareChanged DEF WitnessInv, RaceSeen
  <2>5. RaceSeen'
    BY <1>1, <1>3, <1>7, <2>4 DEF RaceSeen, Changed, Live
  <2> QED BY <1>3, <1>4, <2>2, <2>3, <2>5 DEF WitnessInv
<1> QED BY <1>2, <1>6, <1>7

\* A write only adds to what was held.
LEMMA WriteWitnesses ==
  ASSUME WitnessInv, AttestInv', NEW p \in Paths, NEW node \in Nodes, Write(p, node)
  PROVE  WitnessInv'
<1>1. /\ Live /\ pass \in 1 .. 2 /\ bundle \in Bundles /\ Admissible(bundle)
      /\ UNCHANGED <<bundle, pc, pass, attempt, blocks, snapshots, raced, outcome>>
      /\ tree \in [Paths -> Nodes] /\ tree' = [tree EXCEPT ![p] = node]
      /\ held \in [Paths -> SUBSET Nodes]
      /\ held' = [held EXCEPT ![p] = @ \cup {node}]
      /\ passHeld \in [1 .. 2 -> [Paths -> SUBSET Nodes]]
      /\ passHeld' = [passHeld EXCEPT ![pass][p] = @ \cup {node}]
  BY DEF Write, verifier, WitnessInv, AttestInv, TypeInv, TypeOK, Live
<1>2. /\ \A i \in 1 .. 2, q \in Paths : passHeld[i][q] \subseteq passHeld'[i][q]
      /\ \A i \in 1 .. 2, q \in Paths : passHeld'[i][q] \subseteq passHeld[i][q] \cup
                                           (IF q = p THEN {node} ELSE {})
      /\ \A q \in Paths : held[q] \subseteq held'[q]
      /\ node \in held'[p]
  BY <1>1
<1>3. /\ \A k \in DOMAIN blocks : Locator(k) \in Paths
      /\ \A s \in DOMAIN snapshots : snapshots[s].path \in Paths
  <2>1. DOMAIN blocks \subseteq DOMAIN bundle.blocks
    BY <1>1, LenProperties DEF WitnessInv, AttestInv, Collected, TypeInv, TypeOK, Sources
  <2>2. \A s \in DOMAIN snapshots : snapshots[s] \in [path : Paths, digest : Seq(Nat)]
    <3> DEFINE Snapshots == [path : Paths, digest : Seq(Nat)]
    <3>1. snapshots \in Seq(Snapshots)
      BY DEF WitnessInv, AttestInv, TypeInv, TypeOK
    <3> HIDE DEF Snapshots
    <3>2. \A s \in DOMAIN snapshots : snapshots[s] \in Snapshots
      BY <3>1, ElementOfSeq, LenProperties
    <3> QED BY <3>2 DEF Snapshots
  <2> QED BY <1>1, <2>1, <2>2, AdmissibleLocators DEF Locator
<1>4. Explained'
  BY <1>1, <1>2, <1>3, ReasonStays DEF WitnessInv, Explained
<1>5. AllTaken'
  <2>1. ASSUME NEW s \in DOMAIN snapshots
        PROVE  Taken(s)'
    <3>1. Versions(1, snapshots[s].path) \subseteq Versions(1, snapshots[s].path)'
      BY <1>1, <1>2, <1>3 DEF Versions
    <3>2. Readable(Versions(1, snapshots[s].path)) \subseteq Readable(Versions(1, snapshots[s].path)')
      BY <3>1, ReadableGrows
    <3>3. Taken(s)
      BY <1>1 DEF WitnessInv, AllTaken
    <3> QED BY <1>1, <3>2, <3>3 DEF Taken
  <2> QED BY <1>1, <2>1 DEF AllTaken, Live
<1>6. Nested'
  BY <1>1, <1>2 DEF WitnessInv, Nested
<1>7. RaceSeen'
  <2>1. Changed(DuringAttempt) => Changed(DuringAttempt)'
    <3>1. \A q \in Paths : DuringAttempt[q] \subseteq DuringAttempt'[q]
      BY <1>2 DEF DuringAttempt
    <3> QED BY <3>1 DEF Changed
  <2>2. Changed(held) => Changed(held)'
    BY <1>2 DEF Changed
  <2> QED BY <1>1, <2>1, <2>2 DEF WitnessInv, RaceSeen, Live
<1>8. StatusesAreWitnessed'
  BY <1>1, NothingExplained DEF AttestInv, Live
<1> QED BY <1>4, <1>5, <1>6, <1>7, <1>8 DEF WitnessInv

\* Every step keeps what the statuses rest on.
LEMMA WitnessStep == WitnessInv /\ [Next]_vars => WitnessInv'
<1> SUFFICES ASSUME WitnessInv, [Next]_vars PROVE WitnessInv'
  OBVIOUS
<1>0. AttestInv /\ AttestInv'
  BY AttestStep DEF WitnessInv
<1>1. CASE RootOpenFails
  BY <1>0, <1>1, StopWitnesses DEF RootOpenFails, Failed
<1>2. CASE OpenRoot
  <2>1. StatusesAreWitnessed'
    BY <1>0, <1>2, NothingExplained DEF OpenRoot, AttestInv
  <2>2. /\ pc = "root" /\ pc' = "admit"
        /\ UNCHANGED <<tree, held, passHeld, snapshots, raced, attempt>>
    BY <1>2 DEF OpenRoot, Control, environment, history
  <2>3. Explained' /\ AllTaken' /\ Nested'
    BY <2>2 DEF WitnessInv, Explained, AllTaken, Nested, Live
  <2>4. RaceSeen'
    BY <2>2 DEF WitnessInv, RaceSeen, Changed, Live
  <2> QED BY <1>0, <2>1, <2>3, <2>4 DEF WitnessInv
<1>3. CASE RejectSchema
  BY <1>0, <1>3, StopWitnesses DEF RejectSchema, Failed
<1>4. CASE RejectLimits
  BY <1>0, <1>4, StopWitnesses DEF RejectLimits, Failed
<1>5. CASE RejectPayload
  BY <1>0, <1>5, StopWitnesses DEF RejectPayload, Admissible, Authentic
<1>6. CASE RejectLocator
  BY <1>0, <1>6, StopWitnesses DEF RejectLocator, Failed
<1>7. CASE RejectBlocks
  BY <1>0, <1>7, StopWitnesses DEF RejectBlocks, Admissible
<1>8. CASE StartLive
  <2>1. StatusesAreWitnessed'
    BY <1>0, <1>8, NothingExplained DEF StartLive, AttestInv
  <2>2. /\ pc = "admit" /\ pc' = "open" /\ blocks' = <<>> /\ snapshots' = <<>>
        /\ raced' = raced /\ ~raced
        /\ UNCHANGED <<tree, held, attempt>>
        /\ passHeld' = <<[p \in Paths |-> {tree[p]}], [p \in Paths |-> {}]>>
    BY <1>8 DEF StartLive, NewPass, Control, environment, WitnessInv, AttestInv, NotStarted,
                AllTaken, RaceSeen, Live
  <2>3. Explained' /\ AllTaken'
    BY <2>2 DEF Explained, AllTaken, Live
  <2>4. Nested'
    BY <2>2 DEF WitnessInv, Nested
  <2>5. RaceSeen'
    BY <2>2 DEF WitnessInv, RaceSeen, Changed
  <2> QED BY <1>0, <2>1, <2>3, <2>4, <2>5 DEF WitnessInv
<1>9. CASE MissSource
  BY <1>0, <1>9, MissWitnesses
<1>10. CASE RefuseSource
  BY <1>0, <1>10, StopWitnesses DEF RefuseSource, Failed, Live
<1>11. CASE OpenSource
  <2>1. StatusesAreWitnessed'
    BY <1>0, <1>11, NothingExplained DEF OpenSource, AttestInv
  <2>2. /\ Live /\ pc' = "read"
        /\ UNCHANGED <<bundle, tree, held, pass, attempt, blocks, snapshots, raced, passHeld>>
    BY <1>11 DEF OpenSource, Control, environment, history, Live
  <2>3. Explained'
    BY <2>2, ReasonStays DEF WitnessInv, Explained
  <2>4. AllTaken' /\ Nested'
    BY <2>2 DEF WitnessInv, AllTaken, Taken, Versions, Nested
  <2>5. RaceSeen'
    BY <2>2 DEF WitnessInv, RaceSeen, Changed, DuringAttempt, Live
  <2> QED BY <1>0, <2>1, <2>3, <2>4, <2>5 DEF WitnessInv
<1>12. CASE ReadSource
  BY <1>0, <1>12, ReadWitnesses
<1>13. CASE ReadTooLarge
  BY <1>0, <1>13, StopWitnesses DEF ReadTooLarge, Failed, Live
<1>14. CASE ReadTooMuch
  BY <1>0, <1>14, StopWitnesses DEF ReadTooMuch, Failed, Live
<1>15. CASE ReadFault
  BY <1>0, <1>15, StopWitnesses DEF ReadFault, Failed, Live
<1>16. CASE BeginRecheck
  <2>1. StatusesAreWitnessed'
    BY <1>0, <1>16, NothingExplained DEF BeginRecheck, AttestInv
  <2>2. /\ Live /\ pc' = "open" /\ pass = 1 /\ pass' = 2 /\ raced' = raced /\ ~raced
        /\ UNCHANGED <<bundle, tree, held, attempt, blocks, snapshots>>
    BY <1>16 DEF BeginRecheck, Control, environment, Live, WitnessInv, RaceSeen
  <2>3. /\ passHeld'[1] = passHeld[1]
        /\ passHeld'[2] = [p \in Paths |-> {tree[p]}]
    BY <1>0, <1>16 DEF BeginRecheck, AttestInv, TypeInv, TypeOK
  <2>4. Explained'
    BY <2>2, <2>3, ReasonStays DEF WitnessInv, Explained
  <2>5. AllTaken'
    BY <2>2, <2>3 DEF WitnessInv, AllTaken, Taken, Versions
  <2>6. RaceSeen'
    BY <2>2 DEF WitnessInv, RaceSeen, Changed
  <2>7. Nested'
    <3> SUFFICES ASSUME NEW p \in Paths
                 PROVE  /\ tree'[p] \in held'[p]
                        /\ \A i \in 1 .. 2 : passHeld'[i][p] \subseteq held'[p]
      BY DEF Nested
    <3>1. tree[p] \in held[p] /\ passHeld[1][p] \subseteq held[p]
      BY DEF WitnessInv, Nested
    <3>2. passHeld'[1][p] \subseteq held[p] /\ passHeld'[2][p] \subseteq held[p]
      BY <2>3, <3>1
    <3>3. \A i \in 1 .. 2 : i = 1 \/ i = 2
      OBVIOUS
    <3> QED BY <2>2, <3>1, <3>2, <3>3
  <2> QED BY <1>0, <2>1, <2>4, <2>5, <2>6, <2>7 DEF WitnessInv
<1>17. CASE Conclude
  <2>1. /\ Live /\ Len(blocks) = Len(bundle.blocks)
        /\ \A k \in DOMAIN blocks : Reason(k, blocks[k])
    BY <1>17 DEF Conclude, AttemptEnds, Live, WitnessInv, AttestInv, Collected, Explained
  <2> QED BY <1>0, <1>17, <2>1, StopWitnesses DEF Conclude, Report
<1>18. CASE Retry
  <2>1. StatusesAreWitnessed'
    BY <1>0, <1>18, NothingExplained DEF Retry, AttemptEnds, AttestInv
  <2>2. /\ Live /\ raced /\ pc' = "open" /\ blocks' = <<>> /\ snapshots' = <<>> /\ ~raced'
        /\ UNCHANGED <<tree, held>>
        /\ passHeld' = <<[p \in Paths |-> {tree[p]}], [p \in Paths |-> {}]>>
    BY <1>18 DEF Retry, AttemptEnds, NewPass, Control, environment, Live
  <2>3. Explained' /\ AllTaken'
    BY <2>2 DEF Explained, AllTaken, Live
  <2>4. Nested'
    BY <2>2 DEF WitnessInv, Nested
  <2>5. Changed(held)
    BY <2>2, ChangedAtAll DEF WitnessInv, RaceSeen, Live
  <2>6. RaceSeen'
    BY <2>2, <2>5 DEF RaceSeen, Changed
  <2> QED BY <1>0, <2>1, <2>3, <2>4, <2>6 DEF WitnessInv
<1>19. CASE GiveUp
  <2>1. /\ Live /\ raced /\ attempt = 2 /\ Len(blocks) = Len(bundle.blocks)
        /\ \A k \in DOMAIN blocks : Reason(k, blocks[k])
        /\ blocks \in Seq(Statuses)
    BY <1>19 DEF GiveUp, AttemptEnds, Live, WitnessInv, AttestInv, Collected, Explained,
                 TypeInv, TypeOK
  <2>2. Changed(DuringAttempt)
    BY <2>1 DEF WitnessInv, RaceSeen, Live
  <2>3. /\ DOMAIN Downgraded(blocks) = DOMAIN blocks /\ Len(Downgraded(blocks)) = Len(blocks)
        /\ \A k \in DOMAIN blocks : \/ Downgraded(blocks)[k] = blocks[k]
                                    \/ Downgraded(blocks)[k] = "source_drift"
    <3>1. Downgraded(blocks) \in Seq(Statuses) /\ DOMAIN Downgraded(blocks) = DOMAIN blocks
      BY <2>1, DowngradedType DEF Downgraded
    <3>2. Len(Downgraded(blocks)) = Len(blocks)
      BY <2>1, <3>1, LenProperties
    <3> QED BY <3>1, <3>2 DEF Downgraded
  <2> QED BY <1>0, <1>19, <2>1, <2>2, <2>3, StopWitnesses DEF GiveUp, Report
<1>20. ASSUME NEW p \in Paths, NEW node \in Nodes, Write(p, node)
       PROVE  WitnessInv'
  BY <1>0, <1>20, WriteWitnesses
<1>21. CASE UNCHANGED vars
  <2>1. UNCHANGED <<bundle, tree, held, pc, pass, attempt, blocks, snapshots, raced,
                    outcome, passHeld>>
    BY <1>21 DEF vars, verifier, environment, history
  <2>2. Explained'
    BY <2>1, ReasonStays DEF WitnessInv, Explained, Live
  <2>3. AllTaken' /\ Nested'
    BY <2>1 DEF WitnessInv, AllTaken, Taken, Versions, Nested, Live
  <2>4. RaceSeen'
    BY <2>1 DEF WitnessInv, RaceSeen, Changed, DuringAttempt, Live
  <2>5. StatusesAreWitnessed'
    <3> SUFFICES ASSUME outcome.kind = "report", Admissible(bundle)
                 PROVE  /\ Len(outcome.blocks) = Len(bundle.blocks)
                        /\ \A k \in DOMAIN outcome.blocks : Witnessed(k, outcome.blocks[k])'
                        /\ outcome.attempts = 2 => Changed(held)
      BY <2>1 DEF StatusesAreWitnessed, Changed
    <3>1. /\ Len(outcome.blocks) = Len(bundle.blocks)
          /\ \A k \in DOMAIN outcome.blocks : Witnessed(k, outcome.blocks[k])
          /\ outcome.attempts = 2 => Changed(held)
      BY DEF WitnessInv, StatusesAreWitnessed
    <3>2. ASSUME NEW k \in DOMAIN outcome.blocks
          PROVE  Witnessed(k, outcome.blocks[k])'
      <4>1. outcome.blocks[k] \in Statuses
        BY <1>0 DEF AttestInv, TypeInv, TypeOK, Outcomes
      <4>2. DuringAttempt' = DuringAttempt
        BY <2>1 DEF DuringAttempt
      <4>3. CASE outcome.blocks[k] = "verified"
        BY <2>1, <3>1, <4>3 DEF Witnessed, Locator
      <4>4. CASE outcome.blocks[k] = "stale"
        BY <2>1, <3>1, <4>4 DEF Witnessed, Locator
      <4>5. CASE outcome.blocks[k] = "forged"
        BY <2>1, <3>1, <4>5 DEF Witnessed, Locator
      <4>6. CASE outcome.blocks[k] = "source_drift"
        <5>1. \/ \E raw \in Contents : /\ File(raw) \in DuringAttempt[Locator(k)]
                                      /\ source_sha256(raw) # bundle.blocks[k].source_sha256
              \/ outcome.attempts = 2 /\ Changed(DuringAttempt)
          BY <3>1, <4>6 DEF Witnessed
        <5>2. Locator(k)' = Locator(k) /\ (Changed(DuringAttempt) => Changed(DuringAttempt)')
          BY <2>1, <4>2 DEF Locator, Changed
        <5> QED BY <2>1, <4>2, <4>6, <5>1, <5>2 DEF Witnessed
      <4> QED BY <4>1, <4>3, <4>4, <4>5, <4>6 DEF Statuses
    <3> QED BY <3>1, <3>2
  <2> QED BY <1>0, <2>2, <2>3, <2>4, <2>5 DEF WitnessInv
<1> QED BY <1>1, <1>2, <1>3, <1>4, <1>5, <1>6, <1>7, <1>8, <1>9, <1>10, <1>11,
           <1>12, <1>13, <1>14, <1>15, <1>16, <1>17, <1>18, <1>19, <1>20, <1>21
        DEF Next, Verifier, Admit, Read, Finish, Done

\* Every block status of a live report is explained by what the tree held
\* during the deciding attempt, and a second attempt by a change of the tree
\* (verify_with_reader, live_status).
THEOREM StatusesWitnessed == Spec => []StatusesAreWitnessed
<1>1. WitnessInv => StatusesAreWitnessed
  BY DEF WitnessInv
<1> QED BY WitnessInit, WitnessStep, <1>1, PTL DEF Spec

(***************************************************************************)
(* A tree at rest is judged exactly.  The sums that the read allowance is  *)
(* about grow by one source at a time.                                     *)
(***************************************************************************)

Nought(p) == 0
Plus(p, sum, n) == sum + n

Adding == INSTANCE Folding WITH Start <- Nought, Step <- Plus

\* A total of sizes is a size, and one more size is added to it.
LEMMA TotalAdds ==
  /\ Total(<<>>) = 0
  /\ \A sizes \in Seq(Nat) : Total(sizes) \in Nat
  /\ \A sizes \in Seq(Nat), n \in Nat : Total(Append(sizes, n)) = Total(sizes) + n
<1>1. \A sizes : Total(sizes) = Adding!Fold(0, sizes)
  BY DEF Total, FoldLeft, MapThenFoldSet, Max, Nought, Plus,
         Adding!Fold, Adding!FoldLeft, Adding!MapThenFoldSet, Adding!Max
<1>2. Total(<<>>) = 0
  BY <1>1, Adding!FoldEmpty DEF Nought
<1>3. ASSUME NEW sizes \in Seq(Nat)
      PROVE  Total(sizes) \in Nat
  <2>1. Nought(0) \in Nat /\ \A sum \in Nat, n \in Nat : Plus(0, sum, n) \in Nat
    BY DEF Nought, Plus
  <2> QED BY <1>1, <2>1, Adding!FoldKeeps
<1>4. ASSUME NEW sizes \in Seq(Nat), NEW n \in Nat
      PROVE  Total(Append(sizes, n)) = Total(sizes) + n
  BY <1>1, Adding!FoldAppend DEF Plus
<1> QED BY <1>2, <1>3, <1>4

UpTo(sizes, k) == Total([j \in 1 .. k |-> sizes[j]])

\* The totals of the first sizes grow from nothing.
LEMMA TotalsGrow ==
  ASSUME NEW sizes \in Seq(Nat)
  PROVE  /\ \A k \in 0 .. Len(sizes) : UpTo(sizes, k) \in Nat
         /\ UpTo(sizes, 0) = 0
         /\ \A k \in 1 .. Len(sizes) : UpTo(sizes, k) = UpTo(sizes, k - 1) + sizes[k]
         /\ \A i, j \in 0 .. Len(sizes) : i <= j => UpTo(sizes, i) <= UpTo(sizes, j)
<1> DEFINE n == Len(sizes)
           first(k) == [j \in 1 .. k |-> sizes[j]]
<1>1. n \in Nat /\ \A j \in 1 .. n : sizes[j] \in Nat
  OBVIOUS
<1>2. \A k \in 0 .. n : first(k) \in Seq(Nat)
  BY <1>1
<1>3. \A k \in 0 .. n : UpTo(sizes, k) \in Nat
  <2> HIDE DEF first
  <2> QED BY <1>2, TotalAdds DEF UpTo, first
<1>4. UpTo(sizes, 0) = 0
  <2>1. first(0) = <<>>
    OBVIOUS
  <2> QED BY <2>1, TotalAdds DEF UpTo
<1>5. ASSUME NEW k \in 1 .. n
      PROVE  UpTo(sizes, k) = UpTo(sizes, k - 1) + sizes[k]
  <2>1. first(k) = Append(first(k - 1), sizes[k])
    BY <1>1
  <2>2. k - 1 \in 0 .. n /\ sizes[k] \in Nat
    BY <1>1
  <2>3. first(k - 1) \in Seq(Nat)
    BY <1>2, <2>2
  <2> HIDE DEF first
  <2>4. Total(first(k)) = Total(first(k - 1)) + sizes[k]
    BY <2>1, <2>2, <2>3, TotalAdds
  <2> QED BY <2>4 DEF UpTo, first
<1>6. ASSUME NEW i \in 0 .. n, NEW j \in 0 .. n, i <= j
      PROVE  UpTo(sizes, i) <= UpTo(sizes, j)
  <2> DEFINE U(k) == UpTo(sizes, k)
             Bad == {k \in i .. n : ~(U(i) <= U(k))}
  <2>1. Bad = {}
    <3> SUFFICES ASSUME Bad # {}
                 PROVE  FALSE
      OBVIOUS
    <3>1. Bad \in SUBSET Nat
      BY <1>1
    <3>2. PICK m \in Bad : \A k \in Bad : m <= k
      BY <3>1, Adding!Least
    <3>3. U(i) \in Nat
      BY <1>3
    <3> HIDE DEF U
    <3>4. m # i
      BY <3>3
    <3>5. m \in 1 .. n /\ m - 1 \in i .. n /\ m - 1 \in 0 .. n /\ ~(m <= m - 1)
      BY <1>1, <3>4
    <3>6. U(i) <= U(m - 1)
      BY <3>2, <3>5
    <3>7. U(m) = U(m - 1) + sizes[m] /\ U(m - 1) \in Nat /\ sizes[m] \in Nat
      BY <1>1, <1>3, <1>5, <3>5 DEF U
    <3>8. U(i) <= U(m)
      BY <3>3, <3>6, <3>7
    <3> QED BY <3>8
  <2> QED BY <1>6, <2>1
<1> QED BY <1>3, <1>4, <1>5, <1>6

\* What the tree holds has a size.
LEMMA NodeSize ==
  ASSUME NEW node \in Nodes
  PROVE  Len(node.raw) \in Nat /\ (node = Missing => Len(node.raw) = 0)
BY ContentsAssumption, EmptySeq DEF Nodes, File, Missing, Denied, Node

\* A bundle that is read for: its locators are paths.
Readied(b) ==
  /\ b.blocks \in Seq(BlockType) /\ b.budget.max_file_bytes \in Nat
  /\ \A k \in DOMAIN b.blocks : b.blocks[k].path.bytes \in Paths

\* The sizes of the sources of a bundle's first blocks.
LEMMA SizesGrow ==
  ASSUME NEW b, Readied(b), NEW t \in [Paths -> Nodes]
  PROVE  LET n == Len(b.blocks)
         IN  /\ n \in Nat /\ DOMAIN b.blocks = 1 .. n
             /\ \A k \in 1 .. n : /\ Source(b, t, k) \in Nodes
                                  /\ Len(Source(b, t, k).raw) \in Nat
             /\ \A k \in 0 .. n : SizeUpTo(b, t, k) \in Nat
             /\ SizeUpTo(b, t, 0) = 0
             /\ \A k \in 1 .. n :
                  SizeUpTo(b, t, k) = SizeUpTo(b, t, k - 1) + Len(Source(b, t, k).raw)
             /\ \A i, j \in 0 .. n : i <= j => SizeUpTo(b, t, i) <= SizeUpTo(b, t, j)
<1> DEFINE n == Len(b.blocks)
           size(j) == Len(Source(b, t, j).raw)
           sizes == [j \in 1 .. n |-> size(j)]
<1>1. n \in Nat /\ DOMAIN b.blocks = 1 .. n
  BY LenProperties DEF Readied
<1>2. \A k \in 1 .. n : Source(b, t, k) \in Nodes /\ size(k) \in Nat
  BY <1>1, NodeSize DEF Readied, Source
<1> HIDE DEF n, size
<1>3. sizes \in Seq(Nat) /\ Len(sizes) = n
  BY <1>1, <1>2
<1>4. \A k \in 0 .. n : SizeUpTo(b, t, k) = UpTo(sizes, k)
  <2> TAKE k \in 0 .. n
  <2>1. [j \in 1 .. k |-> size(j)] = [j \in 1 .. k |-> sizes[j]]
    BY <1>1
  <2> QED BY <2>1 DEF SizeUpTo, UpTo, size
<1>5. \A k \in 1 .. n : sizes[k] = size(k) /\ k - 1 \in 0 .. n /\ k \in 0 .. n
  BY <1>1
<1>6. 0 \in 0 .. n
  BY <1>1
<1> HIDE DEF sizes
<1>7. /\ \A k \in 0 .. n : SizeUpTo(b, t, k) \in Nat
      /\ SizeUpTo(b, t, 0) = 0
      /\ \A k \in 1 .. n : SizeUpTo(b, t, k) = SizeUpTo(b, t, k - 1) + size(k)
      /\ \A i, j \in 0 .. n : i <= j => SizeUpTo(b, t, i) <= SizeUpTo(b, t, j)
  BY <1>3, <1>4, <1>5, <1>6, TotalsGrow
<1> QED BY <1>1, <1>2, <1>7 DEF n, size

Snapshots == [path : Paths, digest : Seq(Nat)]

\* The bytes behind the first snapshots.
SnapshotsUpTo(s, t, k) == Total([j \in 1 .. k |-> Len(t[s[j].path].raw)])

\* They grow in the same way.
LEMMA SnapshotsGrow ==
  ASSUME NEW s \in Seq(Snapshots), NEW t \in [Paths -> Nodes]
  PROVE  LET n == Len(s)
         IN  /\ n \in Nat /\ DOMAIN s = 1 .. n
             /\ \A k \in 1 .. n : Len(t[s[k].path].raw) \in Nat
             /\ \A k \in 0 .. n : SnapshotsUpTo(s, t, k) \in Nat
             /\ SnapshotsUpTo(s, t, 0) = 0
             /\ \A k \in 1 .. n :
                  SnapshotsUpTo(s, t, k) = SnapshotsUpTo(s, t, k - 1) + Len(t[s[k].path].raw)
             /\ \A i, j \in 0 .. n : i <= j => SnapshotsUpTo(s, t, i) <= SnapshotsUpTo(s, t, j)
<1> DEFINE n == Len(s)
           size(j) == Len(t[s[j].path].raw)
           sizes == [j \in 1 .. n |-> size(j)]
<1>1. n \in Nat /\ DOMAIN s = 1 .. n
  BY LenProperties
<1>2. \A k \in 1 .. n : size(k) \in Nat
  <2> TAKE k \in 1 .. n
  <2>1. s[k] \in Snapshots
    BY <1>1, ElementOfSeq
  <2>2. t[s[k].path] \in Nodes
    BY <2>1 DEF Snapshots
  <2> QED BY <2>2, NodeSize
<1> HIDE DEF n, size
<1>3. sizes \in Seq(Nat) /\ Len(sizes) = n
  BY <1>1, <1>2
<1>4. \A k \in 0 .. n : SnapshotsUpTo(s, t, k) = UpTo(sizes, k)
  <2> TAKE k \in 0 .. n
  <2>1. [j \in 1 .. k |-> size(j)] = [j \in 1 .. k |-> sizes[j]]
    BY <1>1
  <2> QED BY <2>1 DEF SnapshotsUpTo, UpTo, size
<1>5. \A k \in 1 .. n : sizes[k] = size(k) /\ k - 1 \in 0 .. n /\ k \in 0 .. n
  BY <1>1
<1>6. 0 \in 0 .. n
  BY <1>1
<1> HIDE DEF sizes
<1>7. /\ \A k \in 0 .. n : SnapshotsUpTo(s, t, k) \in Nat
      /\ SnapshotsUpTo(s, t, 0) = 0
      /\ \A k \in 1 .. n : SnapshotsUpTo(s, t, k) = SnapshotsUpTo(s, t, k - 1) + size(k)
      /\ \A i, j \in 0 .. n : i <= j => SnapshotsUpTo(s, t, i) <= SnapshotsUpTo(s, t, j)
  BY <1>3, <1>4, <1>5, <1>6, TotalsGrow
<1> QED BY <1>1, <1>2, <1>7 DEF n, size

\* One more snapshot adds its bytes.
LEMMA SnapshotAdds ==
  ASSUME NEW s \in Seq(Snapshots), NEW x \in Snapshots, NEW t \in [Paths -> Nodes]
  PROVE  LET more == Append(s, x)
         IN  SnapshotsUpTo(more, t, Len(more)) = SnapshotsUpTo(s, t, Len(s)) + Len(t[x.path].raw)
<1> DEFINE more == Append(s, x)
           n == Len(s)
<1>1. /\ n \in Nat /\ more \in Seq(Snapshots) /\ Len(more) = n + 1
      /\ more[n + 1] = x /\ \A k \in 1 .. n : more[k] = s[k]
  <2> HIDE DEF Snapshots
  <2> QED BY AppendProperties, LenProperties
<1> HIDE DEF more, n
<1>2. SnapshotsUpTo(more, t, n + 1) = SnapshotsUpTo(more, t, n) + Len(t[x.path].raw)
  <2>1. n + 1 \in 1 .. Len(more) /\ n + 1 - 1 = n
    BY <1>1
  <2>2. PICK k \in 1 .. Len(more) : k = n + 1 /\ k - 1 = n
    BY <1>1, <2>1
  <2>3. SnapshotsUpTo(more, t, k) = SnapshotsUpTo(more, t, k - 1) + Len(t[more[k].path].raw)
    BY <1>1, SnapshotsGrow
  <2> QED BY <1>1, <2>2, <2>3
<1>3. SnapshotsUpTo(more, t, n) = SnapshotsUpTo(s, t, n)
  <2>1. [j \in 1 .. n |-> Len(t[more[j].path].raw)] = [j \in 1 .. n |-> Len(t[s[j].path].raw)]
    BY <1>1
  <2> QED BY <2>1 DEF SnapshotsUpTo
<1> QED BY <1>1, <1>2, <1>3 DEF more, n

(***************************************************************************)
(* What the sums and the refused sources decide.                           *)
(***************************************************************************)

\* The first source that is refused, met within the allowance.
LEMMA RefusalAnswers ==
  ASSUME NEW b, NEW t, NEW k \in Refused(b, t), Refused(b, t) \cap 1 .. k - 1 = {},
         SizeUpTo(b, t, k - 1) <= MAX_VERIFY_SOURCE_BYTES
  PROVE  QuietOutcome(b, t) = Failed("source_policy")
BY DEF QuietOutcome, RefusedInTime

\* The first source that exceeds the allowance, before any is refused.
LEMMA SpendingAnswers ==
  ASSUME NEW b, Readied(b), NEW t \in [Paths -> Nodes], NEW k \in 1 .. Len(b.blocks),
         Refused(b, t) \cap 1 .. k = {},
         SizeUpTo(b, t, k) > MAX_VERIFY_SOURCE_BYTES
  PROVE  QuietOutcome(b, t) = Failed("resource_limit")
<1> DEFINE n == Len(b.blocks)
           S(j) == SizeUpTo(b, t, j)
           M == MAX_VERIFY_SOURCE_BYTES
<1>1. /\ n \in Nat /\ DOMAIN b.blocks = 1 .. n /\ M \in Nat /\ k \in 0 .. n
      /\ \A j \in 0 .. n : S(j) \in Nat
      /\ \A i, j \in 0 .. n : i <= j => S(i) <= S(j)
  BY LenProperties, SizesGrow, LimitAssumption DEF Readied
<1>2. Refused(b, t) \subseteq 1 .. n
  BY <1>1 DEF Refused
<1>3. ~RefusedInTime(b, t)
  <2> SUFFICES ASSUME NEW j \in Refused(b, t), S(j - 1) <= M
               PROVE  FALSE
    BY DEF RefusedInTime
  <2>1. j \in 1 .. n /\ j \notin 1 .. k
    BY <1>2
  <2>2. k <= j - 1 /\ j - 1 \in 0 .. n
    BY <1>1, <2>1
  <2>3. S(k) <= S(j - 1) /\ S(k) \in Nat /\ S(j - 1) \in Nat
    BY <1>1, <2>2
  <2> HIDE DEF S
  <2> QED BY <1>1, <2>3 DEF S
<1>4. 2 * S(n) > M
  <2>1. S(k) <= S(n) /\ S(k) \in Nat /\ S(n) \in Nat /\ S(k) > M
    BY <1>1
  <2> HIDE DEF S, M
  <2> QED BY <1>1, <2>1
<1> QED BY <1>3, <1>4 DEF QuietOutcome

\* No source is refused, and all are read twice or not.
LEMMA ReadingAnswers ==
  ASSUME NEW b, NEW t, Refused(b, t) = {}
  PROVE  /\ 2 * SizeUpTo(b, t, Len(b.blocks)) > MAX_VERIFY_SOURCE_BYTES =>
              QuietOutcome(b, t) = Failed("resource_limit")
         /\ ~(2 * SizeUpTo(b, t, Len(b.blocks)) > MAX_VERIFY_SOURCE_BYTES) =>
              QuietOutcome(b, t) =
                Report([k \in 1 .. Len(b.blocks) |-> Judged(b, t, k)], 1)
BY DEF QuietOutcome, RefusedInTime

(***************************************************************************)
(* The inductive invariant: while nothing has changed, what the verifier   *)
(* has collected and spent is what the tree says of the blocks so far.     *)
(***************************************************************************)

AtRest == ~Changed(held)

\* The blocks read so far, and the bytes read again.
Seen   == IF pass = 1 THEN next - 1 ELSE Len(bundle.blocks)
Reread == IF pass = 1 THEN 0 ELSE SnapshotsUpTo(snapshots, tree, next - 1)

\* A snapshot describes what its path holds.
AsIs(s) ==
  LET node == tree[snapshots[s].path]
  IN  node.kind = "file" /\ Fits(node.raw) /\ snapshots[s].digest = source_sha256(node.raw)

Counted ==
  /\ blocks = [k \in 1 .. Seen |-> Judged(bundle, tree, k)]
  /\ Refused(bundle, tree) \cap 1 .. Seen = {}
  /\ remaining = MAX_VERIFY_SOURCE_BYTES - SizeUpTo(bundle, tree, Seen) - Reread
  /\ SnapshotsUpTo(snapshots, tree, Len(snapshots)) = SizeUpTo(bundle, tree, Seen)
  /\ \A s \in DOMAIN snapshots : AsIs(s)
  /\ pc = "read" => /\ tree[Target].kind = "file" /\ Fits(tree[Target].raw)
                    /\ window = {tree[Target].raw}

Unspent == pc \in {"root", "admit"} => remaining = MAX_VERIFY_SOURCE_BYTES

QuietInv ==
  /\ WitnessInv
  /\ Unspent /\ (Live /\ AtRest => Counted)
  /\ QuietTreeIsJudgedExactly

\* The types of what the invariant is about.
LEMMA QuietTypes ==
  ASSUME WitnessInv, Live
  PROVE  /\ Readied(bundle) /\ Admissible(bundle) /\ tree \in [Paths -> Nodes]
         /\ snapshots \in Seq(Snapshots)
         /\ pass \in 1 .. 2 /\ next \in 1 .. Sources + 1 /\ next \in Nat
         /\ Seen \in 0 .. Len(bundle.blocks)
         /\ remaining \in Nat /\ MAX_VERIFY_SOURCE_BYTES \in Nat
         /\ window \in SUBSET Contents
<1>1. /\ bundle \in Bundles /\ Admissible(bundle) /\ tree \in [Paths -> Nodes]
      /\ snapshots \in Seq(Snapshots) /\ window \in SUBSET Contents
      /\ pass \in 1 .. 2 /\ next \in 1 .. Sources + 1
      /\ remaining \in 0 .. MAX_VERIFY_SOURCE_BYTES
  BY DEF WitnessInv, AttestInv, TypeInv, TypeOK, Snapshots
<1>2. Readied(bundle)
  BY <1>1, BundlesAssumption, AdmissibleLocators DEF Readied
<1>3. Len(bundle.blocks) \in Nat /\ next \in Nat
  BY <1>1, <1>2, LenProperties DEF Readied
<1>4. Seen \in 0 .. Len(bundle.blocks)
  BY <1>1, <1>3 DEF Seen, Sources
<1> QED BY <1>1, <1>2, <1>3, <1>4, LimitAssumption

\* At rest there is no race, hence no second attempt.
LEMMA NoRace ==
  ASSUME WitnessInv, AtRest, pc # "done"
  PROVE  ~raced /\ attempt = 1
<1>1. ~Changed(DuringAttempt)
  BY ChangedAtAll DEF WitnessInv, AtRest
<1>2. attempt \in 1 .. 2
  BY DEF WitnessInv, AttestInv, TypeInv, TypeOK
<1> QED BY <1>1, <1>2 DEF WitnessInv, RaceSeen, AtRest

\* The source that a first pass looks at next is that of the next block; a
\* second pass looks at the path of a snapshot.
LEMMA NextSource ==
  ASSUME WitnessInv, Live, next <= Sources
  PROVE  /\ Target \in Paths /\ tree[Target] \in Nodes
         /\ pass = 1 => /\ next \in 1 .. Len(bundle.blocks) /\ Seen = next - 1
                        /\ tree[Target] = Source(bundle, tree, next)
         /\ pass = 2 => /\ next \in 1 .. Len(snapshots) /\ next \in DOMAIN snapshots
                        /\ Target = snapshots[next].path
<1>1. TypeInv /\ Readied(bundle) /\ snapshots \in Seq(Snapshots) /\ tree \in [Paths -> Nodes]
  BY QuietTypes DEF WitnessInv, AttestInv
<1>2. /\ DOMAIN bundle.blocks = 1 .. Len(bundle.blocks)
      /\ DOMAIN snapshots = 1 .. Len(snapshots)
  BY <1>1, LenProperties DEF Readied
<1>3. Target \in Paths
  BY <1>1, TargetType
<1>4. pass = 1 => next \in DOMAIN bundle.blocks /\ Target = Locator(next)
  BY <1>1, TargetType
<1>5. pass = 2 => next \in DOMAIN snapshots /\ Target = snapshots[next].path
  BY <1>1, TargetType DEF Target
<1> QED BY <1>1, <1>2, <1>3, <1>4, <1>5 DEF Source, Locator, Seen

\* Stopping keeps the invariant if the result is what the tree deserves.
LEMMA StopQuiet ==
  ASSUME QuietInv, WitnessInv', NEW result, Stop(result),
         Admissible(bundle) /\ AtRest =>
           result \in {Failed("root_open"), Failed("source_fault"), QuietOutcome(bundle, tree)}
  PROVE  QuietInv'
<1>1. pc' = "done" /\ outcome' = result /\ UNCHANGED <<bundle, tree, held>>
  BY DEF Stop, Control, environment
<1>2. QuietTreeIsJudgedExactly'
  BY <1>1 DEF QuietTreeIsJudgedExactly, AtRest, Changed
<1> QED BY <1>1, <1>2 DEF QuietInv, Unspent, Live

\* As long as there is no outcome nothing is judged.
LEMMA NotJudged ==
  ASSUME WitnessInv', pc' \in {"open", "read"}, AtRest' => Counted'
  PROVE  QuietInv'
BY DEF QuietInv, Unspent, QuietTreeIsJudgedExactly

\* Appending the next value of a function to its first ones.
LEMMA AppendNext ==
  ASSUME NEW S, NEW s \in Seq(S), NEW n \in Nat \ {0}, NEW f,
         s = [k \in 1 .. n - 1 |-> f[k]], f[n] \in S
  PROVE  Append(s, f[n]) = [k \in 1 .. n |-> f[k]]
<1>1. Len(s) = n - 1
  OBVIOUS
<1>2. /\ Append(s, f[n]) \in Seq(S) /\ Len(Append(s, f[n])) = n
      /\ \A k \in 1 .. n - 1 : Append(s, f[n])[k] = s[k]
      /\ Append(s, f[n])[n] = f[n]
  BY <1>1
<1>3. \A k \in 1 .. n : k = n \/ k \in 1 .. n - 1
  OBVIOUS
<1>4. \A k \in 1 .. n : Append(s, f[n])[k] = f[k]
  BY <1>2, <1>3
<1>5. DOMAIN Append(s, f[n]) = 1 .. n
  BY <1>2, LenProperties
<1> QED BY <1>2, <1>4, <1>5

\* The status of the next block joins those before it.
LEMMA StatusJoins ==
  ASSUME QuietInv, Live, pass = 1, Counted, next <= Sources,
         blocks' = Append(blocks, Judged(bundle, tree, next))
  PROVE  blocks' = [k \in 1 .. next |-> Judged(bundle, tree, k)]
<1> DEFINE f == [k \in 1 .. next |-> Judged(bundle, tree, k)]
<1>1. next \in Nat /\ next \in 1 .. Len(bundle.blocks) /\ Seen = next - 1
  BY QuietTypes, NextSource DEF QuietInv
<1>2. /\ blocks \in Seq(Statuses) /\ next \in Nat \ {0}
      /\ blocks = [k \in 1 .. next - 1 |-> Judged(bundle, tree, k)]
  BY <1>1 DEF QuietInv, WitnessInv, AttestInv, TypeInv, TypeOK, Counted
<1>3. Judged(bundle, tree, next) \in Statuses
  BY LiveStatuses DEF Judged, Statuses
<1>4. f[next] = Judged(bundle, tree, next) /\ blocks = [k \in 1 .. next - 1 |-> f[k]]
  BY <1>1, <1>2
<1>5. f = [k \in 1 .. next |-> f[k]]
  OBVIOUS
<1> HIDE DEF f
<1>6. Append(blocks, f[next]) = [k \in 1 .. next |-> f[k]]
  BY <1>2, <1>3, <1>4, AppendNext
<1> QED BY <1>4, <1>5, <1>6 DEF f

\* A source that does not exist.
LEMMA MissQuiet ==
  ASSUME QuietInv, WitnessInv', MissSource
  PROVE  QuietInv'
<1>1. /\ WitnessInv /\ Live /\ pc' = "open" /\ pc = "open"
      /\ next <= Sources /\ tree[Target] = Missing /\ next' = next + 1
      /\ UNCHANGED <<bundle, tree, held, pass, snapshots, remaining>>
  BY DEF MissSource, Control, environment, Live, QuietInv
<1> SUFFICES ASSUME AtRest
             PROVE  Counted'
  BY <1>1, NotJudged DEF AtRest, Changed
<1>2. /\ Readied(bundle) /\ tree \in [Paths -> Nodes] /\ pass \in 1 .. 2 /\ next \in Nat
      /\ MAX_VERIFY_SOURCE_BYTES \in Nat /\ Counted
  BY <1>1, QuietTypes DEF QuietInv
<1>3. pass = 1
  <2> SUFFICES ASSUME pass = 2
               PROVE  FALSE
    BY <1>2
  <2>1. AsIs(next) /\ Target = snapshots[next].path
    BY <1>1, <1>2, NextSource DEF Counted
  <2> QED BY <1>1, <2>1 DEF AsIs, Missing, Node
<1>4. /\ next \in 1 .. Len(bundle.blocks) /\ Source(bundle, tree, next) = Missing
      /\ Seen = next - 1 /\ Seen' = next /\ Reread = 0 /\ Reread' = 0
  BY <1>1, <1>2, <1>3, NextSource DEF Seen, Reread
<1>5. blocks' = Append(blocks, "stale")
  BY <1>3 DEF MissSource
<1>6. Judged(bundle, tree, next) = "stale"
  BY <1>4 DEF Judged
<1>7. blocks' = [k \in 1 .. next |-> Judged(bundle, tree, k)]
  BY <1>1, <1>2, <1>3, <1>5, <1>6, StatusJoins
<1>8. next \notin Refused(bundle, tree)
  <2>1. Source(bundle, tree, next).kind # "denied"
    BY <1>4 DEF Missing, Node
  <2>2. Len(Source(bundle, tree, next).raw) = 0 /\ bundle.budget.max_file_bytes \in Nat
    BY <1>1, <1>2, <1>3, <1>4, NextSource, NodeSize DEF Readied
  <2> QED BY <2>1, <2>2 DEF Refused
<1>9. Refused(bundle, tree) \cap 1 .. next = {}
  BY <1>2, <1>4, <1>8 DEF Counted
<1>10. SizeUpTo(bundle, tree, next) = SizeUpTo(bundle, tree, next - 1)
  <2>1. Len(Source(bundle, tree, next).raw) = 0
    BY <1>1, <1>2, <1>3, <1>4, NextSource, NodeSize
  <2>2. /\ SizeUpTo(bundle, tree, next)
              = SizeUpTo(bundle, tree, next - 1) + Len(Source(bundle, tree, next).raw)
        /\ next - 1 \in 0 .. Len(bundle.blocks)
        /\ \A k \in 0 .. Len(bundle.blocks) : SizeUpTo(bundle, tree, k) \in Nat
    BY <1>2, <1>4, SizesGrow
  <2> QED BY <2>1, <2>2
<1>11. \A s \in DOMAIN snapshots : AsIs(s)'
  BY <1>1, <1>2 DEF Counted, AsIs, Fits
<1> QED BY <1>1, <1>2, <1>4, <1>7, <1>9, <1>10, <1>11 DEF Counted

\* A source that is refused answers a first pass, and a second pass does not
\* meet one.
LEMMA RefuseQuiet ==
  ASSUME QuietInv, WitnessInv', RefuseSource
  PROVE  QuietInv'
<1>1. /\ WitnessInv /\ Live /\ pc = "open" /\ next <= Sources
      /\ \/ tree[Target].kind = "denied"
         \/ tree[Target].kind = "file" /\ ~Fits(tree[Target].raw)
      /\ Stop(Failed("source_policy"))
  BY DEF RefuseSource, Live, QuietInv
<1> SUFFICES ASSUME AtRest
             PROVE  Failed("source_policy") = QuietOutcome(bundle, tree)
  BY <1>1, StopQuiet
<1>2. /\ Readied(bundle) /\ tree \in [Paths -> Nodes] /\ pass \in 1 .. 2 /\ next \in Nat
      /\ MAX_VERIFY_SOURCE_BYTES \in Nat /\ remaining \in Nat /\ Counted
  BY <1>1, QuietTypes DEF QuietInv
<1>3. pass = 1
  <2> SUFFICES ASSUME pass = 2
               PROVE  FALSE
    BY <1>2
  <2>1. AsIs(next) /\ Target = snapshots[next].path
    BY <1>1, <1>2, NextSource DEF Counted
  <2> QED BY <1>1, <2>1 DEF AsIs
<1>4. /\ next \in 1 .. Len(bundle.blocks) /\ tree[Target] = Source(bundle, tree, next)
      /\ Seen = next - 1 /\ Reread = 0
  BY <1>1, <1>3, NextSource DEF Reread
<1>5. next \in Refused(bundle, tree)
  <2>1. Len(tree[Target].raw) \in Nat /\ bundle.budget.max_file_bytes \in Nat
    BY <1>1, <1>2, NextSource, NodeSize DEF Readied
  <2>2. next \in DOMAIN bundle.blocks
    BY <1>2, <1>4, LenProperties DEF Readied
  <2> QED BY <1>1, <1>4, <2>1, <2>2 DEF Refused, Fits
<1>6. SizeUpTo(bundle, tree, next - 1) <= MAX_VERIFY_SOURCE_BYTES
  <2>1. next - 1 \in 0 .. Len(bundle.blocks)
    BY <1>2, <1>4
  <2>2. SizeUpTo(bundle, tree, next - 1) \in Nat
    BY <1>2, <2>1, SizesGrow
  <2>3. remaining = MAX_VERIFY_SOURCE_BYTES - SizeUpTo(bundle, tree, next - 1) - 0
    BY <1>2, <1>4 DEF Counted
  <2> QED BY <1>2, <2>2, <2>3
<1> QED BY <1>2, <1>4, <1>5, <1>6, RefusalAnswers DEF Counted

\* A source that opens.
LEMMA OpenQuiet ==
  ASSUME QuietInv, WitnessInv', OpenSource
  PROVE  QuietInv'
<1>1. /\ WitnessInv /\ Live /\ pc' = "read"
      /\ tree[Target].kind = "file" /\ Fits(tree[Target].raw) /\ window' = {tree[Target].raw}
      /\ UNCHANGED <<bundle, tree, held, pass, next, blocks, snapshots, remaining>>
  BY DEF OpenSource, Control, environment, Live, QuietInv
<1> SUFFICES ASSUME AtRest
             PROVE  Counted'
  BY <1>1, NotJudged DEF AtRest, Changed
<1>2. Counted
  BY <1>1 DEF QuietInv
<1>3. Seen' = Seen /\ Reread' = Reread /\ Target' = Target
  BY <1>1 DEF Seen, Reread, Target
<1>4. \A s \in DOMAIN snapshots : AsIs(s)'
  BY <1>1, <1>2 DEF Counted, AsIs, Fits
<1> QED BY <1>1, <1>2, <1>3, <1>4 DEF Counted, Fits

\* At rest an open file yields what the tree holds.
LEMMA QuietReads ==
  ASSUME QuietInv, AtRest, pc = "read", NEW raw \in Readable(window)
  PROVE  raw = tree[Target].raw /\ tree[Target].kind = "file" /\ Fits(raw)
<1>1. Live /\ Counted /\ window \in SUBSET Contents
  BY QuietTypes DEF QuietInv, Live
<1>2. window = {tree[Target].raw} /\ tree[Target].kind = "file" /\ Fits(tree[Target].raw)
  BY <1>1 DEF Counted
<1>3. raw \in window
  BY <1>1, <1>2, OneVersion
<1> QED BY <1>2, <1>3

\* A source that is read the first time.
LEMMA CollectQuiet ==
  ASSUME QuietInv, WitnessInv', ReadSource, AtRest, pass = 1
  PROVE  Counted'
<1>1. /\ WitnessInv /\ Live /\ pc = "read" /\ pc' = "open" /\ next' = next + 1 /\ pass' = 1
      /\ UNCHANGED <<bundle, tree, held>>
  BY DEF ReadSource, Control, environment, Live, QuietInv
<1>2. PICK raw \in Readable(window) :
        Collect(raw) /\ remaining' = remaining - Len(raw)
  BY DEF ReadSource
<1>3. raw = tree[Target].raw /\ tree[Target].kind = "file" /\ Fits(raw)
  BY <1>1, QuietReads
<1>4. /\ Readied(bundle) /\ tree \in [Paths -> Nodes] /\ next \in Nat
      /\ snapshots \in Seq(Snapshots) /\ next <= Sources
      /\ MAX_VERIFY_SOURCE_BYTES \in Nat /\ remaining \in Nat /\ Counted
  BY <1>1, QuietTypes DEF QuietInv, WitnessInv, AttestInv, TypeInv, TypeOK
<1>5. /\ next \in 1 .. Len(bundle.blocks) /\ tree[Target] = Source(bundle, tree, next)
      /\ Target \in Paths
      /\ Seen = next - 1 /\ Seen' = next /\ Reread = 0 /\ Reread' = 0
  BY <1>1, <1>4, NextSource DEF Seen, Reread
<1> DEFINE size == Len(Source(bundle, tree, next).raw)
           snapshot == [path |-> Target, digest |-> source_sha256(raw)]
<1>6. /\ SizeUpTo(bundle, tree, next) = SizeUpTo(bundle, tree, next - 1) + size
      /\ SizeUpTo(bundle, tree, next - 1) \in Nat /\ size \in Nat
  <2>1. next - 1 \in 0 .. Len(bundle.blocks)
    BY <1>4, <1>5
  <2> QED BY <1>4, <1>5, <2>1, SizesGrow
<1>7. blocks' = [k \in 1 .. next |-> Judged(bundle, tree, k)]
  <2>1. Source(bundle, tree, next) # Missing
    BY <1>3, <1>5 DEF Missing, Node
  <2>2. blocks' = Append(blocks, Judged(bundle, tree, next))
    BY <1>2, <1>3, <1>5, <2>1 DEF Collect, Judged
  <2> QED BY <1>1, <1>4, <2>2, StatusJoins
<1>8. Refused(bundle, tree) \cap 1 .. next = {}
  <2>1. next \notin Refused(bundle, tree)
    BY <1>3, <1>4, <1>5, <1>6 DEF Refused, Fits, Readied
  <2> QED BY <1>4, <1>5, <2>1 DEF Counted
<1>9. remaining' = MAX_VERIFY_SOURCE_BYTES - SizeUpTo(bundle, tree, next) - 0
  <2>1. remaining = MAX_VERIFY_SOURCE_BYTES - SizeUpTo(bundle, tree, next - 1) - 0
        /\ remaining' = remaining - size
    BY <1>2, <1>3, <1>4, <1>5 DEF Counted
  <2> HIDE DEF size
  <2> QED BY <1>4, <1>6, <2>1
<1>10. snapshots' = Append(snapshots, snapshot) /\ snapshot \in Snapshots
  <2>1. snapshots' = Append(snapshots, snapshot)
    BY <1>2 DEF Collect
  <2>2. raw \in Seq(Nat)
    BY <1>1, <1>2, QuietTypes, ReadableType DEF QuietInv
  <2> QED BY <1>5, <2>1, <2>2 DEF Snapshots, source_sha256, SHA256
<1>11. SnapshotsUpTo(snapshots', tree, Len(snapshots')) = SizeUpTo(bundle, tree, next)
  <2>1. snapshot.path = Target /\ Len(tree[Target].raw) = size
    BY <1>5
  <2>2. SnapshotsUpTo(snapshots', tree, Len(snapshots'))
          = SnapshotsUpTo(snapshots, tree, Len(snapshots)) + size
    <3> HIDE DEF snapshot, size
    <3> QED BY <1>4, <1>10, <2>1, SnapshotAdds
  <2>3. SnapshotsUpTo(snapshots, tree, Len(snapshots)) = SizeUpTo(bundle, tree, next - 1)
    BY <1>4, <1>5 DEF Counted
  <2> QED BY <1>6, <2>2, <2>3
<1>12. \A s \in DOMAIN snapshots' : AsIs(s)'
  <2>1. ASSUME NEW s \in DOMAIN snapshots'
        PROVE  \/ s \in DOMAIN snapshots /\ snapshots'[s] = snapshots[s]
               \/ snapshots'[s] = snapshot
    <3> HIDE DEF snapshot
    <3> QED BY <1>4, <1>10, LenProperties, AppendProperties
  <2>2. ASSUME NEW s \in DOMAIN snapshots'
        PROVE  LET node == tree[snapshots'[s].path]
               IN  /\ node.kind = "file" /\ Fits(node.raw)
                   /\ snapshots'[s].digest = source_sha256(node.raw)
    <3>1. CASE s \in DOMAIN snapshots /\ snapshots'[s] = snapshots[s]
      BY <1>4, <3>1 DEF Counted, AsIs
    <3>2. CASE snapshots'[s] = snapshot
      BY <1>3, <3>2
    <3> QED BY <2>1, <3>1, <3>2
  <2> QED BY <1>1, <2>2 DEF AsIs, Fits
<1> QED BY <1>1, <1>5, <1>7, <1>8, <1>9, <1>11, <1>12 DEF Counted

\* A source that is read the second time.
LEMMA CompareQuiet ==
  ASSUME QuietInv, WitnessInv', ReadSource, AtRest, pass = 2
  PROVE  Counted'
<1>1. /\ WitnessInv /\ Live /\ pc = "read" /\ pc' = "open" /\ next' = next + 1 /\ pass' = 2
      /\ UNCHANGED <<bundle, tree, held>>
  BY DEF ReadSource, Control, environment, Live, QuietInv
<1>2. PICK raw \in Readable(window) :
        Compare(raw) /\ remaining' = remaining - Len(raw)
  BY DEF ReadSource
<1>3. raw = tree[Target].raw /\ UNCHANGED <<blocks, snapshots>>
  BY <1>1, <1>2, QuietReads DEF Compare
<1>4. /\ Readied(bundle) /\ tree \in [Paths -> Nodes] /\ next \in Nat
      /\ snapshots \in Seq(Snapshots) /\ next <= Sources /\ Seen \in 0 .. Len(bundle.blocks)
      /\ MAX_VERIFY_SOURCE_BYTES \in Nat /\ remaining \in Nat /\ Counted
  BY <1>1, QuietTypes DEF QuietInv, WitnessInv, AttestInv, TypeInv, TypeOK
<1>5. next \in 1 .. Len(snapshots) /\ Target = snapshots[next].path
  BY <1>1, <1>4, NextSource
<1>6. /\ Seen' = Seen /\ Reread = SnapshotsUpTo(snapshots, tree, next - 1)
      /\ Reread' = SnapshotsUpTo(snapshots, tree, next)
  BY <1>1, <1>3, <1>4 DEF Seen, Reread
<1>7. remaining' = MAX_VERIFY_SOURCE_BYTES - SizeUpTo(bundle, tree, Seen) - Reread'
  <2> DEFINE size == Len(tree[snapshots[next].path].raw)
  <2>1. /\ Reread' = Reread + size /\ size \in Nat /\ Reread \in Nat
    <3>1. next - 1 \in 0 .. Len(snapshots)
      BY <1>4, <1>5
    <3> QED BY <1>4, <1>5, <1>6, <3>1, SnapshotsGrow
  <2>2. SizeUpTo(bundle, tree, Seen) \in Nat
    BY <1>4, SizesGrow
  <2>3. /\ remaining = MAX_VERIFY_SOURCE_BYTES - SizeUpTo(bundle, tree, Seen) - Reread
        /\ remaining' = remaining - size
    BY <1>2, <1>3, <1>4, <1>5 DEF Counted
  <2> HIDE DEF size
  <2> QED BY <1>4, <2>1, <2>2, <2>3
<1>8. \A s \in DOMAIN snapshots : AsIs(s)'
  BY <1>1, <1>3, <1>4 DEF Counted, AsIs, Fits
<1> QED BY <1>1, <1>3, <1>4, <1>6, <1>7, <1>8 DEF Counted

\* A source that would exceed the allowance.
LEMMA SpendQuiet ==
  ASSUME QuietInv, WitnessInv', ReadTooMuch
  PROVE  QuietInv'
<1>1. WitnessInv /\ Live /\ pc = "read" /\ Stop(Failed("resource_limit"))
  BY DEF ReadTooMuch, Live, QuietInv
<1> SUFFICES ASSUME AtRest
             PROVE  Failed("resource_limit") = QuietOutcome(bundle, tree)
  BY <1>1, StopQuiet
<1>2. PICK raw \in Readable(window) : Fits(raw) /\ Len(raw) > remaining
  BY DEF ReadTooMuch
<1>3. raw = tree[Target].raw
  BY <1>1, <1>2, QuietReads
<1>4. /\ Readied(bundle) /\ tree \in [Paths -> Nodes] /\ next \in Nat /\ pass \in 1 .. 2
      /\ snapshots \in Seq(Snapshots) /\ next <= Sources /\ Seen \in 0 .. Len(bundle.blocks)
      /\ MAX_VERIFY_SOURCE_BYTES \in Nat /\ remaining \in Nat /\ Counted
  BY <1>1, QuietTypes DEF QuietInv, WitnessInv, AttestInv, TypeInv, TypeOK
<1> DEFINE M == MAX_VERIFY_SOURCE_BYTES
           n == Len(bundle.blocks)
           S(k) == SizeUpTo(bundle, tree, k)
<1>5. /\ n \in Nat /\ \A k \in 0 .. n : S(k) \in Nat
      /\ \A k \in 1 .. n : S(k) = S(k - 1) + Len(Source(bundle, tree, k).raw)
  BY <1>4, SizesGrow
<1>6. CASE pass = 1
  <2>1. /\ next \in 1 .. n /\ raw = Source(bundle, tree, next).raw
        /\ Seen = next - 1 /\ Reread = 0
    BY <1>1, <1>3, <1>4, <1>6, NextSource DEF Reread
  <2>2. next - 1 \in 0 .. n /\ next \in 0 .. n
    BY <1>4, <1>5, <2>1
  <2>3. remaining = M - S(next - 1) - 0
    BY <1>4, <2>1 DEF Counted
  <2>4. S(next) = S(next - 1) + Len(raw) /\ S(next) \in Nat /\ S(next - 1) \in Nat
    BY <1>5, <2>1, <2>2
  <2>5. Len(raw) \in Nat
    BY <1>1, <1>3, <1>4, NextSource, NodeSize
  <2>6. S(next) > M
    <3> HIDE DEF S, M
    <3> QED BY <1>2, <1>4, <2>3, <2>4, <2>5 DEF M
  <2>7. next \notin Refused(bundle, tree)
    <3>1. tree[Target].kind = "file" /\ tree[Target] = Source(bundle, tree, next)
      BY <1>1, <1>2, <1>4, <1>6, QuietReads, NextSource
    <3>2. Len(raw) <= bundle.budget.max_file_bytes /\ bundle.budget.max_file_bytes \in Nat
      BY <1>2, <1>4 DEF Fits, Readied
    <3> QED BY <2>1, <2>5, <3>1, <3>2 DEF Refused
  <2>8. Refused(bundle, tree) \cap 1 .. next = {}
    BY <1>4, <2>1, <2>7 DEF Counted
  <2> QED BY <1>4, <2>1, <2>6, <2>8, SpendingAnswers
<1>7. CASE pass = 2
  <2> DEFINE R(k) == SnapshotsUpTo(snapshots, tree, k)
  <2>1. /\ next \in 1 .. Len(snapshots) /\ raw = tree[snapshots[next].path].raw
        /\ Seen = n /\ Reread = R(next - 1)
    BY <1>1, <1>3, <1>4, <1>7, NextSource DEF Seen, Reread
  <2>2. /\ Len(snapshots) \in Nat /\ next - 1 \in 0 .. Len(snapshots)
        /\ next \in 0 .. Len(snapshots) /\ Len(snapshots) \in 0 .. Len(snapshots)
        /\ next <= Len(snapshots)
    BY <1>4, <2>1, LenProperties
  <2>3. /\ R(next) = R(next - 1) + Len(raw) /\ R(next - 1) \in Nat /\ Len(raw) \in Nat
        /\ R(next) <= R(Len(snapshots)) /\ R(Len(snapshots)) \in Nat
    BY <1>4, <2>1, <2>2, SnapshotsGrow
  <2>4. /\ remaining = M - S(n) - R(next - 1) /\ R(Len(snapshots)) = S(n)
        /\ S(n) \in Nat
    BY <1>4, <1>5, <2>1 DEF Counted
  <2>5. 2 * S(n) > M
    <3> HIDE DEF S, R, M, n
    <3> QED BY <1>2, <1>4, <2>3, <2>4 DEF M
  <2>6. Refused(bundle, tree) = {}
    <3>1. Refused(bundle, tree) \subseteq 1 .. n
      BY <1>4, LenProperties DEF Refused, Readied
    <3> QED BY <1>4, <2>1, <3>1 DEF Counted
  <2> QED BY <2>5, <2>6, ReadingAnswers
<1> QED BY <1>4, <1>6, <1>7

\* A source that is read within the allowance.
LEMMA ReadQuiet ==
  ASSUME QuietInv, WitnessInv', ReadSource
  PROVE  QuietInv'
<1>1. WitnessInv /\ Live /\ pc' = "open" /\ pass \in 1 .. 2 /\ held' = held
  BY QuietTypes DEF ReadSource, Control, environment, Live, QuietInv
<1>2. AtRest => Counted'
  BY <1>1, CollectQuiet, CompareQuiet
<1> QED BY <1>1, <1>2, NotJudged DEF AtRest, Changed

\* The first source is looked at with nothing collected and nothing spent.
LEMMA StartQuiet ==
  ASSUME QuietInv, WitnessInv', StartLive
  PROVE  QuietInv'
<1>1. /\ WitnessInv /\ pc = "admit" /\ pc' = "open"
      /\ UNCHANGED <<bundle, tree, pass, next, blocks, snapshots, remaining>>
  BY DEF StartLive, Control, environment, QuietInv
<1>2. /\ pass = 1 /\ next = 1 /\ blocks = <<>> /\ snapshots = <<>>
      /\ remaining = MAX_VERIFY_SOURCE_BYTES
  BY <1>1 DEF QuietInv, Unspent, WitnessInv, AttestInv, NotStarted, AllTaken
<1>3. WitnessInv' /\ Live'
  BY <1>1 DEF Live
<1>4. (Readied(bundle) /\ tree \in [Paths -> Nodes] /\ snapshots \in Seq(Snapshots))'
  BY <1>3, QuietTypes, PTL
<1>5. SizeUpTo(bundle, tree, 0) = 0 /\ SnapshotsUpTo(snapshots, tree, 0) = 0
  BY <1>1, <1>4, SizesGrow, SnapshotsGrow
<1>6. Seen' = 0 /\ Reread' = 0 /\ Len(snapshots) = 0
  BY <1>1, <1>2 DEF Seen, Reread
<1>7. blocks = [k \in 1 .. 0 |-> Judged(bundle, tree, k)]
  BY <1>2
<1>8. Counted'
  BY <1>1, <1>2, <1>5, <1>6, <1>7, LimitAssumption DEF Counted
<1> QED BY <1>1, <1>8, NotJudged

\* The second pass starts with every block judged and every source read once.
LEMMA RecheckQuiet ==
  ASSUME QuietInv, WitnessInv', BeginRecheck
  PROVE  QuietInv'
<1>1. /\ WitnessInv /\ Live /\ pc' = "open" /\ pc = "open" /\ pass = 1 /\ pass' = 2 /\ next' = 1
      /\ next > Sources
      /\ UNCHANGED <<bundle, tree, held, blocks, snapshots, remaining>>
  BY DEF BeginRecheck, Control, environment, Live, QuietInv
<1> SUFFICES ASSUME AtRest
             PROVE  Counted'
  BY <1>1, NotJudged DEF AtRest, Changed
<1>2. /\ Readied(bundle) /\ tree \in [Paths -> Nodes] /\ next \in Nat
      /\ snapshots \in Seq(Snapshots) /\ next \in 1 .. Sources + 1 /\ Counted
  BY <1>1, QuietTypes DEF QuietInv
<1>3. Seen' = Seen /\ Reread = 0
  <2>1. Len(bundle.blocks) \in Nat
    BY <1>2, LenProperties DEF Readied
  <2> QED BY <1>1, <1>2, <2>1 DEF Seen, Sources, Reread
<1>4. Reread' = 0
  <2>1. next' - 1 = 0
    BY <1>1
  <2> QED BY <1>1, <1>2, <2>1, SnapshotsGrow DEF Reread
<1>5. \A s \in DOMAIN snapshots : AsIs(s)'
  BY <1>1, <1>2 DEF Counted, AsIs, Fits
<1> QED BY <1>1, <1>2, <1>3, <1>4, <1>5 DEF Counted

\* The report is the one the tree deserves, and comes from the first attempt.
LEMMA ConcludeQuiet ==
  ASSUME QuietInv, WitnessInv', Conclude
  PROVE  QuietInv'
<1>1. /\ WitnessInv /\ Live /\ pc = "open" /\ pass = 2 /\ next > Sources
      /\ Stop(Report(blocks, attempt))
  BY DEF Conclude, AttemptEnds, Live, QuietInv
<1> SUFFICES ASSUME AtRest
             PROVE  Report(blocks, attempt) = QuietOutcome(bundle, tree)
  BY <1>1, StopQuiet
<1> DEFINE M == MAX_VERIFY_SOURCE_BYTES
           n == Len(bundle.blocks)
           S == SizeUpTo(bundle, tree, n)
<1>2. /\ Readied(bundle) /\ tree \in [Paths -> Nodes] /\ next \in Nat
      /\ snapshots \in Seq(Snapshots) /\ next \in 1 .. Sources + 1 /\ Counted
      /\ remaining \in Nat /\ M \in Nat
  BY <1>1, QuietTypes DEF QuietInv
<1>3. attempt = 1
  BY <1>1, NoRace
<1>4. Seen = n /\ n \in Nat /\ S \in Nat
  BY <1>1, <1>2, SizesGrow DEF Seen
<1>5. Refused(bundle, tree) = {} /\ blocks = [k \in 1 .. n |-> Judged(bundle, tree, k)]
  <2>1. Refused(bundle, tree) \subseteq 1 .. n
    BY <1>2, LenProperties DEF Refused, Readied
  <2> QED BY <1>2, <1>4, <2>1 DEF Counted
<1>6. Reread = S
  <2>1. Len(snapshots) \in Nat /\ next - 1 = Len(snapshots)
    BY <1>1, <1>2, LenProperties DEF Sources
  <2> QED BY <1>1, <1>2, <1>4, <2>1 DEF Reread, Counted
<1>7. ~(2 * S > M)
  <2>1. remaining = M - S - S
    BY <1>2, <1>4, <1>6 DEF Counted
  <2> HIDE DEF S, M
  <2> QED BY <1>2, <1>4, <2>1
<1> QED BY <1>3, <1>5, <1>7, ReadingAnswers

\* After a write the tree is not at rest.
LEMMA WriteQuiet ==
  ASSUME QuietInv, WitnessInv', NEW p \in Paths, NEW node \in Nodes, Write(p, node)
  PROVE  QuietInv'
<1>1. /\ pc' \in {"open", "read"} /\ tree[p] # node
      /\ held' = [held EXCEPT ![p] = @ \cup {node}]
  BY DEF Write, verifier
<1>2. held \in [Paths -> SUBSET Nodes] /\ tree[p] \in held[p]
  BY DEF QuietInv, WitnessInv, AttestInv, TypeInv, TypeOK, Nested
<1>3. Changed(held)'
  BY <1>1, <1>2 DEF Changed
<1> QED BY <1>1, <1>3, NotJudged DEF AtRest

\* Initially nothing is spent and nothing is judged.
LEMMA QuietInit == Init => QuietInv
BY WitnessInit DEF Init, QuietInv, Unspent, Live, QuietTreeIsJudgedExactly

\* Every step preserves the invariant.
LEMMA QuietStep == QuietInv /\ [Next]_vars => QuietInv'
<1> SUFFICES ASSUME QuietInv, [Next]_vars PROVE QuietInv'
  OBVIOUS
<1>0. WitnessInv /\ WitnessInv'
  BY WitnessStep DEF QuietInv
<1>1. CASE RootOpenFails
  BY <1>0, <1>1, StopQuiet DEF RootOpenFails
<1>2. CASE OpenRoot
  <2>1. /\ pc = "root" /\ pc' = "admit" /\ UNCHANGED remaining
    BY <1>2 DEF OpenRoot
  <2> QED BY <1>0, <2>1 DEF QuietInv, Unspent, Live, QuietTreeIsJudgedExactly
<1>3. CASE RejectSchema
  BY <1>0, <1>3, StopQuiet DEF RejectSchema, Admissible, Authentic
<1>4. CASE RejectLimits
  BY <1>0, <1>4, StopQuiet DEF RejectLimits, Admissible, Authentic
<1>5. CASE RejectPayload
  BY <1>0, <1>5, StopQuiet DEF RejectPayload, Admissible, Authentic
<1>6. CASE RejectLocator
  BY <1>0, <1>6, StopQuiet DEF RejectLocator, Admissible
<1>7. CASE RejectBlocks
  BY <1>0, <1>7, StopQuiet DEF RejectBlocks, Admissible
<1>8. CASE StartLive
  BY <1>0, <1>8, StartQuiet
<1>9. CASE MissSource
  BY <1>0, <1>9, MissQuiet
<1>10. CASE RefuseSource
  BY <1>0, <1>10, RefuseQuiet
<1>11. CASE OpenSource
  BY <1>0, <1>11, OpenQuiet
<1>12. CASE ReadSource
  BY <1>0, <1>12, ReadQuiet
<1>13. CASE ReadTooLarge
  <2>1. ~AtRest
    BY <1>13, QuietReads DEF ReadTooLarge
  <2> QED BY <1>0, <1>13, <2>1, StopQuiet DEF ReadTooLarge
<1>14. CASE ReadTooMuch
  BY <1>0, <1>14, SpendQuiet
<1>15. CASE ReadFault
  BY <1>0, <1>15, StopQuiet DEF ReadFault
<1>16. CASE BeginRecheck
  BY <1>0, <1>16, RecheckQuiet
<1>17. CASE Conclude
  BY <1>0, <1>17, ConcludeQuiet
<1>18. CASE Retry
  <2>1. raced /\ pc # "done" /\ pc' = "open" /\ held' = held
    BY <1>18 DEF Retry, AttemptEnds, Control, environment
  <2>2. ~AtRest'
    BY <1>0, <2>1, NoRace DEF AtRest, Changed
  <2> QED BY <1>0, <2>1, <2>2, NotJudged
<1>19. CASE GiveUp
  <2>1. raced /\ pc # "done" /\ Stop(Report(Downgraded(blocks), 2))
    BY <1>19 DEF GiveUp, AttemptEnds
  <2>2. ~AtRest
    BY <1>0, <2>1, NoRace
  <2> QED BY <1>0, <2>1, <2>2, StopQuiet
<1>20. ASSUME NEW p \in Paths, NEW node \in Nodes, Write(p, node)
       PROVE  QuietInv'
  BY <1>0, <1>20, WriteQuiet
<1>21. CASE UNCHANGED vars
  <2>1. UNCHANGED <<bundle, tree, held, pc, pass, next, window, blocks, snapshots,
                    remaining, outcome>>
    BY <1>21 DEF vars, verifier, environment, history
  <2>2. /\ Seen' = Seen /\ Reread' = Reread /\ Target' = Target
        /\ \A s \in DOMAIN snapshots : AsIs(s)' = AsIs(s)
    BY <2>1 DEF Seen, Reread, Target, AsIs, Fits
  <2>3. Counted => Counted'
    BY <2>1, <2>2 DEF Counted, Fits
  <2>4. QuietTreeIsJudgedExactly'
    BY <2>1 DEF QuietInv, QuietTreeIsJudgedExactly, Changed
  <2> QED BY <1>0, <2>1, <2>3, <2>4 DEF QuietInv, Unspent, Live, AtRest, Changed
<1> QED BY <1>1, <1>2, <1>3, <1>4, <1>5, <1>6, <1>7, <1>8, <1>9, <1>10, <1>11,
           <1>12, <1>13, <1>14, <1>15, <1>16, <1>17, <1>18, <1>19, <1>20, <1>21
        DEF Next, Verifier, Admit, Read, Finish, Done

\* If nothing was written and no I/O error came from outside, the outcome is
\* the one the tree deserves, the read allowance exact (verify_with_reader,
\* SourceReader::read).
THEOREM QuietJudgedExactly == Spec => []QuietTreeIsJudgedExactly
<1>1. QuietInv => QuietTreeIsJudgedExactly
  BY DEF QuietInv
<1> QED BY QuietInit, QuietStep, <1>1, PTL DEF Spec

(***************************************************************************)
(* In a tree where no file returns to a content it had before (FreshSpec)  *)
(* the two passes of an attempt amount to one look at the whole tree, and  *)
(* Verify implements AtomicVerify.                                         *)
(***************************************************************************)

FreshNext == Next /\ Fresh

\* The second pass has held nothing before it begins.
SecondPassEmpty == pass = 1 => \A p \in Paths : passHeld[2][p] = {}

\* A file that was there in both passes was there at the turn between them.
TurnInv ==
  \A p \in Paths : \A raw \in Contents :
    File(raw) \in passHeld[1][p] \cap passHeld[2][p] => turn[p] = File(raw)

FreshInv == AttestInv /\ Nested /\ SecondPassEmpty /\ TurnInv

\* Initially no pass has held anything.
LEMMA FreshInit == Init => FreshInv
<1> SUFFICES ASSUME Init PROVE FreshInv
  OBVIOUS
<1>1. AttestInv
  BY AttestInit
<1>2. \A i \in 1 .. 2, p \in Paths : passHeld[i][p] = {}
  BY DEF Init
<1>3. \A p \in Paths : tree[p] \in held[p]
  BY DEF Init
<1> QED BY <1>1, <1>2, <1>3 DEF FreshInv, Nested, SecondPassEmpty, TurnInv

\* What a step that starts a pass, and only such a step, does to the history.
LEMMA HistorySteps ==
  ASSUME AttestInv, Verifier
  PROVE  /\ UNCHANGED <<tree, held, bundle>>
         /\ \/ UNCHANGED <<pass, passHeld, turn>>
            \/ pass' = 1 /\ NewPass /\ turn' = turn
            \/ BeginRecheck
<1>1. CASE RootOpenFails
  BY <1>1 DEF RootOpenFails, Stop, Control, environment, history
<1>2. CASE OpenRoot
  BY <1>2 DEF OpenRoot, Control, environment, history
<1>3. CASE RejectSchema
  BY <1>3 DEF RejectSchema, Stop, Control, environment, history
<1>4. CASE RejectLimits
  BY <1>4 DEF RejectLimits, Stop, Control, environment, history
<1>5. CASE RejectPayload
  BY <1>5 DEF RejectPayload, Stop, Control, environment, history
<1>6. CASE RejectLocator
  BY <1>6 DEF RejectLocator, Stop, Control, environment, history
<1>7. CASE RejectBlocks
  BY <1>7 DEF RejectBlocks, Stop, Control, environment, history
<1>8. CASE StartLive
  BY <1>8 DEF StartLive, Control, environment, AttestInv, NotStarted
<1>9. CASE MissSource
  BY <1>9 DEF MissSource, Control, environment, history
<1>10. CASE RefuseSource
  BY <1>10 DEF RefuseSource, Stop, Control, environment, history
<1>11. CASE OpenSource
  BY <1>11 DEF OpenSource, Control, environment, history
<1>12. CASE ReadSource
  BY <1>12 DEF ReadSource, Control, environment, history
<1>13. CASE ReadTooLarge
  BY <1>13 DEF ReadTooLarge, Stop, Control, environment, history
<1>14. CASE ReadTooMuch
  BY <1>14 DEF ReadTooMuch, Stop, Control, environment, history
<1>15. CASE ReadFault
  BY <1>15 DEF ReadFault, Stop, Control, environment, history
<1>16. CASE BeginRecheck
  BY <1>16 DEF BeginRecheck, Control, environment
<1>17. CASE Conclude
  BY <1>17 DEF Conclude, Stop, Control, environment, history
<1>18. CASE Retry
  BY <1>18 DEF Retry, Control, environment
<1>19. CASE GiveUp
  BY <1>19 DEF GiveUp, Stop, Control, environment, history
<1> QED BY <1>1, <1>2, <1>3, <1>4, <1>5, <1>6, <1>7, <1>8, <1>9, <1>10, <1>11,
           <1>12, <1>13, <1>14, <1>15, <1>16, <1>17, <1>18, <1>19
        DEF Verifier, Admit, Read, Finish

\* A step of the verifier keeps the history in order.
LEMMA VerifierFresh ==
  ASSUME FreshInv, AttestInv', Verifier
  PROVE  FreshInv'
<1>1. AttestInv /\ UNCHANGED <<tree, held, bundle>>
  BY HistorySteps DEF FreshInv
<1>2. CASE UNCHANGED <<pass, passHeld, turn>>
  BY <1>1, <1>2 DEF FreshInv, Nested, SecondPassEmpty, TurnInv
<1>3. CASE pass' = 1 /\ NewPass /\ turn' = turn
  <2>1. \A p \in Paths : passHeld'[1][p] = {tree[p]} /\ passHeld'[2][p] = {}
    BY <1>3 DEF NewPass
  <2> QED BY <1>1, <1>3, <2>1 DEF FreshInv, Nested, SecondPassEmpty, TurnInv
<1>4. CASE BeginRecheck
  <2>1. /\ turn' = tree /\ pass' = 2
        /\ \A p \in Paths : /\ passHeld'[1][p] = passHeld[1][p]
                            /\ passHeld'[2][p] = {tree[p]}
    BY <1>1, <1>4 DEF BeginRecheck, AttestInv, TypeInv, TypeOK
  <2> QED BY <1>1, <2>1 DEF FreshInv, Nested, SecondPassEmpty, TurnInv
<1> QED BY <1>1, <1>2, <1>3, <1>4, HistorySteps

\* So does a write that brings nothing back.
LEMMA WriteFresh ==
  ASSUME FreshInv, AttestInv', NEW p \in Paths, NEW node \in Nodes,
         Write(p, node), Fresh
  PROVE  FreshInv'
<1>1. /\ tree \in [Paths -> Nodes] /\ tree' = [tree EXCEPT ![p] = node] /\ tree[p] # node
      /\ held \in [Paths -> SUBSET Nodes]
      /\ held' = [held EXCEPT ![p] = @ \cup {node}]
      /\ pass \in 1 .. 2 /\ passHeld \in [1 .. 2 -> [Paths -> SUBSET Nodes]]
      /\ passHeld' = [passHeld EXCEPT ![pass][p] = @ \cup {node}]
      /\ pass' = pass /\ turn' = turn
  BY DEF Write, verifier, FreshInv, AttestInv, TypeInv, TypeOK
<1>2. Nested'
  BY <1>1 DEF FreshInv, Nested
<1>3. SecondPassEmpty'
  BY <1>1 DEF FreshInv, SecondPassEmpty
<1>4. ASSUME NEW q \in Paths, NEW raw \in Contents,
             File(raw) \in passHeld'[1][q] \cap passHeld'[2][q]
      PROVE  turn'[q] = File(raw)
  <2>1. CASE File(raw) \in passHeld[1][q] \cap passHeld[2][q]
    BY <1>1, <1>4, <2>1 DEF FreshInv, TurnInv
  <2>2. CASE File(raw) \notin passHeld[1][q] \cap passHeld[2][q]
    <3>1. q = p /\ File(raw) = node
      BY <1>1, <1>4, <2>2
    <3>2. pass = 2
      BY <1>1, <1>3, <1>4 DEF SecondPassEmpty
    <3>3. File(raw) \in passHeld[1][q]
      BY <1>1, <1>4, <3>2
    <3>4. node.kind = "file" /\ tree'[p] = node
      BY <1>1, <3>1 DEF File, Node
    <3>5. node \notin held[p]
      BY <1>1, <3>4 DEF Fresh
    <3> QED BY <3>1, <3>3, <3>5 DEF FreshInv, Nested
  <2> QED BY <2>1, <2>2
<1> QED BY <1>2, <1>3, <1>4 DEF FreshInv, TurnInv

\* Every step after which no content comes back preserves the invariant.
LEMMA FreshStep == FreshInv /\ [FreshNext]_vars => FreshInv'
<1> SUFFICES ASSUME FreshInv, [FreshNext]_vars PROVE FreshInv'
  OBVIOUS
<1>1. AttestInv'
  BY AttestStep DEF FreshInv, FreshNext
<1>2. CASE Verifier
  BY <1>1, <1>2, VerifierFresh
<1>3. ASSUME NEW p \in Paths, NEW node \in Nodes, Write(p, node), Fresh
      PROVE  FreshInv'
  BY <1>1, <1>3, WriteFresh
<1>4. CASE UNCHANGED vars
  BY <1>1, <1>4 DEF vars, verifier, environment, history,
                    FreshInv, Nested, SecondPassEmpty, TurnInv
<1> QED BY <1>2, <1>3, <1>4 DEF FreshNext, Next, Done

\* The verifier takes no step after the outcome.
LEMMA VerifierRuns ==
  ASSUME AttestInv, Verifier
  PROVE  pc # "done" /\ outcome = NoOutcome
BY DEF Verifier, Admit, Read, Finish, RootOpenFails, OpenRoot, RejectSchema,
       RejectLimits, RejectPayload, RejectLocator, RejectBlocks, StartLive,
       MissSource, RefuseSource, OpenSource, ReadSource, ReadTooLarge, ReadTooMuch,
       ReadFault, BeginRecheck, Conclude, Retry, GiveUp, AttemptEnds,
       AttestInv, TypeInv

\* Only the end of an attempt without a race makes a verified report.
LEMMA OutcomeSteps ==
  ASSUME AttestInv, Verifier
  PROVE  \/ Conclude
         \/ outcome' = outcome
         \/ outcome'.kind # "none" /\ ~Reported("verified")' /\ turn' = turn
<1> USE DEF Stop, Control, environment, history, Failed, Reported
<1>1. CASE RootOpenFails
  BY <1>1 DEF RootOpenFails
<1>2. CASE RejectSchema
  BY <1>2 DEF RejectSchema
<1>3. CASE RejectLimits
  BY <1>3 DEF RejectLimits
<1>4. CASE RejectPayload
  BY <1>4 DEF RejectPayload, ForgedReport
<1>5. CASE RejectLocator
  BY <1>5 DEF RejectLocator
<1>6. CASE RejectBlocks
  BY <1>6 DEF RejectBlocks, Report, Aggregate
<1>7. CASE RefuseSource
  BY <1>7 DEF RefuseSource
<1>8. CASE ReadTooLarge
  BY <1>8 DEF ReadTooLarge
<1>9. CASE ReadTooMuch
  BY <1>9 DEF ReadTooMuch
<1>10. CASE ReadFault
  BY <1>10 DEF ReadFault
<1>11. CASE GiveUp
  <2>1. Aggregate(Downgraded(blocks)) # "verified"
    BY DowngradedType DEF AttestInv, TypeInv, TypeOK
  <2> QED BY <1>11, <2>1 DEF GiveUp, Report
<1>12. CASE OpenRoot \/ StartLive
  BY <1>12 DEF OpenRoot, StartLive
<1>13. CASE MissSource \/ OpenSource \/ ReadSource
  BY <1>13 DEF MissSource, OpenSource, ReadSource
<1>14. CASE BeginRecheck \/ Retry
  BY <1>14 DEF BeginRecheck, Retry
<1> QED BY <1>1, <1>2, <1>3, <1>4, <1>5, <1>6, <1>7, <1>8, <1>9, <1>10, <1>11,
           <1>12, <1>13, <1>14 DEF Verifier, Admit, Read, Finish

\* An attempt that ends without a race saw every cited file at the turn.
LEMMA ConcludeSnapshot ==
  ASSUME FreshInv, Conclude, Aggregate(blocks) = "verified"
  PROVE  /\ bundle.blocks # <<>>
         /\ \A k \in DOMAIN bundle.blocks :
              AttestedBy(bundle.blocks[k], turn[Locator(k)])
<1>1. AllHeld
  BY ConcludeAttests DEF Conclude, FreshInv
<1>2. ASSUME NEW k \in DOMAIN bundle.blocks
      PROVE  AttestedBy(bundle.blocks[k], turn[Locator(k)])
  <2>1. PICK raw \in Contents :
          /\ File(raw) \in passHeld[1][Locator(k)] \cap passHeld[2][Locator(k)]
          /\ Attests(bundle.blocks[k], raw)
    BY <1>1, <1>2 DEF AllHeld
  <2>2. Locator(k) \in Paths
    BY <1>2, AdmissibleLocators
    DEF Conclude, AttemptEnds, Live, FreshInv, AttestInv, TypeInv, Locator
  <2>3. turn[Locator(k)] = File(raw)
    BY <2>1, <2>2 DEF FreshInv, TurnInv
  <2> QED BY <2>1, <2>3 DEF AttestedBy, File, Node
<1> QED BY <1>1, <1>2 DEF AllHeld

\* Steps after the outcome leave the turn alone.
LEMMA SnapshotStep ==
  ASSUME FreshInv, VerifiedIsSnapshot, [FreshNext]_vars
  PROVE  VerifiedIsSnapshot'
<1>1. CASE Conclude
  <2>1. UNCHANGED <<bundle, turn>> /\ outcome' = Report(blocks, attempt)
    BY <1>1 DEF Conclude, Stop, Control, history
  <2>2. CASE Aggregate(blocks) = "verified"
    BY <1>1, <2>1, <2>2, ConcludeSnapshot DEF VerifiedIsSnapshot, Locator
  <2>3. CASE Aggregate(blocks) # "verified"
    BY <2>1, <2>3 DEF VerifiedIsSnapshot, Reported, Report
  <2> QED BY <2>2, <2>3
<1>2. CASE Verifier /\ outcome' = outcome
  BY <1>2, VerifierRuns DEF VerifiedIsSnapshot, Reported, NoOutcome, FreshInv
<1>3. CASE ~Reported("verified")'
  BY <1>3 DEF VerifiedIsSnapshot
<1>4. ASSUME NEW p \in Paths, NEW node \in Nodes, Write(p, node)
      PROVE  VerifiedIsSnapshot'
  BY <1>4 DEF Write, verifier, VerifiedIsSnapshot, Reported, Locator
<1>5. CASE UNCHANGED vars
  BY <1>5 DEF vars, verifier, history, VerifiedIsSnapshot, Reported, Locator
<1> QED BY <1>1, <1>2, <1>3, <1>4, <1>5, OutcomeSteps
        DEF FreshNext, Next, Done, FreshInv

\* In a tree where no file returns to a content it had before, a verified
\* report describes the whole tree as it was at one instant.
THEOREM VerifiedSnapshot == FreshSpec => []VerifiedIsSnapshot
<1>1. Init => VerifiedIsSnapshot
  BY DEF Init, VerifiedIsSnapshot, Reported, NoOutcome
<1>2. FreshInv /\ VerifiedIsSnapshot /\ [FreshNext]_vars
        => FreshInv' /\ VerifiedIsSnapshot'
  BY FreshStep, SnapshotStep
<1> QED BY FreshInit, <1>1, <1>2, PTL DEF FreshSpec, FreshNext

(***************************************************************************)
(* Verify implements AtomicVerify.                                         *)
(***************************************************************************)

\* The observable outcome has not come yet.
LEMMA Unanswered == TypeInv /\ pc # "done" => Answered = "none"
BY DEF TypeInv, Answered, NoOutcome

\* Initially nothing is answered, whatever tree the abstract verifier sees.
LEMMA AtomicInit == Init => Atomic!Init
BY DEF Init, Atomic!Init, Answered, NoOutcome

\* The turn to the second pass looks, the outcome answers, and every other
\* step of the verifier is none of the abstract one.
LEMMA AtomicStep ==
  ASSUME FreshInv, FreshInv', VerifiedIsSnapshot', [FreshNext]_vars
  PROVE  [Atomic!Next]_Atomic!vars
<1>1. TypeInv /\ TypeInv'
  BY DEF FreshInv, AttestInv
<1>2. ASSUME Verifier, outcome' # outcome
      PROVE  Atomic!Next
  <2>1. /\ UNCHANGED <<tree, bundle, turn>> /\ outcome'.kind # "none"
        /\ Reported("verified")' => bundle.blocks # <<>>
    <3>1. CASE Conclude
      <4>1. UNCHANGED <<tree, bundle, turn>> /\ outcome' = Report(blocks, attempt)
        BY <3>1 DEF Conclude, Stop, Control, environment, history
      <4> QED BY <3>1, <4>1, ConcludeSnapshot DEF Reported, Report
    <3>2. CASE ~Conclude
      BY <1>2, <3>2, OutcomeSteps, HistorySteps DEF FreshInv
    <3> QED BY <3>1, <3>2
  <2>2. Answered = "none"
    BY <1>1, <1>2, VerifierRuns, Unanswered DEF FreshInv
  <2>3. Reported("verified")' => Atomic!AllAttested
    BY <2>1 DEF Atomic!AllAttested, VerifiedIsSnapshot, Locator
  <2>4. Answered' = IF Reported("verified")' THEN "verified" ELSE "other"
    BY <2>1 DEF Answered
  <2>5. Atomic!Answer(Answered')
    BY <2>1, <2>2, <2>3, <2>4 DEF Atomic!Answer
  <2> QED BY <2>4, <2>5 DEF Atomic!Next
<1>3. ASSUME Verifier, outcome' = outcome
      PROVE  Atomic!Next \/ UNCHANGED Atomic!vars
  <2>1. UNCHANGED <<tree, bundle>> /\ Answered = "none" /\ Answered' = Answered
    BY <1>1, <1>3, HistorySteps, VerifierRuns, Unanswered
    DEF FreshInv, Answered, Reported
  <2>2. CASE BeginRecheck
    <3>1. Atomic!Observe
      BY <2>1, <2>2 DEF BeginRecheck, Atomic!Observe
    <3> QED BY <3>1 DEF Atomic!Next
  <2>3. CASE turn' = turn
    BY <2>1, <2>3 DEF Atomic!vars
  <2> QED BY <1>3, <2>2, <2>3, HistorySteps DEF FreshInv
<1>4. ASSUME NEW p \in Paths, NEW node \in Nodes, Write(p, node)
      PROVE  Atomic!Next
  <2>1. Answered = "none" /\ UNCHANGED <<bundle, turn, Answered>>
    BY <1>1, <1>4, Unanswered DEF Write, verifier, Answered, Reported
  <2>2. tree' \in [Paths -> Nodes]
    BY <1>1 DEF TypeInv, TypeOK
  <2> QED BY <2>1, <2>2 DEF Atomic!Next, Atomic!Write
<1>5. CASE UNCHANGED vars
  BY <1>5 DEF vars, verifier, environment, history, Atomic!vars, Answered, Reported
<1> QED BY <1>2, <1>3, <1>4, <1>5 DEF FreshNext, Next, Done

\* Under FreshSpec the reads of an attempt amount to one look at the tree.
THEOREM VerifyImplementsAtomic == FreshSpec => ImplementsAtomic
<1>1. Init => VerifiedIsSnapshot
  BY DEF Init, VerifiedIsSnapshot, Reported, NoOutcome
<1>2. FreshInv /\ VerifiedIsSnapshot /\ [FreshNext]_vars
        => FreshInv' /\ VerifiedIsSnapshot' /\ [Atomic!Next]_Atomic!vars
  BY FreshStep, SnapshotStep, AtomicStep
<1> QED BY FreshInit, AtomicInit, <1>1, <1>2, PTL
        DEF FreshSpec, FreshNext, ImplementsAtomic, Atomic!Spec
=============================================================================
