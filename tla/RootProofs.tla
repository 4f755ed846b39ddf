----------------------------- MODULE RootProofs -----------------------------
(***************************************************************************)
(* Theorems about RootOpen, for any tree, root path and number of changes. *)
(***************************************************************************)
EXTENDS RootOpen, FiniteSetTheorems, SequenceTheorems, TLAPS

Parts == Names \cup {ParentDir}

\* What the names still to open can be.
Supplies == Names \cup ({ParentDir} \cap ToSet(root.parts))

\* Of the hops the last ones, as many as there are guarded names, open those
\* without following links, and the others follow.
Ahead(hops, guarded) ==
  \A j \in 1 .. Len(hops) :
    /\ hops[j].follow <=> Len(hops) - j >= Len(guarded)
    /\ Len(hops) - j < Len(guarded) =>
         hops[j].name = guarded[Len(guarded) - (Len(hops) - j)]

(***************************************************************************)
(* The operators.                                                          *)
(***************************************************************************)

\* A supplied path is a sequence of names, and of dot-dots if the root that was
\* asked for has any.
LEMMA SuppliedType ==
  ASSUME root \in Roots
  PROVE  /\ Supplied \in Seq(Parts)
         /\ \A k \in 1 .. Len(Supplied) : Supplied[k] \in ToSet(root.parts)
<1> DEFINE parts == root.parts
<1>1. parts \in Seq(Names \cup {CurDir, ParentDir})
  BY RootsAssumption
<1>2. \A k \in 1 .. Len(parts) : k > 1 => parts[k] \in Parts
  BY <1>1, RootsAssumption, ElementOfSeq, LenProperties DEF Parts
<1>3. Len(parts) \in Nat /\ DOMAIN parts = 1 .. Len(parts)
  BY <1>1, LenProperties
<1>4. CASE parts # <<>> /\ Head(parts) = CurDir
  <2>1. Supplied = Tail(parts)
    BY <1>4 DEF Supplied
  <2>2. /\ Len(Supplied) = Len(parts) - 1
        /\ \A k \in 1 .. Len(Supplied) : Supplied[k] = parts[k + 1]
        /\ Supplied \in Seq(Names \cup {CurDir, ParentDir})
    BY <1>1, <1>4, <2>1, HeadTailProperties
  <2>3. \A k \in 1 .. Len(Supplied) : k + 1 \in 1 .. Len(parts) /\ k + 1 > 1
    BY <2>2, <1>3
  <2>4. \A k \in 1 .. Len(Supplied) : Supplied[k] \in Parts
    BY <2>2, <2>3, <1>2
  <2> HIDE DEF parts
  <2>5. Supplied = [k \in 1 .. Len(Supplied) |-> Supplied[k]]
    BY <2>2
  <2>6. Supplied \in Seq(Parts)
    BY <2>2, <2>4, LenProperties
  <2>7. \A k \in 1 .. Len(Supplied) : Supplied[k] \in ToSet(parts)
    BY <2>2, <2>3, <1>3 DEF ToSet
  <2> QED BY <2>6, <2>7 DEF parts
<1>5. CASE ~(parts # <<>> /\ Head(parts) = CurDir)
  <2>1. Supplied = parts
    BY <1>5 DEF Supplied
  <2>2. \A k \in 1 .. Len(parts) : parts[k] \in Parts
    <3>1. parts # <<>> => parts[1] # CurDir /\ Head(parts) = parts[1]
      BY <1>5, <1>1, HeadTailProperties
    <3>2. ASSUME NEW k \in 1 .. Len(parts), k = 1 PROVE parts[k] \in Parts
      BY <3>1, <3>2, <1>1, <1>3, ElementOfSeq, EmptySeq DEF Parts
    <3> QED BY <3>2, <1>2, <1>3
  <2> HIDE DEF parts
  <2>3. parts \in Seq(Parts)
    BY <1>1, <2>2, LenProperties
  <2>4. \A k \in 1 .. Len(parts) : parts[k] \in ToSet(parts)
    BY <1>3 DEF ToSet
  <2> QED BY <2>1, <2>3, <2>4 DEF parts
<1> QED BY <1>4, <1>5

LEMMA SuppliedSupplies ==
  ASSUME root \in Roots
  PROVE  Supplied \in Seq(Supplies) /\ Supplied \in Seq(Parts)
<1>1. Supplied \in Seq(Parts) /\ \A k \in 1 .. Len(Supplied) : Supplied[k] \in ToSet(root.parts)
  BY SuppliedType
<1>2. \A k \in 1 .. Len(Supplied) : Supplied[k] \in Supplies
  BY <1>1, ElementOfSeq DEF Parts, Supplies
<1>3. Supplied \in Seq(Supplies)
  BY <1>1, <1>2, LenProperties
<1> QED BY <1>1, <1>3

\* A path has one hop for each of its names.
LEMMA HopsType ==
  ASSUME NEW T, NEW names \in Seq(T), NEW follow \in BOOLEAN
  PROVE  /\ Hops(names, follow) \in Seq([name : T, follow : BOOLEAN])
         /\ Len(Hops(names, follow)) = Len(names)
<1> DEFINE H == [name : T, follow : BOOLEAN]
           hops == Hops(names, follow)
           n == Len(names)
<1>1. n \in Nat /\ DOMAIN names = 1 .. n
  BY LenProperties
<1>2. \A k \in 1 .. n : names[k] \in T
  BY ElementOfSeq
<1>3. hops = [k \in 1 .. n |-> [name |-> names[k], follow |-> follow]]
  BY <1>1 DEF Hops
<1>4. hops \in [1 .. n -> H]
  BY <1>2, <1>3
<1>5. hops \in Seq(H) /\ Len(hops) = n
  <2> HIDE DEF H, hops, n
  <2>1. hops \in Seq(H)
    BY <1>1, <1>4
  <2>2. Len(hops) \in Nat /\ DOMAIN hops = 1 .. Len(hops)
    BY <2>1, LenProperties
  <2>3. DOMAIN hops = 1 .. n
    BY <1>4
  <2>4. \A k \in Nat : 1 .. k = 1 .. n => k = n
    BY <1>1
  <2> QED BY <2>1, <2>2, <2>3, <2>4
<1> QED BY <1>5

\* Names opened following links, then names opened without.
LEMMA FollowThenGuard ==
  ASSUME NEW T, NEW before \in Seq(T), NEW guarded \in Seq(T)
  PROVE  LET hops == Hops(before, TRUE) \o Hops(guarded, FALSE)
         IN  /\ hops \in Seq([name : T, follow : BOOLEAN])
             /\ Len(hops) = Len(before) + Len(guarded)
             /\ Ahead(hops, guarded)
<1> DEFINE H == [name : T, follow : BOOLEAN]
           f == Hops(before, TRUE)
           g == Hops(guarded, FALSE)
           hops == f \o g
           m == Len(before)
           n == Len(guarded)
<1>0. TRUE \in BOOLEAN /\ FALSE \in BOOLEAN
  OBVIOUS
<1>1. m \in Nat /\ n \in Nat
  BY LenProperties
<1>2. f \in Seq(H) /\ Len(f) = m /\ g \in Seq(H) /\ Len(g) = n
  BY <1>0, HopsType
<1>3. /\ \A k \in 1 .. m : f[k].follow
      /\ \A k \in 1 .. n : g[k].name = guarded[k] /\ ~g[k].follow
  <2>1. DOMAIN before = 1 .. m /\ DOMAIN guarded = 1 .. n
    BY LenProperties
  <2>2. \A k \in 1 .. m : f[k].follow
    BY <2>1 DEF Hops
  <2>3. \A k \in 1 .. n : g[k].name = guarded[k]
    BY <2>1 DEF Hops
  <2>4. \A k \in 1 .. n : ~g[k].follow
    BY <2>1 DEF Hops
  <2> QED BY <2>2, <2>3, <2>4
<1> HIDE DEF H, f, g
<1>4. /\ hops \in Seq(H) /\ Len(hops) = Len(f) + Len(g)
      /\ \A i \in 1 .. Len(f) + Len(g) : hops[i] = IF i <= Len(f) THEN f[i] ELSE g[i - Len(f)]
  BY <1>2, ConcatProperties
<1>5. Len(hops) = m + n
  BY <1>2, <1>3, <1>4
<1>6. ASSUME NEW j \in 1 .. m, j <= m
      PROVE  hops[j].follow /\ m + n - j >= n
  <2>1. j \in 1 .. Len(f) + Len(g) /\ j <= Len(f) /\ m + n - j >= n
    BY <1>1, <1>2
  <2>2. hops[j] = f[j]
    BY <1>4, <2>1
  <2> QED BY <2>1, <2>2, <1>3
<1>7. ASSUME NEW j \in m + 1 .. m + n
      PROVE  /\ ~hops[j].follow /\ hops[j].name = guarded[n - (m + n - j)]
             /\ ~(m + n - j >= n)
  <2>1. /\ j \in 1 .. Len(f) + Len(g) /\ ~(j <= Len(f)) /\ j - Len(f) = j - m
        /\ n - (m + n - j) = j - m /\ j - m \in 1 .. n /\ ~(m + n - j >= n)
    BY <1>1, <1>2
  <2>2. hops[j] = g[j - m]
    BY <1>4, <2>1
  <2>3. g[j - m].name = guarded[j - m] /\ ~g[j - m].follow
    BY <1>3, <2>1
  <2> QED BY <2>1, <2>2, <2>3
<1> HIDE DEF hops
<1>8. Ahead(hops, guarded)
  <2> SUFFICES ASSUME NEW j \in 1 .. m + n
               PROVE  /\ hops[j].follow <=> m + n - j >= n
                      /\ m + n - j < n => hops[j].name = guarded[n - (m + n - j)]
    BY <1>5 DEF Ahead
  <2>1. j \in 1 .. m \/ j \in m + 1 .. m + n
    BY <1>1
  <2>2. CASE j \in 1 .. m
    <3>1. j <= m /\ (m + n - j >= n => ~(m + n - j < n))
      BY <1>1, <2>2
    <3> QED BY <1>6, <2>2, <3>1
  <2>3. CASE j \in m + 1 .. m + n
    BY <1>7, <2>3
  <2> QED BY <2>1, <2>2, <2>3
<1> QED BY <1>4, <1>5, <1>8 DEF hops, H, f, g

\* Names opened without following links, none before.
LEMMA GuardAll ==
  ASSUME NEW T, NEW guarded \in Seq(T)
  PROVE  LET hops == Hops(guarded, FALSE)
         IN  /\ hops \in Seq([name : T, follow : BOOLEAN])
             /\ Len(hops) = Len(guarded)
             /\ Ahead(hops, guarded)
<1>1. <<>> \in Seq(T) /\ Len(<<>>) = 0
  BY EmptySeq
<1>2. Hops(<<>>, TRUE) = <<>>
  BY DEF Hops
<1>3. Hops(guarded, FALSE) \in Seq([name : T, follow : BOOLEAN])
  BY HopsType
<1>4. Hops(<<>>, TRUE) \o Hops(guarded, FALSE) = Hops(guarded, FALSE)
  BY <1>2, <1>3, ConcatEmptySeq
<1>5. LET hops == Hops(<<>>, TRUE) \o Hops(guarded, FALSE)
      IN  /\ hops \in Seq([name : T, follow : BOOLEAN])
          /\ Len(hops) = Len(<<>>) + Len(guarded)
          /\ Ahead(hops, guarded)
  BY <1>1, FollowThenGuard
<1>6. 0 + Len(guarded) = Len(guarded)
  BY LenProperties
<1> QED BY <1>1, <1>4, <1>5, <1>6, Zenon

\* verify guards the last name alone.
LEMMA VerifyGuard ==
  ASSUME NEW T, NEW names \in Seq(T)
  PROVE  LET guarded == IF names = <<>> THEN <<>> ELSE <<Last(names)>>
         IN  /\ VerifyHops(names) \in Seq([name : T, follow : BOOLEAN])
             /\ Len(VerifyHops(names)) = Len(names)
             /\ Len(names) >= Len(guarded)
             /\ guarded \in Seq(T)
             /\ Ahead(VerifyHops(names), guarded)
<1>1. CASE names = <<>>
  <2>1. VerifyHops(names) = <<>> /\ Len(<<>>) = 0 /\ \A S : <<>> \in Seq(S)
    BY <1>1, EmptySeq DEF VerifyHops
  <2>2. Ahead(<<>>, <<>>)
    BY <2>1 DEF Ahead
  <2>3. Len(names) = 0 /\ Len(VerifyHops(names)) = 0
    BY <1>1, <2>1
  <2>4. (IF names = <<>> THEN <<>> ELSE <<Last(names)>>) = <<>>
    BY <1>1
  <2>5. 0 >= 0
    OBVIOUS
  <2> QED BY <1>1, <2>1, <2>2, <2>3, <2>4, <2>5, Zenon
<1>2. CASE names # <<>>
  <2>1. Len(names) \in Nat \ {0}
    BY <1>2, EmptySeq
  <2>2. Front(names) \in Seq(T) /\ Len(Front(names)) = Len(names) - 1
    <3>1. \A i \in 1 .. Len(names) - 1 : names[i] \in T
      BY <2>1, ElementOfSeq
    <3> DEFINE n == Len(names) - 1
    <3>2. n \in Nat /\ 1 \in Int /\ n \in Int
      BY <2>1
    <3> HIDE DEF n
    <3>3. /\ SubSeq(names, 1, n) \in Seq(T)
          /\ Len(SubSeq(names, 1, n)) = IF 1 <= n THEN n - 1 + 1 ELSE 0
      BY <3>1, <3>2, SubSeqProperties DEF n
    <3>4. Len(SubSeq(names, 1, n)) = n
      BY <3>2, <3>3
    <3> QED BY <3>3, <3>4 DEF Front, n
  <2>3. Last(names) \in T
    BY <2>1, ElementOfSeq DEF Last
  <2>4. <<Last(names)>> \in Seq(T) /\ Len(<<Last(names)>>) = 1
    BY <2>3
  <2>5. VerifyHops(names) = Hops(Front(names), TRUE) \o Hops(<<Last(names)>>, FALSE)
    BY <1>2 DEF VerifyHops
  <2>6. LET hops == Hops(Front(names), TRUE) \o Hops(<<Last(names)>>, FALSE)
        IN  /\ hops \in Seq([name : T, follow : BOOLEAN])
            /\ Len(hops) = Len(Front(names)) + Len(<<Last(names)>>)
            /\ Ahead(hops, <<Last(names)>>)
    BY <2>2, <2>4, FollowThenGuard
  <2>7. Len(VerifyHops(names)) = Len(names)
    <3>1. Len(VerifyHops(names)) = Len(Front(names)) + Len(<<Last(names)>>)
      BY <2>5, <2>6, Zenon
    <3> QED BY <3>1, <2>1, <2>2, <2>4
  <2>8. (IF names = <<>> THEN <<>> ELSE <<Last(names)>>) = <<Last(names)>>
    BY <1>2
  <2>9. Len(names) >= Len(<<Last(names)>>)
    BY <2>1, <2>4
  <2> QED BY <2>4, <2>5, <2>6, <2>7, <2>8, <2>9, Zenon
<1> QED BY <1>1, <1>2

\* Canonical names are names.
LEMMA PlacesType ==
  ASSUME NEW e, NEW d, NEW names \in PlacesOf(e, d)
  PROVE  names \in Seq(Names)
<1>1. Cardinality(Dirs) \in Nat
  BY FS_CardinalityType, RootsAssumption
<1>2. PICK n \in 0 .. Cardinality(Dirs) : names \in [1 .. n -> Names]
  BY DEF PlacesOf, NameLists
<1>3. n \in Nat
  BY <1>1, <1>2
<1> QED BY <1>2, <1>3

(***************************************************************************)
(* The invariant.                                                          *)
(***************************************************************************)

Opening == pc \in {"hop", "ask"} \/ IsOpened

Present == \A d \in Dirs, n \in Names : entries[d][n] \in held[d][n]

\* The directories passed so far by guarded names.
Passed == IF Len(todo) >= Len(Guarded) THEN 0 ELSE Len(Guarded) - Len(todo)

Behind ==
  /\ Len(trail) = 1 + Passed
  /\ \A k \in 1 .. Passed : /\ Guarded[k] \in Names
                            /\ Dir(trail[k + 1]) \in held[trail[k]][Guarded[k]]

Anchored ==
  opener = "core" /\ root.absolute => Len(todo) <= Len(Guarded) /\ trail[1] = Top

OnTheWay ==
  /\ Guarded \in Seq(Supplies) /\ Ahead(todo, Guarded)
  /\ Behind /\ Anchored

\* What is true of pc alone.
Stages ==
  /\ pc # "done" => outcome = NoOutcome
  /\ pc = "start" => base = <<>> /\ trail = <<Top>> /\ at = Top
  /\ pc = "cwd" => /\ opener = "core" /\ ~root.absolute
                   /\ trail = <<Top>> /\ at = Top
  /\ pc = "ask" => opener = "core" /\ ~Hop.follow /\ Hop.name # ParentDir
  /\ IsOpened => todo = <<>>

TypeInv ==
  /\ TypeOK
  /\ todo \in Seq([name : Supplies, follow : BOOLEAN])

RootInv == TypeInv /\ Present /\ Stages /\ (Opening => OnTheWay)

LEMMA RootInit == Init => RootInv
<1> SUFFICES ASSUME Init PROVE RootInv
  OBVIOUS
<1>1. TypeOK
  <2>1. held \in [Dirs -> [Names -> SUBSET Entries]]
    BY DEF Init
  <2>2. <<>> \in Seq(Names) /\ <<>> \in Seq(HopType)
    BY EmptySeq
  <2>3. <<Top>> \in Seq(Dirs) /\ <<Top>> # <<>> /\ Top = Last(<<Top>>)
    BY RootsAssumption DEF Last
  <2> QED BY <2>1, <2>2, <2>3, RootsAssumption DEF Init, TypeOK, NoOutcome
<1>2. TypeInv
  BY <1>1, EmptySeq DEF Init, TypeInv
<1>3. Present
  BY DEF Init, Present
<1>4. Stages /\ ~Opening
  BY DEF Init, Stages, Opening, IsOpened, NoOutcome
<1> QED BY <1>2, <1>3, <1>4 DEF RootInv

\* What depends on the root path alone does not change.
LEMMA GuardedStays ==
  /\ UNCHANGED root => Supplied' = Supplied /\ Supplies' = Supplies
  /\ UNCHANGED <<root, opener, base>> => Guarded' = Guarded
BY DEF Supplied, Supplies, Guarded

\* An opening that ends, with an error or after the last name.
LEMMA FinishKeeps ==
  ASSUME RootInv, NEW result, Finish(result), pc # "done",
         result.kind \in {"opened", "symlink", "invalid", "io"},
         result.kind = "opened" => pc = "hop" /\ todo = <<>>
  PROVE  RootInv'
<1>1. UNCHANGED <<environment, opener, root, base, todo, at, trail>> /\ pc' = "done" /\ outcome' = result
  BY DEF Finish, Control
<1>2. Guarded' = Guarded /\ Supplies' = Supplies
  BY <1>1, GuardedStays
<1>3. TypeInv'
  BY <1>1, <1>2 DEF RootInv, TypeInv, TypeOK, environment
<1>4. Present'
  BY <1>1 DEF RootInv, Present, environment
<1>5. Stages'
  BY <1>1 DEF Stages, IsOpened
<1>6. Opening' => Opening
  BY <1>1 DEF Opening, IsOpened
<1>7. OnTheWay => OnTheWay'
  BY <1>1, <1>2 DEF OnTheWay, Ahead, Behind, Passed, Anchored, environment
<1> QED BY <1>3, <1>4, <1>5, <1>6, <1>7 DEF RootInv

\* Setting out from the anchor with the hops of a path.
LEMMA SetOut ==
  ASSUME RootInv, UNCHANGED <<environment, opener, root>>, pc' = "hop",
         UNCHANGED outcome, pc # "done", base' \in Seq(Names),
         trail' = <<Top>>, at' = Top,
         todo' \in Seq([name : Supplies, follow : BOOLEAN]),
         Guarded' \in Seq(Supplies), Ahead(todo', Guarded'),
         Len(todo') >= Len(Guarded'),
         opener = "core" /\ root.absolute => Len(todo') = Len(Guarded')
  PROVE  RootInv'
<1>1. Supplies' = Supplies
  BY GuardedStays
<1>2. todo' \in Seq(HopType)
  <2>1. [name : Supplies, follow : BOOLEAN] \subseteq HopType
    BY DEF Supplies, HopType
  <2> QED BY <2>1, SeqMonotonic
<1>3. TypeInv'
  <2>1. <<Top>> \in Seq(Dirs) /\ <<Top>> # <<>> /\ Top = Last(<<Top>>)
    BY RootsAssumption DEF Last
  <2> QED BY <1>1, <1>2, <2>1 DEF RootInv, TypeInv, TypeOK, environment
<1>4. Present'
  BY DEF RootInv, Present, environment
<1>5. Stages'
  BY DEF RootInv, Stages, IsOpened, NoOutcome
<1>6. Len(todo') \in Nat /\ Len(Guarded') \in Nat
  BY LenProperties
<1>7. Passed' = 0
  BY <1>6 DEF Passed
<1>8. Behind'
  BY <1>7 DEF Behind
<1>9. Anchored'
  BY <1>6 DEF Anchored
<1>10. OnTheWay'
  BY <1>1, <1>8, <1>9 DEF OnTheWay
<1> QED BY <1>3, <1>4, <1>5, <1>10 DEF RootInv

\* What is guarded of a path of verify is its last name.
LEMMA VerifySetsOut ==
  ASSUME RootInv, UNCHANGED <<environment, opener, root>>, pc' = "hop",
         UNCHANGED outcome, pc # "done", base' \in Seq(Names),
         trail' = <<Top>>, at' = Top, opener = "verify",
         todo' = VerifyHops(base' \o Supplied)
  PROVE  RootInv'
<1> DEFINE names == base' \o Supplied
           guarded == IF names = <<>> THEN <<>> ELSE <<Last(names)>>
<1>1. Supplied \in Seq(Supplies) /\ base' \in Seq(Supplies)
  BY SuppliedSupplies, SeqMonotonic DEF RootInv, TypeInv, TypeOK, Supplies
<1>2. names \in Seq(Supplies) /\ (names = <<>> => Supplied = <<>>)
  BY <1>1, ConcatProperties, ConcatEqualIffEmpty
<1>3. Guarded' = guarded
  BY <1>2, GuardedStays DEF Guarded
<1>4. /\ todo' \in Seq([name : Supplies, follow : BOOLEAN])
      /\ Len(todo') >= Len(guarded) /\ guarded \in Seq(Supplies)
      /\ Ahead(todo', guarded)
  <2> HIDE DEF names
  <2>1. LET g == IF names = <<>> THEN <<>> ELSE <<Last(names)>>
        IN  /\ VerifyHops(names) \in Seq([name : Supplies, follow : BOOLEAN])
            /\ Len(VerifyHops(names)) = Len(names)
            /\ Len(names) >= Len(g)
            /\ g \in Seq(Supplies)
            /\ Ahead(VerifyHops(names), g)
    BY <1>2, VerifyGuard
  <2>2. todo' = VerifyHops(names)
    BY DEF names
  <2> QED BY <2>1, <2>2
<1> HIDE DEF guarded
<1> QED BY <1>3, <1>4, SetOut

LEMMA StartKeeps == RootInv /\ StartAtAnchor => RootInv'
<1> SUFFICES ASSUME RootInv, StartAtAnchor PROVE RootInv'
  OBVIOUS
<1>1. /\ UNCHANGED <<environment, opener, root>> /\ pc = "start" /\ pc' = "hop"
      /\ UNCHANGED <<base, outcome>> /\ trail' = <<Top>> /\ at' = Top
  BY DEF StartAtAnchor, Control
<1>2. base = <<>> /\ base' \in Seq(Names)
  BY <1>1, EmptySeq DEF RootInv, Stages
<1>3. Supplied \in Seq(Supplies)
  BY SuppliedSupplies DEF RootInv, TypeInv, TypeOK
<1>4. CASE opener = "verify"
  <2>1. todo' = VerifyHops(Supplied)
    BY <1>4 DEF StartAtAnchor
  <2>2. base' \o Supplied = Supplied
    BY <1>1, <1>2, <1>3, ConcatEmptySeq
  <2> QED BY <1>1, <1>2, <1>4, <2>1, <2>2, VerifySetsOut
<1>5. CASE opener = "core"
  <2>1. todo' = Hops(Supplied, FALSE)
    BY <1>5 DEF StartAtAnchor
  <2>2. Guarded' = Supplied
    BY <1>1, <1>5, GuardedStays DEF Guarded
  <2>3. /\ todo' \in Seq([name : Supplies, follow : BOOLEAN])
        /\ Len(todo') = Len(Supplied) /\ Ahead(todo', Supplied)
    BY <1>3, <2>1, GuardAll
  <2>4. Len(todo') >= Len(Guarded') /\ Len(todo') = Len(Guarded')
    BY <1>3, <2>2, <2>3, LenProperties
  <2> QED BY <1>1, <1>2, <1>3, <2>2, <2>3, <2>4, SetOut
<1> QED BY <1>4, <1>5, RootsAssumption DEF RootInv, TypeInv, TypeOK

LEMMA AskCurrentDirKeeps == RootInv /\ AskCurrentDir => RootInv'
<1> SUFFICES ASSUME RootInv, AskCurrentDir PROVE RootInv'
  OBVIOUS
<1>1. PICK names \in PlacesOf(entries, cwd) :
        /\ base' = names
        /\ IF opener = "verify"
           THEN pc' = "hop" /\ todo' = VerifyHops(names \o Supplied)
           ELSE pc' = "cwd" /\ todo' = todo
  BY DEF AskCurrentDir
<1>2. /\ UNCHANGED <<environment, opener, root>> /\ pc = "start" /\ ~root.absolute
      /\ UNCHANGED <<at, trail, outcome>>
  BY DEF AskCurrentDir, Control
<1>3. names \in Seq(Names) /\ trail = <<Top>> /\ at = Top
  BY <1>2, PlacesType DEF RootInv, Stages
<1>4. CASE opener = "verify"
  BY <1>1, <1>2, <1>3, <1>4, VerifySetsOut
<1>5. CASE opener = "core"
  <2>1. pc' = "cwd" /\ UNCHANGED todo /\ Supplies' = Supplies
    BY <1>1, <1>2, <1>5, GuardedStays
  <2>2. TypeInv'
    BY <1>1, <1>2, <1>3, <2>1 DEF RootInv, TypeInv, TypeOK, environment
  <2>3. Present'
    BY <1>2 DEF RootInv, Present, environment
  <2>4. Stages' /\ ~Opening'
    BY <1>2, <1>3, <1>5, <2>1 DEF RootInv, Stages, Opening, IsOpened, NoOutcome
  <2> QED BY <2>2, <2>3, <2>4 DEF RootInv
<1> QED BY <1>4, <1>5, RootsAssumption DEF RootInv, TypeInv, TypeOK

LEMMA CanonicalizeKeeps == RootInv /\ Canonicalize => RootInv'
<1> SUFFICES ASSUME RootInv, Canonicalize PROVE RootInv'
  OBVIOUS
<1> DEFINE d == Followed(entries, Top, base)
<1>1. PICK names \in PlacesOf(entries, d) :
        base' = names /\ todo' = Hops(names, TRUE) \o Hops(Supplied, FALSE)
  BY DEF Canonicalize
<1> HIDE DEF d
<1>2. /\ UNCHANGED <<environment, opener, root>> /\ pc = "cwd" /\ pc' = "hop"
      /\ UNCHANGED <<at, trail, outcome>>
  BY DEF Canonicalize, Control
<1>3. opener = "core" /\ ~root.absolute /\ trail = <<Top>> /\ at = Top
  BY <1>2 DEF RootInv, Stages
<1>4. names \in Seq(Names) /\ names \in Seq(Supplies) /\ Supplied \in Seq(Supplies)
  BY PlacesType, SuppliedSupplies, SeqMonotonic DEF RootInv, TypeInv, TypeOK, Supplies
<1>5. Guarded' = Supplied
  BY <1>2, <1>3, GuardedStays DEF Guarded
<1>6. /\ todo' \in Seq([name : Supplies, follow : BOOLEAN])
      /\ Len(todo') = Len(names) + Len(Supplied) /\ Ahead(todo', Supplied)
  BY <1>1, <1>4, FollowThenGuard
<1>7. Len(todo') >= Len(Supplied)
  BY <1>4, <1>6, LenProperties
<1> QED BY <1>1, <1>2, <1>3, <1>4, <1>5, <1>6, <1>7, SetOut

\* An entry leads to a directory.
LEMMA EntryKinds ==
  ASSUME NEW entry \in Entries
  PROVE  entry.to \in Dirs /\ (entry.kind = "dir" => entry = Dir(entry.to))
<1>1. CASE \E d \in Dirs \ {Top} : entry = Dir(d)
  BY <1>1 DEF Dir
<1>2. CASE \E d \in Dirs : entry = Link(d)
  BY <1>2 DEF Link
<1>3. CASE entry = Other
  BY <1>3, RootsAssumption DEF Other
<1> QED BY <1>1, <1>2, <1>3 DEF Entries

\* The next hop, and how many are left after it.
LEMMA NextHop ==
  ASSUME RootInv, todo # <<>>, pc \in {"hop", "ask"}
  PROVE  /\ Len(todo) \in Nat \ {0} /\ Hop = todo[1]
         /\ Hop.name \in Supplies /\ Hop.follow \in BOOLEAN
         /\ Hop.follow <=> Len(todo) - 1 >= Len(Guarded)
         /\ ~Hop.follow => Hop.name = Guarded[Len(Guarded) - (Len(todo) - 1)]
<1> DEFINE H == [name : Supplies, follow : BOOLEAN]
<1>1. todo \in Seq(H)
  BY DEF RootInv, TypeInv
<1>2. Len(todo) \in Nat \ {0} /\ Hop = todo[1] /\ Hop \in H
  <2> HIDE DEF H
  <2>1. Len(todo) \in Nat \ {0}
    BY <1>1, EmptySeq
  <2>2. Hop = todo[1]
    BY <1>1 DEF Hop
  <2>3. 1 \in 1 .. Len(todo)
    BY <2>1
  <2>4. todo[1] \in H
    BY <1>1, <2>3, ElementOfSeq
  <2> QED BY <2>1, <2>2, <2>4
<1>3. Ahead(todo, Guarded) /\ Guarded \in Seq(Supplies)
  BY DEF RootInv, Opening, OnTheWay
<1>4. 1 \in 1 .. Len(todo) /\ Len(Guarded) \in Nat
  BY <1>2, <1>3, LenProperties
<1>5. /\ todo[1].follow <=> Len(todo) - 1 >= Len(Guarded)
      /\ Len(todo) - 1 < Len(Guarded) => todo[1].name = Guarded[Len(Guarded) - (Len(todo) - 1)]
  BY <1>3, <1>4 DEF Ahead
<1>6. ~(Len(todo) - 1 >= Len(Guarded)) => Len(todo) - 1 < Len(Guarded)
  BY <1>2, <1>4
<1>7. ~Hop.follow => Len(todo) - 1 < Len(Guarded)
  BY <1>2, <1>5, <1>6
<1>8. Hop.name \in Supplies /\ Hop.follow \in BOOLEAN
  BY <1>2
<1> QED BY <1>2, <1>5, <1>7, <1>8

\* Where a real directory, or a followed link, was entered.
LEMMA EnterKeeps == RootInv /\ EnterDirectory => RootInv'
<1> SUFFICES ASSUME RootInv, EnterDirectory PROVE RootInv'
  OBVIOUS
<1> DEFINE entry == entries[at][Hop.name]
           H == [name : Supplies, follow : BOOLEAN]
           left == Len(todo) - 1
           n == Len(Guarded)
<1>1. /\ pc = "hop" /\ todo # <<>> /\ Hop.name # ParentDir
      /\ entry.kind = "dir" \/ (Hop.follow /\ entry.kind = "link")
      /\ at' = entry.to /\ todo' = Tail(todo)
      /\ trail' = IF Hop.follow THEN <<entry.to>> ELSE Append(trail, entry.to)
      /\ UNCHANGED <<pc, base, outcome, environment, opener, root>>
  BY DEF EnterDirectory, AtHop, Control
<1>2. TypeOK /\ todo \in Seq(H) /\ Present /\ Stages
  BY DEF RootInv, TypeInv
<1>3. /\ Guarded \in Seq(Supplies) /\ Ahead(todo, Guarded) /\ Behind /\ Anchored
  BY <1>1 DEF RootInv, Opening, OnTheWay
<1>4. /\ Len(todo) \in Nat \ {0} /\ Hop = todo[1]
      /\ Hop.name \in Supplies /\ Hop.follow \in BOOLEAN
      /\ Hop.follow <=> left >= n
      /\ ~Hop.follow => Hop.name = Guarded[n - left]
  BY <1>1, NextHop
<1>5. Guarded' = Guarded /\ Supplies' = Supplies
  BY <1>1, GuardedStays
<1>6. n \in Nat /\ left \in Nat
  BY <1>3, <1>4, LenProperties
<1>7. todo' \in Seq(H) /\ Len(todo') = left /\ \A i \in 1 .. left : todo'[i] = todo[i + 1]
  <2> HIDE DEF H
  <2> QED BY <1>1, <1>2, HeadTailProperties
<1>8. Hop.name \in Names /\ at \in Dirs /\ entry \in Entries /\ entry \in held[at][Hop.name]
  <2>1. Hop.name \in Names
    BY <1>1, <1>4 DEF Supplies
  <2>2. trail \in Seq(Dirs) /\ trail # <<>> /\ at = trail[Len(trail)]
    BY <1>2 DEF TypeOK, Last
  <2>3. at \in Dirs
    BY <2>2, EmptySeq, ElementOfSeq
  <2> QED BY <1>2, <2>1, <2>3 DEF TypeOK, Present
<1>9. entry.to \in Dirs /\ (entry.kind = "dir" => entry = Dir(entry.to))
  BY <1>8, EntryKinds
<1>10. Ahead(todo', Guarded')
  <2> SUFFICES ASSUME NEW j \in 1 .. left
               PROVE  /\ todo'[j].follow <=> left - j >= n
                      /\ left - j < n => todo'[j].name = Guarded[n - (left - j)]
    BY <1>5, <1>7 DEF Ahead
  <2>1. j + 1 \in 1 .. Len(todo) /\ Len(todo) - (j + 1) = left - j
    BY <1>4
  <2>2. todo'[j] = todo[j + 1]
    BY <1>7
  <2>3. /\ todo[j + 1].follow <=> Len(todo) - (j + 1) >= n
        /\ Len(todo) - (j + 1) < n => todo[j + 1].name = Guarded[n - (Len(todo) - (j + 1))]
    BY <1>3, <2>1 DEF Ahead
  <2> QED BY <2>1, <2>2, <2>3
<1>11. ASSUME Hop.follow
       PROVE  Behind' /\ Anchored' /\ trail' \in Seq(Dirs) /\ trail' # <<>> /\ at' = Last(trail')
  <2>1. trail' = <<entry.to>> /\ left >= n
    BY <1>1, <1>4, <1>11
  <2>2. Passed' = 0 /\ Len(trail') = 1
    BY <1>5, <1>6, <1>7, <2>1 DEF Passed
  <2>3. Behind'
    BY <2>2 DEF Behind
  <2>4. ~(opener = "core" /\ root.absolute)
    BY <1>3, <1>4, <1>6, <2>1 DEF Anchored
  <2>5. Anchored'
    BY <1>1, <2>4 DEF Anchored
  <2>6. trail' \in Seq(Dirs) /\ trail' # <<>> /\ at' = Last(trail')
    <3> HIDE DEF entry
    <3>1. <<entry.to>> \in Seq(Dirs) /\ <<entry.to>> # <<>>
      BY <1>9
    <3>2. Last(<<entry.to>>) = entry.to
      BY DEF Last
    <3> QED BY <1>1, <2>1, <3>1, <3>2
  <2> QED BY <2>3, <2>5, <2>6
<1>12. ASSUME ~Hop.follow
       PROVE  Behind' /\ Anchored' /\ trail' \in Seq(Dirs) /\ trail' # <<>> /\ at' = Last(trail')
  <2> HIDE DEF entry
  <2>1. trail' = Append(trail, entry.to) /\ left < n /\ entry = Dir(entry.to)
    <3>1. trail' = Append(trail, entry.to) /\ entry = Dir(entry.to) /\ ~(left >= n)
      BY <1>1, <1>4, <1>9, <1>12 DEF entry
    <3> QED BY <3>1, <1>6
  <2>2. Passed = n - left - 1 /\ Passed' = n - left /\ Passed \in Nat
    BY <1>4, <1>5, <1>6, <1>7, <2>1 DEF Passed
  <2>3. /\ Len(trail) = n - left /\ n - left \in Nat \ {0}
        /\ trail \in Seq(Dirs) /\ at = trail[n - left]
    BY <1>2, <1>3, <1>6, <2>1, <2>2 DEF Behind, TypeOK, Last
  <2>4. /\ trail' \in Seq(Dirs) /\ trail' # <<>> /\ Len(trail') = n - left + 1
        /\ \A i \in 1 .. n - left : trail'[i] = trail[i]
        /\ trail'[n - left + 1] = entry.to
    <3> DEFINE d == entry.to
    <3>1. d \in Dirs /\ trail' = Append(trail, d) /\ trail \in Seq(Dirs)
      BY <1>9, <2>1, <2>3
    <3> HIDE DEF d
    <3>2. /\ Append(trail, d) \in Seq(Dirs) /\ Append(trail, d) # <<>>
          /\ Len(Append(trail, d)) = Len(trail) + 1
          /\ \A i \in 1 .. Len(trail) : Append(trail, d)[i] = trail[i]
          /\ Append(trail, d)[Len(trail) + 1] = d
      BY <3>1, AppendProperties
    <3> QED BY <2>3, <3>1, <3>2 DEF d
  <2>5. ASSUME NEW k \in 1 .. n - left
        PROVE  /\ Guarded[k] \in Names
               /\ Dir(trail'[k + 1]) \in held[trail'[k]][Guarded[k]]
    <3>1. CASE k = n - left
      BY <1>4, <1>8, <1>12, <2>1, <2>3, <2>4, <3>1 DEF entry
    <3>2. CASE k # n - left
      <4>1. k \in 1 .. Passed /\ k + 1 \in 1 .. n - left
        BY <1>6, <2>2, <3>2
      <4> QED BY <1>3, <2>4, <4>1 DEF Behind
    <3> QED BY <3>1, <3>2
  <2>6. Behind'
    <3>1. Len(trail') = 1 + Passed'
      BY <2>2, <2>3, <2>4
    <3>2. held' = held /\ Guarded' = Guarded
      BY <1>1, <1>5 DEF environment
    <3> QED BY <2>2, <2>5, <3>1, <3>2 DEF Behind
  <2>7. Anchored'
    <3>1. 1 \in 1 .. n - left /\ left <= n
      BY <2>1, <2>3, <1>6
    <3>2. trail'[1] = trail[1]
      BY <2>4, <3>1
    <3> QED BY <1>1, <1>3, <1>5, <1>7, <3>1, <3>2 DEF Anchored
  <2>8. at' = Last(trail')
    BY <1>1, <2>4 DEF Last
  <2> QED BY <2>4, <2>6, <2>7, <2>8
<1>13. Behind' /\ Anchored' /\ trail' \in Seq(Dirs) /\ trail' # <<>> /\ at' = Last(trail')
  BY <1>4, <1>11, <1>12
<1>14. OnTheWay'
  BY <1>3, <1>5, <1>10, <1>13 DEF OnTheWay
<1>15. TypeInv'
  <2>1. todo' \in Seq(HopType)
    <3>1. H \subseteq HopType
      BY DEF Supplies, HopType
    <3> HIDE DEF H
    <3> QED BY <1>7, <3>1, SeqMonotonic
  <2> QED BY <1>1, <1>2, <1>5, <1>7, <1>13, <2>1 DEF TypeInv, TypeOK, environment
<1>16. Present' /\ Stages'
  BY <1>1, <1>2 DEF Present, Stages, IsOpened, NoOutcome, environment
<1> QED BY <1>14, <1>15, <1>16 DEF RootInv

\* What others change is remembered, and takes nothing back.
LEMMA ChangeKeeps ==
  ASSUME RootInv, NEW d \in Dirs, NEW n \in Names, NEW entry \in Entries, Change(d, n, entry)
  PROVE  RootInv'
<1>1. /\ pc # "done" /\ changes' = changes + 1 /\ changes < MaxChanges
      /\ entries' = [entries EXCEPT ![d][n] = entry]
      /\ held' = [held EXCEPT ![d][n] = @ \cup {entry}]
      /\ UNCHANGED <<cwd, opener, root, pc, base, todo, at, trail, outcome>>
  BY DEF Change
<1>2. TypeInv /\ Present /\ Stages
  BY DEF RootInv
<1>3. held \in [Dirs -> [Names -> SUBSET Entries]] /\ entries \in [Dirs -> [Names -> Entries]]
  BY <1>2 DEF TypeInv, TypeOK
<1>4. /\ held' \in [Dirs -> [Names -> SUBSET Entries]]
      /\ entries' \in [Dirs -> [Names -> Entries]]
  BY <1>1, <1>3
<1>5. \A c \in Dirs, m \in Names : held[c][m] \subseteq held'[c][m]
  BY <1>1, <1>3
<1>6. Guarded' = Guarded /\ Supplies' = Supplies
  BY <1>1, GuardedStays
<1>7. changes' \in 0 .. MaxChanges
  BY <1>1, <1>2, RootsAssumption DEF TypeInv, TypeOK
<1>8. TypeInv'
  BY <1>1, <1>2, <1>4, <1>6, <1>7 DEF TypeInv, TypeOK
<1>9. Present'
  <2> SUFFICES ASSUME NEW c \in Dirs, NEW m \in Names PROVE entries'[c][m] \in held'[c][m]
    BY DEF Present
  <2>1. CASE c = d /\ m = n
    BY <1>1, <1>3, <2>1
  <2>2. CASE ~(c = d /\ m = n)
    BY <1>1, <1>2, <1>3, <1>5, <2>2 DEF Present
  <2> QED BY <2>1, <2>2
<1>10. Stages' /\ (Opening' => Opening)
  BY <1>1, <1>2 DEF Stages, Opening, IsOpened, Hop
<1>11. ASSUME OnTheWay PROVE OnTheWay'
  <2>1. Passed' = Passed /\ Anchored' /\ Ahead(todo', Guarded') /\ Guarded' \in Seq(Supplies')
    BY <1>1, <1>6, <1>11 DEF OnTheWay, Passed, Anchored
  <2>2. ASSUME NEW k \in 1 .. Passed
        PROVE  /\ Guarded[k] \in Names /\ Dir(trail[k + 1]) \in held'[trail[k]][Guarded[k]]
    <3>1. Guarded[k] \in Names /\ Dir(trail[k + 1]) \in held[trail[k]][Guarded[k]]
      BY <1>11 DEF OnTheWay, Behind
    <3>2. trail \in Seq(Dirs) /\ k \in 1 .. Len(trail)
      <4>1. trail \in Seq(Dirs) /\ Len(trail) = 1 + Passed
        BY <1>2, <1>11 DEF TypeInv, TypeOK, OnTheWay, Behind
      <4>2. Len(todo) \in Nat /\ Len(Guarded) \in Nat
        BY <1>2, <1>11, LenProperties DEF TypeInv, OnTheWay
      <4>3. Passed \in Nat
        BY <4>2 DEF Passed
      <4> QED BY <4>1, <4>3
    <3>3. trail[k] \in Dirs
      BY <3>2, ElementOfSeq
    <3> QED BY <1>5, <3>1, <3>3
  <2>3. Behind'
    BY <1>1, <1>6, <1>11, <2>1, <2>2 DEF OnTheWay, Behind
  <2> QED BY <2>1, <2>3 DEF OnTheWay
<1> QED BY <1>8, <1>9, <1>10, <1>11 DEF RootInv

\* The core asks why a guarded name did not open.
LEMMA OpenFailsKeeps == RootInv /\ OpenFails => RootInv'
<1> SUFFICES ASSUME RootInv, OpenFails PROVE RootInv'
  OBVIOUS
<1>1. pc = "hop" /\ todo # <<>> /\ Hop.name # ParentDir
  BY DEF OpenFails, AtHop
<1>2. CASE opener = "core" /\ ~Hop.follow
  <2>1. pc' = "ask" /\ UNCHANGED <<base, todo, at, trail, outcome, environment, opener, root>>
    BY <1>2 DEF OpenFails, Control
  <2>2. Guarded' = Guarded /\ Supplies' = Supplies
    BY <2>1, GuardedStays
  <2>3. TypeInv'
    BY <1>1, <2>1, <2>2 DEF RootInv, TypeInv, TypeOK, environment
  <2>4. Present'
    BY <2>1 DEF RootInv, Present, environment
  <2>5. Stages'
    BY <1>1, <1>2, <2>1 DEF RootInv, Stages, IsOpened, NoOutcome, Hop
  <2>6. OnTheWay
    BY <1>1 DEF RootInv, Opening
  <2>7. OnTheWay'
    BY <2>1, <2>2, <2>6 DEF OnTheWay, Behind, Passed, Anchored, environment
  <2> QED BY <2>3, <2>4, <2>5, <2>7 DEF RootInv
<1>3. CASE ~(opener = "core" /\ ~Hop.follow)
  <2>1. Finish(Failed("io")) /\ Failed("io").kind = "io"
    BY <1>3 DEF OpenFails, Failed
  <2> QED BY <1>1, <2>1, FinishKeeps
<1> QED BY <1>2, <1>3

LEMMA RootStep == RootInv /\ [Next]_vars => RootInv'
<1> SUFFICES ASSUME RootInv, [Next]_vars PROVE RootInv'
  OBVIOUS
<1>1. ASSUME UNCHANGED vars PROVE RootInv'
  <2>1. UNCHANGED <<entries, cwd, changes, held, opener, root, pc, base, todo, at, trail, outcome>>
    BY <1>1 DEF vars, environment
  <2>2. Guarded' = Guarded /\ Supplies' = Supplies
    BY <2>1, GuardedStays
  <2>3. TypeInv' /\ Present' /\ Stages'
    BY <2>1, <2>2 DEF RootInv, TypeInv, TypeOK, Present, Stages, IsOpened, Hop
  <2>4. Opening' => OnTheWay'
    BY <2>1, <2>2 DEF RootInv, Opening, IsOpened, OnTheWay, Behind, Passed, Anchored
  <2> QED BY <2>3, <2>4 DEF RootInv
<1>2. CASE RejectRoot
  BY <1>2, FinishKeeps DEF RejectRoot, Failed
<1>3. CASE StartAtAnchor
  BY <1>3, StartKeeps
<1>4. CASE AskCurrentDir
  BY <1>4, AskCurrentDirKeeps
<1>5. CASE Canonicalize
  BY <1>5, CanonicalizeKeeps
<1>6. CASE StartFails
  <2>1. pc # "done" /\ Finish(Failed("io")) /\ Failed("io").kind = "io"
    BY <1>6 DEF StartFails, Failed
  <2> QED BY <2>1, FinishKeeps
<1>7. CASE RejectParentDir
  <2>1. pc # "done" /\ Finish(Failed("invalid")) /\ Failed("invalid").kind = "invalid"
    BY <1>7 DEF RejectParentDir, AtHop, Failed
  <2> QED BY <2>1, FinishKeeps
<1>8. CASE EnterDirectory
  BY <1>8, EnterKeeps
<1>9. CASE OpenFails
  BY <1>9, OpenFailsKeeps
<1>10. CASE AskWhy
  <2>1. PICK error \in {"symlink", "io"} : Finish(Failed(error))
    BY <1>10 DEF AskWhy
  <2>2. pc # "done" /\ Failed(error).kind = error
    BY <1>10 DEF AskWhy, Failed
  <2> QED BY <2>1, <2>2, FinishKeeps
<1>11. CASE Opened
  <2> DEFINE result == [kind |-> "opened", names |-> base \o Supplied]
  <2>1. pc = "hop" /\ todo = <<>> /\ Finish(result) /\ result.kind = "opened"
    BY <1>11 DEF Opened
  <2> HIDE DEF result
  <2> QED BY <2>1, FinishKeeps
<1>12. ASSUME NEW d \in Dirs, NEW n \in Names, NEW entry \in Entries, Change(d, n, entry)
       PROVE  RootInv'
  BY <1>12, ChangeKeeps
<1>13. CASE Done
  BY <1>1, <1>13 DEF Done
<1> QED BY <1>1, <1>2, <1>3, <1>4, <1>5, <1>6, <1>7, <1>8, <1>9, <1>10, <1>11, <1>12, <1>13
        DEF Next, Open

LEMMA RootAlways == Spec => []RootInv
BY RootInit, RootStep, PTL DEF Spec

(***************************************************************************)
(* The theorems.                                                           *)
(***************************************************************************)

\* Every variable has its type, and what is held open is the end of the trail.
THEOREM RootTypeCorrect == Spec => []TypeOK
<1>1. RootInv => TypeOK
  BY DEF RootInv, TypeInv
<1> QED BY <1>1, RootAlways, PTL

\* The trail is a chain of the guarded names passed so far.
LEMMA TrailIsChain ==
  ASSUME RootInv, Opening
  PROVE  LET names == SubSeq(Guarded, 1, Passed)
         IN  /\ Passed \in 0 .. Len(Guarded) /\ Len(names) = Passed
             /\ trail \in Chains(names) /\ Last(trail) = at
<1> DEFINE names == SubSeq(Guarded, 1, Passed)
<1>1. OnTheWay /\ TypeOK
  BY DEF RootInv, TypeInv
<1>2. Len(todo) \in Nat /\ Len(Guarded) \in Nat /\ Guarded \in Seq(Supplies)
  BY <1>1, LenProperties DEF RootInv, TypeInv, OnTheWay
<1>3. Passed \in 0 .. Len(Guarded) /\ Passed \in Nat
  BY <1>2 DEF Passed
<1>4. names \in Seq(Supplies) /\ Len(names) = Passed /\ \A k \in 1 .. Passed : names[k] = Guarded[k]
  <2>1. \A i \in 1 .. Passed : Guarded[i] \in Supplies
    BY <1>2, <1>3, ElementOfSeq
  <2>2. /\ names \in Seq(Supplies)
        /\ Len(names) = IF 1 <= Passed THEN Passed - 1 + 1 ELSE 0
        /\ \A i \in 1 .. Passed - 1 + 1 : names[i] = Guarded[1 + i - 1]
    BY <1>3, <2>1, SubSeqProperties
  <2>3. Passed - 1 + 1 = Passed /\ \A i \in 1 .. Passed : 1 + i - 1 = i
    BY <1>3
  <2> HIDE DEF names
  <2>4. Len(names) = Passed
    BY <1>3, <2>2
  <2>5. \A k \in 1 .. Passed : names[k] = Guarded[k]
    BY <2>2, <2>3
  <2> QED BY <2>2, <2>4, <2>5
<1>5. trail \in Seq(Dirs) /\ Len(trail) = Passed + 1 /\ at = Last(trail)
  BY <1>1, <1>3 DEF TypeOK, OnTheWay, Behind
<1>6. trail \in [1 .. Passed + 1 -> Dirs]
  BY <1>5, LenProperties
<1> HIDE DEF names
<1>7. DOMAIN names = 1 .. Passed
  BY <1>4, LenProperties
<1>8. Chain(trail, names)
  BY <1>1, <1>4, <1>5, <1>7 DEF Chain, OnTheWay, Behind
<1>9. trail \in Chains(names)
  BY <1>4, <1>6, <1>8 DEF Chains
<1> QED BY <1>3, <1>4, <1>5, <1>9 DEF names

\* An opened root was reached through real directories only, whatever others
\* rename, and wherever they plant links, in the meantime.
THEOREM RootReachedWithoutLinks == Spec => []ReachedWithoutLinks
<1>1. RootInv => ReachedWithoutLinks
  <2> SUFFICES ASSUME RootInv, IsOpened PROVE
                 \E chain \in Chains(Guarded) :
                   /\ Last(chain) = at
                   /\ opener = "core" /\ root.absolute => chain[1] = Top
    BY DEF ReachedWithoutLinks
  <2>1. OnTheWay /\ todo = <<>> /\ Opening
    BY DEF RootInv, Opening, Stages
  <2>2. Guarded \in Seq(Supplies) /\ Len(Guarded) \in Nat /\ Len(todo) = 0
    BY <2>1, LenProperties, EmptySeq DEF OnTheWay
  <2>3. Passed = Len(Guarded)
    BY <2>2 DEF Passed
  <2>4. SubSeq(Guarded, 1, Passed) = Guarded
    BY <2>2, <2>3, SubSeqFull
  <2>5. trail \in Chains(Guarded) /\ Last(trail) = at
    BY <2>1, <2>4, TrailIsChain
  <2>6. opener = "core" /\ root.absolute => trail[1] = Top
    BY <2>1 DEF OnTheWay, Anchored
  <2> QED BY <2>5, <2>6
<1> QED BY <1>1, RootAlways, PTL

\* The link that AskWhy finds lies where the trail ends.
LEMMA LinkIsWitnessed ==
  ASSUME RootInv, pc = "ask", entries[at][Hop.name].kind = "link"
  PROVE  /\ opener = "core"
         /\ \E k \in DOMAIN Supplied : \E chain \in Chains(SubSeq(Supplied, 1, k - 1)) :
              \E entry \in held[Last(chain)][Supplied[k]] : entry.kind = "link"
<1>1. /\ TypeInv /\ Present /\ OnTheWay /\ Opening /\ todo # <<>>
      /\ opener = "core" /\ ~Hop.follow /\ Hop.name # ParentDir
  BY DEF RootInv, Stages, TypeInv, TypeOK, Opening
<1>2. Guarded = Supplied
  BY <1>1 DEF Guarded
<1> DEFINE n == Len(Supplied)
           k == n - (Len(todo) - 1)
<1>3. /\ Len(todo) \in Nat \ {0} /\ Hop.name \in Supplies
      /\ ~(Len(todo) - 1 >= n) /\ Hop.name = Supplied[k]
  BY <1>1, <1>2, NextHop
<1>4. Supplied \in Seq(Supplies) /\ n \in Nat /\ DOMAIN Supplied = 1 .. n
  BY <1>1, <1>2, LenProperties DEF OnTheWay
<1>5. k \in 1 .. n /\ Passed = k - 1
  BY <1>2, <1>3, <1>4 DEF Passed
<1>6. trail \in Chains(SubSeq(Supplied, 1, k - 1)) /\ Last(trail) = at
  BY <1>1, <1>2, <1>5, TrailIsChain
<1>7. at \in Dirs /\ Hop.name \in Names
  <2>1. trail \in Seq(Dirs) /\ trail # <<>> /\ at = trail[Len(trail)]
    BY <1>1 DEF TypeInv, TypeOK, Last
  <2>2. at \in Dirs
    BY <2>1, EmptySeq, ElementOfSeq
  <2> QED BY <1>1, <1>3, <2>2 DEF Supplies
<1>8. entries[at][Hop.name] \in held[Last(trail)][Supplied[k]]
  BY <1>1, <1>3, <1>6, <1>7 DEF Present
<1> QED BY <1>1, <1>4, <1>5, <1>6, <1>8

\* A dot-dot that is met, or looked for, was in the root that was asked for.
LEMMA ParentIsWitnessed ==
  ASSUME RootInv, RejectRoot \/ RejectParentDir
  PROVE  IsEmpty \/ ParentDir \in ToSet(root.parts)
<1>1. CASE RejectRoot
  BY <1>1 DEF RejectRoot, Rejected
<1>2. CASE RejectParentDir
  <2>1. pc = "hop" /\ todo # <<>> /\ Hop.name = ParentDir
    BY <1>2 DEF RejectParentDir, AtHop
  <2>2. Hop.name \in Supplies
    BY <2>1, NextHop
  <2> QED BY <2>1, <2>2, RootsAssumption DEF Supplies
<1> QED BY <1>1, <1>2

LEMMA ErrorsStep == RootInv /\ ErrorsAreWitnessed /\ [Next]_vars => ErrorsAreWitnessed'
<1> SUFFICES ASSUME RootInv, ErrorsAreWitnessed, [Next]_vars PROVE ErrorsAreWitnessed'
  OBVIOUS
<1>1. ASSUME UNCHANGED <<held, opener, root, outcome>> PROVE ErrorsAreWitnessed'
  <2>1. Supplied' = Supplied /\ IsEmpty' = IsEmpty
    BY <1>1, GuardedStays DEF IsEmpty
  <2> QED BY <1>1, <2>1 DEF ErrorsAreWitnessed, Chains, Chain
<1>2. ASSUME outcome'.kind \notin {"symlink", "invalid"} PROVE ErrorsAreWitnessed'
  BY <1>2 DEF ErrorsAreWitnessed
<1>3. ASSUME pc # "done", UNCHANGED outcome PROVE ErrorsAreWitnessed'
  <2>1. outcome'.kind = "none"
    BY <1>3 DEF RootInv, Stages, NoOutcome
  <2> QED BY <1>2, <2>1
<1>4. ASSUME RejectRoot \/ RejectParentDir PROVE ErrorsAreWitnessed'
  <2>1. outcome' = Failed("invalid") /\ UNCHANGED root
    BY <1>4 DEF RejectRoot, RejectParentDir, Finish, Control
  <2>2. IsEmpty \/ ParentDir \in ToSet(root.parts)
    BY <1>4, ParentIsWitnessed
  <2> QED BY <2>1, <2>2 DEF ErrorsAreWitnessed, Failed, IsEmpty
<1>5. ASSUME AskWhy PROVE ErrorsAreWitnessed'
  <2>1. /\ pc = "ask" /\ UNCHANGED <<held, opener, root>>
        /\ outcome' = Failed(IF entries[at][Hop.name].kind = "link" THEN "symlink" ELSE "io")
    BY <1>5 DEF AskWhy, Finish, Control, environment
  <2>2. CASE entries[at][Hop.name].kind = "link"
    <3>1. outcome'.kind = "symlink"
      BY <2>1, <2>2 DEF Failed
    <3>2. Supplied' = Supplied
      BY <2>1, GuardedStays
    <3>3. /\ opener = "core"
          /\ \E k \in DOMAIN Supplied : \E chain \in Chains(SubSeq(Supplied, 1, k - 1)) :
               \E entry \in held[Last(chain)][Supplied[k]] : entry.kind = "link"
      BY <2>1, <2>2, LinkIsWitnessed
    <3> QED BY <2>1, <3>1, <3>2, <3>3 DEF ErrorsAreWitnessed, Chains, Chain
  <2>3. CASE entries[at][Hop.name].kind # "link"
    <3>1. outcome'.kind = "io"
      BY <2>1, <2>3 DEF Failed
    <3> QED BY <1>2, <3>1
  <2> QED BY <2>2, <2>3
<1>6. ASSUME StartFails \/ OpenFails \/ Opened PROVE ErrorsAreWitnessed'
  <2>1. \/ outcome'.kind \in {"io", "opened"}
        \/ pc = "hop" /\ UNCHANGED outcome
    BY <1>6 DEF StartFails, OpenFails, AtHop, Opened, Finish, Failed
  <2> QED BY <1>2, <1>3, <2>1
<1>7. ASSUME StartAtAnchor \/ AskCurrentDir \/ Canonicalize \/ EnterDirectory
      PROVE  ErrorsAreWitnessed'
  <2>1. pc # "done" /\ UNCHANGED outcome
    BY <1>7 DEF StartAtAnchor, AskCurrentDir, Canonicalize, EnterDirectory, AtHop
  <2> QED BY <1>3, <2>1
<1>8. ASSUME NEW d \in Dirs, NEW n \in Names, NEW entry \in Entries, Change(d, n, entry)
      PROVE  ErrorsAreWitnessed'
  <2>1. pc # "done" /\ UNCHANGED outcome
    BY <1>8 DEF Change
  <2> QED BY <1>3, <2>1
<1>9. ASSUME UNCHANGED vars PROVE ErrorsAreWitnessed'
  BY <1>1, <1>9 DEF vars, environment
<1> QED BY <1>4, <1>5, <1>6, <1>7, <1>8, <1>9 DEF Next, Open, Done

\* Who is told of a link met one, and who is told of an unsafe path gave one.
THEOREM RootErrorsAreWitnessed == Spec => []ErrorsAreWitnessed
<1>1. Init => ErrorsAreWitnessed
  BY DEF Init, NoOutcome, ErrorsAreWitnessed
<1> QED BY <1>1, ErrorsStep, RootAlways, PTL DEF Spec

(***************************************************************************)
(* Where names lead.                                                       *)
(***************************************************************************)

\* Real and Followed are folds over the names.
Origin(p) == p.from
RealStep(p, d, n) ==
  IF d # NoDir /\ p.entries[d][n].kind = "dir" THEN p.entries[d][n].to ELSE NoDir
FollowedStep(p, d, n) ==
  IF d # NoDir /\ p.entries[d][n].kind # "other" THEN p.entries[d][n].to ELSE NoDir
Going     == INSTANCE Folding WITH Start <- Origin, Step <- RealStep
Following == INSTANCE Folding WITH Start <- Origin, Step <- FollowedStep

LEMMA RealFolds ==
  ASSUME NEW p, NEW names
  PROVE  /\ Real(p.entries, p.from, names) = Going!Fold(p, names)
         /\ Followed(p.entries, p.from, names) = Following!Fold(p, names)
<1>1. Real(p.entries, p.from, names) = Going!Fold(p, names)
  BY DEF Real, FoldLeft, MapThenFoldSet, Max, Origin, RealStep,
         Going!Fold, Going!FoldLeft, Going!MapThenFoldSet, Going!Max
<1>2. Followed(p.entries, p.from, names) = Following!Fold(p, names)
  BY DEF Followed, FoldLeft, MapThenFoldSet, Max, Origin, FollowedStep,
         Following!Fold, Following!FoldLeft, Following!MapThenFoldSet, Following!Max
<1> QED BY <1>1, <1>2

\* A longer beginning of a sequence has one element more.
LEMMA BeginningGrows ==
  ASSUME NEW X, NEW s \in Seq(X), NEW k \in 1 .. Len(s)
  PROVE  /\ SubSeq(s, 1, k - 1) \in Seq(X) /\ s[k] \in X
         /\ SubSeq(s, 1, k) = Append(SubSeq(s, 1, k - 1), s[k])
<1>1. Len(s) \in Nat /\ \A i \in 1 .. Len(s) : s[i] \in X
  BY LenProperties, ElementOfSeq
<1>2. 1 \in 1 .. Len(s) /\ k \in 1 .. Len(s)
  BY <1>1
<1>3. SubSeq(s, 1, k) = SubSeq(s, 1, k - 1) \o <<s[k]>>
  BY <1>2, SubSeqRecursiveSecond
<1>4. SubSeq(s, 1, k - 1) \in Seq(X)
  <2>1. \A i \in 1 .. k - 1 : s[i] \in X
    BY <1>1
  <2>2. k - 1 \in Int /\ 1 \in Int
    BY <1>1
  <2> QED BY <2>1, <2>2, SubSeqProperties
<1>5. SubSeq(s, 1, k - 1) \o <<s[k]>> = Append(SubSeq(s, 1, k - 1), s[k])
  BY <1>1, <1>4, AppendIsConcat
<1> QED BY <1>1, <1>3, <1>4, <1>5

\* One name more leads one step further.
LEMMA RealGrows ==
  ASSUME NEW e, NEW from, NEW X, NEW s \in Seq(X), NEW k \in 1 .. Len(s)
  PROVE  LET d == Real(e, from, SubSeq(s, 1, k - 1))
         IN  /\ d # NoDir /\ e[d][s[k]].kind = "dir" =>
                  Real(e, from, SubSeq(s, 1, k)) = e[d][s[k]].to
             /\ ~(d # NoDir /\ e[d][s[k]].kind = "dir") =>
                  Real(e, from, SubSeq(s, 1, k)) = NoDir
<1> DEFINE p == [entries |-> e, from |-> from]
           t == SubSeq(s, 1, k - 1)
<1>1. p.entries = e /\ p.from = from
  OBVIOUS
<1>2. t \in Seq(X) /\ s[k] \in X /\ SubSeq(s, 1, k) = Append(t, s[k])
  BY BeginningGrows
<1> HIDE DEF p, t
<1>3. Going!Fold(p, Append(t, s[k])) = RealStep(p, Going!Fold(p, t), s[k])
  BY <1>2, Going!FoldAppend
<1>4. Real(e, from, Append(t, s[k])) = RealStep(p, Real(e, from, t), s[k])
  BY <1>1, <1>3, RealFolds
<1> QED BY <1>1, <1>2, <1>4 DEF RealStep, t

LEMMA FollowedGrows ==
  ASSUME NEW e, NEW from, NEW X, NEW s \in Seq(X), NEW k \in 1 .. Len(s),
         NEW d, d = Followed(e, from, SubSeq(s, 1, k - 1)),
         d # NoDir, e[d][s[k]].kind # "other"
  PROVE  Followed(e, from, SubSeq(s, 1, k)) = e[d][s[k]].to
<1> DEFINE p == [entries |-> e, from |-> from]
           t == SubSeq(s, 1, k - 1)
<1>1. p.entries = e /\ p.from = from
  OBVIOUS
<1>2. t \in Seq(X) /\ s[k] \in X /\ SubSeq(s, 1, k) = Append(t, s[k])
  BY BeginningGrows
<1> HIDE DEF p, t
<1>3. Following!Fold(p, Append(t, s[k])) = FollowedStep(p, Following!Fold(p, t), s[k])
  BY <1>2, Following!FoldAppend
<1>4. Followed(e, from, Append(t, s[k])) = FollowedStep(p, Followed(e, from, t), s[k])
  BY <1>1, <1>3, RealFolds
<1> QED BY <1>1, <1>2, <1>4 DEF FollowedStep, t

\* No name leads nowhere else.
LEMMA RealEmpty ==
  ASSUME NEW e, NEW from
  PROVE  Real(e, from, <<>>) = from /\ Followed(e, from, <<>>) = from
<1> DEFINE p == [entries |-> e, from |-> from]
<1>1. p.entries = e /\ p.from = from
  OBVIOUS
<1> HIDE DEF p
<1>2. Going!Fold(p, <<>>) = Origin(p) /\ Following!Fold(p, <<>>) = Origin(p)
  BY Going!FoldEmpty, Following!FoldEmpty
<1> QED BY <1>1, <1>2, RealFolds DEF Origin

\* Names that lead somewhere lead through a directory each.
LEMMA RealBefore ==
  ASSUME NEW e, NEW from, NEW X, NEW s \in Seq(X), NEW n \in 0 .. Len(s),
         Real(e, from, SubSeq(s, 1, n)) # NoDir
  PROVE  /\ \A k \in 0 .. n : Real(e, from, SubSeq(s, 1, k)) # NoDir
         /\ \A k \in 1 .. n : e[Real(e, from, SubSeq(s, 1, k - 1))][s[k]].kind = "dir"
<1> DEFINE d(k) == Real(e, from, SubSeq(s, 1, k))
<1>1. n \in Nat /\ Len(s) \in Nat /\ d(n) # NoDir
  BY LenProperties
<1>2. ASSUME NEW k \in 1 .. n
      PROVE  ~(d(k - 1) # NoDir /\ e[d(k - 1)][s[k]].kind = "dir") => d(k) = NoDir
  <2>1. k \in 1 .. Len(s)
    BY <1>1
  <2> QED BY <2>1, RealGrows
<1> HIDE DEF d
<1>3. ASSUME NEW j \in 0 .. n, d(j) = NoDir
      PROVE  FALSE
  <2> DEFINE Good == {k \in j .. n : d(k) = NoDir}
  <2>1. j \in Nat /\ j \in Good
    BY <1>1, <1>3
  <2>2. \A k \in j + 1 .. n : k - 1 \in Good => k \in Good
    <3> SUFFICES ASSUME NEW k \in j + 1 .. n, k - 1 \in Good
                 PROVE  k \in Good
      OBVIOUS
    <3>1. k \in 1 .. n /\ k \in j .. n
      BY <1>1
    <3> QED BY <1>2, <3>1
  <2>3. n \in j .. n
    BY <1>1
  <2> HIDE DEF Good
  <2>4. n \in Good
    BY <1>1, <2>1, <2>2, <2>3, Going!Climb
  <2> QED BY <1>1, <2>4 DEF Good
<1>4. \A k \in 0 .. n : d(k) # NoDir
  BY <1>3
<1>5. \A k \in 1 .. n : k \in 0 .. n
  BY <1>1
<1> QED BY <1>2, <1>4, <1>5 DEF d

\* Where names lead without links they lead with links followed.
LEMMA RealIsFollowed ==
  ASSUME NEW e, NEW from, NEW X, NEW s \in Seq(X), Real(e, from, s) # NoDir
  PROVE  Followed(e, from, s) = Real(e, from, s)
<1> DEFINE n == Len(s)
           d(k) == Real(e, from, SubSeq(s, 1, k))
           f(k) == Followed(e, from, SubSeq(s, 1, k))
           Good == {k \in 0 .. n : f(k) = d(k)}
<1>1. n \in Nat /\ d(n) = Real(e, from, s) /\ f(n) = Followed(e, from, s)
  BY LenProperties, SubSeqFull
<1>2. 0 \in Good
  <2>1. SubSeq(s, 1, 0) = <<>>
    BY SubSeqEmpty
  <2>2. f(0) = d(0)
    BY <2>1, RealEmpty
  <2>3. 0 \in 0 .. n
    BY <1>1
  <2> QED BY <2>2, <2>3
<1>3. \A k \in 0 + 1 .. n : k - 1 \in Good => k \in Good
  <2> SUFFICES ASSUME NEW k \in 1 .. n, f(k - 1) = d(k - 1)
               PROVE  f(k) = d(k)
    BY <1>1
  <2>1. d(k - 1) # NoDir /\ e[d(k - 1)][s[k]].kind = "dir"
    <3>1. k - 1 \in 0 .. n /\ n \in 0 .. Len(s) /\ d(n) # NoDir
      BY <1>1
    <3> QED BY <3>1, RealBefore
  <2>2. d(k) = e[d(k - 1)][s[k]].to
    BY <2>1, RealGrows
  <2>3. f(k) = e[d(k - 1)][s[k]].to
    <3> DEFINE last == d(k - 1)
    <3>1. /\ last = Followed(e, from, SubSeq(s, 1, k - 1))
          /\ last # NoDir /\ e[last][s[k]].kind # "other"
      BY <2>1
    <3> HIDE DEF last
    <3>2. Followed(e, from, SubSeq(s, 1, k)) = e[last][s[k]].to
      BY <3>1, FollowedGrows
    <3> QED BY <3>2 DEF last
  <2> QED BY <2>2, <2>3
<1> HIDE DEF n, Good
<1>4. n \in Good
  <2>1. n \in 0 .. n /\ 0 \in Nat
    BY <1>1
  <2> QED BY <1>1, <1>2, <1>3, <2>1, Going!Climb
<1> QED BY <1>1, <1>4 DEF Good

\* Names lead from where others lead as both together do.
LEMMA RealSplit ==
  ASSUME NEW e, NEW from, NEW X, NEW s \in Seq(X), NEW t \in Seq(X)
  PROVE  \A k \in 0 .. Len(t) :
           Real(e, Real(e, from, s), SubSeq(t, 1, k)) = Real(e, from, SubSeq(s \o t, 1, Len(s) + k))
<1> DEFINE m == Len(s)
           n == Len(t)
           both == s \o t
           mid == Real(e, from, s)
           Good == {k \in 0 .. n : Real(e, mid, SubSeq(t, 1, k)) = Real(e, from, SubSeq(both, 1, m + k))}
<1>1. /\ m \in Nat /\ n \in Nat /\ both \in Seq(X) /\ Len(both) = m + n
      /\ \A k \in 1 .. n : both[m + k] = t[k]
  <2>1. m \in Nat /\ n \in Nat
    BY LenProperties
  <2>2. /\ both \in Seq(X) /\ Len(both) = m + n
        /\ \A i \in 1 .. m + n : both[i] = IF i <= m THEN s[i] ELSE t[i - m]
    BY ConcatProperties
  <2>3. \A k \in 1 .. n : m + k \in 1 .. m + n /\ ~(m + k <= m) /\ m + k - m = k
    BY <2>1
  <2> HIDE DEF m, n, both
  <2> QED BY <2>1, <2>2, <2>3
<1>2. 0 \in Good
  <2>1. SubSeq(t, 1, 0) = <<>>
    BY SubSeqEmpty
  <2>2. SubSeq(both, 1, m) = s
    <3>1. CASE m = 0
      <4>1. s = <<>> /\ SubSeq(both, 1, 0) = <<>>
        BY <3>1, EmptySeq, SubSeqEmpty
      <4> QED BY <3>1, <4>1
    <3>2. CASE m # 0
      <4>1. 1 \in 1 .. m /\ m \in 1 .. m
        BY <1>1, <3>2
      <4>2. SubSeq(both, 1, m) = SubSeq(s, 1, m)
        BY <4>1, SubSeqOfConcat1
      <4> QED BY <4>2, SubSeqFull
    <3> QED BY <3>1, <3>2
  <2>3. m + 0 = m /\ 0 \in 0 .. n
    BY <1>1
  <2>4. Real(e, mid, <<>>) = mid
    BY RealEmpty
  <2> QED BY <2>1, <2>2, <2>3, <2>4
<1>3. \A k \in 0 + 1 .. n : k - 1 \in Good => k \in Good
  <2> SUFFICES ASSUME NEW k \in 1 .. n,
                      Real(e, mid, SubSeq(t, 1, k - 1)) = Real(e, from, SubSeq(both, 1, m + (k - 1)))
               PROVE  Real(e, mid, SubSeq(t, 1, k)) = Real(e, from, SubSeq(both, 1, m + k))
    BY <1>1
  <2> DEFINE d == Real(e, mid, SubSeq(t, 1, k - 1))
             j == m + k
  <2>1. /\ d # NoDir /\ e[d][t[k]].kind = "dir" => Real(e, mid, SubSeq(t, 1, k)) = e[d][t[k]].to
        /\ ~(d # NoDir /\ e[d][t[k]].kind = "dir") => Real(e, mid, SubSeq(t, 1, k)) = NoDir
    BY RealGrows
  <2>2. j \in 1 .. Len(both) /\ j - 1 = m + (k - 1) /\ both[j] = t[k]
    BY <1>1
  <2> HIDE DEF j, both, mid
  <2>3. /\ d # NoDir /\ e[d][both[j]].kind = "dir" => Real(e, from, SubSeq(both, 1, j)) = e[d][both[j]].to
        /\ ~(d # NoDir /\ e[d][both[j]].kind = "dir") => Real(e, from, SubSeq(both, 1, j)) = NoDir
    <3>1. d = Real(e, from, SubSeq(both, 1, j - 1))
      BY <2>2
    <3> DEFINE b == Real(e, from, SubSeq(both, 1, j - 1))
    <3>2. /\ b # NoDir /\ e[b][both[j]].kind = "dir" => Real(e, from, SubSeq(both, 1, j)) = e[b][both[j]].to
          /\ ~(b # NoDir /\ e[b][both[j]].kind = "dir") => Real(e, from, SubSeq(both, 1, j)) = NoDir
      <4>1. both \in Seq(X) /\ j \in 1 .. Len(both)
        BY <1>1, <2>2
      <4> HIDE DEF d, m, n
      <4> QED BY <4>1, RealGrows
    <3> HIDE DEF d, b
    <3>3. d = b
      BY <3>1 DEF b
    <3> QED BY <3>2, <3>3
  <2> QED BY <2>1, <2>2, <2>3 DEF j
<1> HIDE DEF n, Good
<1>4. \A k \in 0 .. n : k \in Good
  BY <1>1, <1>2, <1>3, Going!Climb
<1> QED BY <1>4 DEF Good, n

(***************************************************************************)
(* What is said of names opened one by one.                                *)
(***************************************************************************)

\* Names that all lead somewhere are opened.
LEMMA VerdictOpened ==
  ASSUME NEW e, NEW from, NEW X, NEW names \in Seq(X),
         \A k \in 1 .. Len(names) :
           names[k] # ParentDir /\ Real(e, from, SubSeq(names, 1, k)) # NoDir
  PROVE  Verdict(e, from, names) = "opened"
<1>1. DOMAIN names = 1 .. Len(names)
  BY LenProperties
<1> QED BY <1>1 DEF Verdict

\* The first name that leads nowhere, or up, decides.
LEMMA VerdictStuck ==
  ASSUME NEW e, NEW from, NEW X, NEW names \in Seq(X), NEW k \in 1 .. Len(names),
         \A j \in 1 .. k - 1 :
           names[j] # ParentDir /\ Real(e, from, SubSeq(names, 1, j)) # NoDir
  PROVE  /\ names[k] = ParentDir => Verdict(e, from, names) = "invalid"
         /\ /\ names[k] # ParentDir /\ Real(e, from, SubSeq(names, 1, k)) = NoDir
            /\ e[Real(e, from, SubSeq(names, 1, k - 1))][names[k]].kind = "link"
            => Verdict(e, from, names) = "symlink"
<1> DEFINE reach(i) == Real(e, from, SubSeq(names, 1, i))
           bad == {i \in DOMAIN names :
                     /\ \A j \in 1 .. i - 1 : names[j] # ParentDir
                     /\ names[i] = ParentDir \/ reach(i) = NoDir}
           first == CHOOSE i \in bad : \A j \in bad : i <= j
<1>1. DOMAIN names = 1 .. Len(names) /\ Len(names) \in Nat
  BY LenProperties
<1>2. Verdict(e, from, names) =
        IF bad = {} THEN "opened"
        ELSE IF names[first] = ParentDir THEN "invalid"
        ELSE IF e[reach(first - 1)][names[first]].kind = "link" THEN "symlink"
        ELSE "io"
  BY DEF Verdict
<1> SUFFICES ASSUME names[k] = ParentDir \/ reach(k) = NoDir
             PROVE  bad # {} /\ first = k
  BY <1>2
<1> HIDE DEF reach
<1>3. k \in bad
  BY <1>1
<1>4. \A j \in bad : j \in Int /\ k <= j
  <2> SUFFICES ASSUME NEW j \in bad, ~(k <= j)
               PROVE  FALSE
    BY <1>1
  <2>1. j \in 1 .. k - 1
    BY <1>1
  <2> QED BY <2>1 DEF reach
<1> HIDE DEF bad
<1>5. \A i \in bad : (\A j \in bad : i <= j) => i = k
  BY <1>3, <1>4
<1> QED BY <1>3, <1>4, <1>5

(***************************************************************************)
(* A tree at rest.                                                         *)
(***************************************************************************)

\* The names of the whole path, and how many of them have been opened.
Path == base \o Supplied
Gone == Len(Path) - Len(todo)

NamesOf(hops, names) ==
  Len(hops) = Len(names) /\ \A j \in 1 .. Len(names) : hops[j].name = names[j]

Unrejected ==
  /\ pc \in {"cwd", "hop", "ask"} => ~Rejected
  /\ pc = "start" => todo = <<>>

\* The current directory has the name it is given.
Located == pc = "cwd" /\ Quiet => Real(entries, Top, base) = cwd

\* What has been opened is where the names lead.
Standing ==
  pc \in {"hop", "ask"} =>
    /\ Gone \in 0 .. Len(Path)
    /\ \A j \in 1 .. Len(todo) : todo[j].name = Path[Gone + j]
    /\ \A k \in 1 .. Gone : Path[k] # ParentDir
    /\ Quiet => Followed(entries, Top, SubSeq(Path, 1, Gone)) = at
    /\ Quiet /\ opener = "core" => /\ Real(entries, Top, SubSeq(Path, 1, Gone)) = at
                                   /\ Real(entries, Top, base) = From

JudgeInv == Unrejected /\ Located /\ Standing /\ QuietRootIsJudgedExactly

LEMMA PathType ==
  ASSUME RootInv
  PROVE  /\ base \in Seq(Parts) /\ Supplied \in Seq(Parts) /\ Path \in Seq(Parts)
         /\ Len(base) \in Nat /\ Len(Supplied) \in Nat /\ Len(Path) = Len(base) + Len(Supplied)
         /\ \A k \in 1 .. Len(Supplied) : Path[Len(base) + k] = Supplied[k]
         /\ SubSeq(Path, 1, Len(base)) = base
         /\ at \in Dirs /\ From \in Dirs /\ NoDir \notin Dirs
<1>1. base \in Seq(Parts) /\ Supplied \in Seq(Parts)
  BY SuppliedSupplies, SeqMonotonic DEF RootInv, TypeInv, TypeOK, Parts
<1>2. Len(base) \in Nat /\ Len(Supplied) \in Nat
  BY <1>1, LenProperties
<1>3. /\ Path \in Seq(Parts) /\ Len(Path) = Len(base) + Len(Supplied)
      /\ \A i \in 1 .. Len(base) + Len(Supplied) :
           Path[i] = IF i <= Len(base) THEN base[i] ELSE Supplied[i - Len(base)]
  BY <1>1, ConcatProperties DEF Path
<1>4. \A k \in 1 .. Len(Supplied) : Path[Len(base) + k] = Supplied[k]
  <2>1. \A k \in 1 .. Len(Supplied) : /\ Len(base) + k \in 1 .. Len(base) + Len(Supplied)
                                      /\ ~(Len(base) + k <= Len(base))
                                      /\ Len(base) + k - Len(base) = k
    BY <1>2
  <2> QED BY <1>3, <2>1
<1>5. SubSeq(Path, 1, Len(base)) = base
  <2>1. CASE Len(base) = 0
    <3>1. base = <<>> /\ SubSeq(Path, 1, 0) = <<>>
      BY <1>1, <2>1, EmptySeq, SubSeqEmpty
    <3> QED BY <2>1, <3>1
  <2>2. CASE Len(base) # 0
    <3>1. 1 \in 1 .. Len(base) /\ Len(base) \in 1 .. Len(base)
      BY <1>2, <2>2
    <3>2. SubSeq(Path, 1, Len(base)) = SubSeq(base, 1, Len(base))
      BY <1>1, <3>1, SubSeqOfConcat1 DEF Path
    <3> QED BY <1>1, <3>2, SubSeqFull
  <2> QED BY <2>1, <2>2
<1>6. at \in Dirs
  <2>1. trail \in Seq(Dirs) /\ trail # <<>> /\ at = trail[Len(trail)]
    BY DEF RootInv, TypeInv, TypeOK, Last
  <2> QED BY <2>1, EmptySeq, ElementOfSeq
<1>7. From \in Dirs /\ NoDir \notin Dirs
  BY RootsAssumption DEF RootInv, TypeInv, TypeOK, From
<1> QED BY <1>1, <1>2, <1>3, <1>4, <1>5, <1>6, <1>7

\* Hops have the names of their path.
LEMMA HopsNames ==
  ASSUME NEW T, NEW a \in Seq(T), NEW b \in Seq(T), NEW f \in BOOLEAN, NEW g \in BOOLEAN
  PROVE  NamesOf(Hops(a, f), a) /\ NamesOf(Hops(a, f) \o Hops(b, g), a \o b)
<1> DEFINE A == Hops(a, f)
           B == Hops(b, g)
           H == [name : T, follow : BOOLEAN]
<1>1. A \in Seq(H) /\ Len(A) = Len(a) /\ B \in Seq(H) /\ Len(B) = Len(b)
  BY HopsType
<1>2. Len(a) \in Nat /\ DOMAIN a = 1 .. Len(a) /\ Len(b) \in Nat /\ DOMAIN b = 1 .. Len(b)
  BY LenProperties
<1>3. /\ \A j \in 1 .. Len(a) : A[j].name = a[j]
      /\ \A j \in 1 .. Len(b) : B[j].name = b[j]
  BY <1>2 DEF Hops
<1> HIDE DEF A, B, H
<1>4. /\ Len(A \o B) = Len(A) + Len(B)
      /\ \A i \in 1 .. Len(A) + Len(B) : (A \o B)[i] = IF i <= Len(A) THEN A[i] ELSE B[i - Len(A)]
  BY <1>1, ConcatProperties
<1>5. /\ Len(a \o b) = Len(a) + Len(b)
      /\ \A i \in 1 .. Len(a) + Len(b) : (a \o b)[i] = IF i <= Len(a) THEN a[i] ELSE b[i - Len(a)]
  BY ConcatProperties
<1>6. ASSUME NEW i \in 1 .. Len(a) + Len(b)
      PROVE  (A \o B)[i].name = (a \o b)[i]
  <2>1. CASE i <= Len(a)
    BY <1>1, <1>2, <1>3, <1>4, <1>5, <2>1
  <2>2. CASE ~(i <= Len(a))
    <3>1. i - Len(a) \in 1 .. Len(b)
      BY <1>2, <2>2
    <3> QED BY <1>1, <1>2, <1>3, <1>4, <1>5, <2>2, <3>1
  <2> QED BY <2>1, <2>2
<1> QED BY <1>1, <1>3, <1>4, <1>5, <1>6 DEF NamesOf, A, B

LEMMA VerifyHopsNames ==
  ASSUME NEW T, NEW names \in Seq(T)
  PROVE  NamesOf(VerifyHops(names), names)
<1>1. CASE names = <<>>
  BY <1>1, EmptySeq DEF VerifyHops, NamesOf
<1>2. CASE names # <<>>
  <2>1. Len(names) \in Nat \ {0} /\ 1 \in 1 .. Len(names) /\ Len(names) \in 1 .. Len(names)
    BY <1>2, EmptySeq
  <2>2. SubSeq(names, 1, Len(names)) = SubSeq(names, 1, Len(names) - 1) \o <<names[Len(names)]>>
    BY <2>1, SubSeqRecursiveSecond
  <2>3. names = Front(names) \o <<Last(names)>>
    BY <2>2, SubSeqFull DEF Front, Last
  <2>4. Front(names) \in Seq(T) /\ <<Last(names)>> \in Seq(T)
    <3>1. names[Len(names)] \in T /\ SubSeq(names, 1, Len(names) - 1) \in Seq(T)
      BY <2>1, BeginningGrows
    <3>2. <<names[Len(names)]>> \in Seq(T)
      BY <3>1
    <3> QED BY <3>1, <3>2 DEF Front, Last
  <2>5. VerifyHops(names) = Hops(Front(names), TRUE) \o Hops(<<Last(names)>>, FALSE)
    BY <1>2 DEF VerifyHops
  <2>6. NamesOf(Hops(Front(names), TRUE) \o Hops(<<Last(names)>>, FALSE),
                Front(names) \o <<Last(names)>>)
    BY <2>4, HopsNames
  <2> QED BY <2>3, <2>5, <2>6
<1> QED BY <1>1, <1>2

LEMMA JudgeInit == Init => JudgeInv
BY DEF Init, JudgeInv, Unrejected, Located, Standing, QuietRootIsJudgedExactly

\* What depends on little does not change.
LEMMA JudgedStays ==
  /\ UNCHANGED <<root, opener>> => Rejected' = Rejected /\ Supplied' = Supplied
  /\ UNCHANGED <<root, cwd>> => From' = From
  /\ UNCHANGED <<entries, held>> => Quiet' = Quiet
BY DEF Rejected, IsEmpty, Supplied, From, Quiet

\* A change ends the rest.
LEMMA ChangeJudged ==
  ASSUME RootInv, JudgeInv, NEW d \in Dirs, NEW n \in Names, NEW entry \in Entries,
         Change(d, n, entry)
  PROVE  JudgeInv'
<1>1. /\ pc \notin {"start", "done"} /\ pc' = pc /\ entries[d][n] # entry
      /\ entries' = [entries EXCEPT ![d][n] = entry]
      /\ held' = [held EXCEPT ![d][n] = @ \cup {entry}]
      /\ UNCHANGED <<cwd, opener, root, base, todo, at, outcome>>
  BY DEF Change
<1>2. entries \in [Dirs -> [Names -> Entries]] /\ held \in [Dirs -> [Names -> SUBSET Entries]]
  BY DEF RootInv, TypeInv, TypeOK
<1>3. entries'[d][n] = entry /\ held'[d][n] = held[d][n] \cup {entry}
  BY <1>1, <1>2
<1>4. entries[d][n] \in held[d][n]
  BY DEF RootInv, Present
<1>5. ~Quiet'
  BY <1>1, <1>3, <1>4 DEF Quiet
<1>6. Rejected' = Rejected /\ Path' = Path
  BY <1>1, JudgedStays DEF Path
<1>7. Gone' = Gone
  BY <1>1, <1>6 DEF Gone
<1>8. Unrejected' /\ Located' /\ QuietRootIsJudgedExactly'
  BY <1>1, <1>5, <1>6 DEF JudgeInv, Unrejected, Located, QuietRootIsJudgedExactly
<1>9. Standing'
  BY <1>1, <1>5, <1>6, <1>7 DEF JudgeInv, Standing
<1> QED BY <1>8, <1>9 DEF JudgeInv

\* An opening ends well, or with what is true of the tree.
LEMMA FinishJudged ==
  ASSUME RootInv, JudgeInv, NEW result, Finish(result),
         Rejected <=> result.kind = "invalid" /\ todo = <<>>,
         Quiet /\ opener = "core" /\ ~Rejected =>
           result.kind \in {"io", Verdict(entries, From, Supplied)},
         Quiet /\ result.kind = "opened" =>
           /\ Followed(entries, Top, result.names) = at
           /\ opener = "core" => Real(entries, Top, result.names) = at
  PROVE  JudgeInv'
<1>1. /\ pc' = "done" /\ outcome' = result
      /\ UNCHANGED <<todo, at, base, entries, held, cwd, root, opener>>
  BY DEF Finish, Control, environment
<1>2. Rejected' = Rejected /\ Supplied' = Supplied /\ From' = From /\ Quiet' = Quiet
  BY <1>1, JudgedStays
<1>3. Verdict(entries, From, Supplied)' = Verdict(entries, From, Supplied)
  BY <1>1, <1>2
<1>4. /\ (Followed(entries, Top, outcome.names) = at)' <=> Followed(entries, Top, result.names) = at
      /\ (Real(entries, Top, outcome.names) = at)' <=> Real(entries, Top, result.names) = at
  BY <1>1
<1>5. QuietRootIsJudgedExactly'
  BY <1>1, <1>2, <1>3, <1>4 DEF QuietRootIsJudgedExactly, IsOpened
<1> QED BY <1>1, <1>5 DEF JudgeInv, Unrejected, Located, Standing

\* Setting out with the hops of the whole path.
LEMMA SetOutJudged ==
  ASSUME RootInv, JudgeInv, UNCHANGED <<environment, opener, root>>, pc' = "hop", ~Rejected,
         at' = Top, NEW names \in Seq(Names), base' = names,
         NamesOf(todo', names \o Supplied),
         Quiet /\ opener = "core" => Real(entries, Top, names) = From
  PROVE  JudgeInv'
<1>1. UNCHANGED <<entries, held, cwd>>
  BY DEF environment
<1>2. Rejected' = Rejected /\ Supplied' = Supplied /\ From' = From /\ Quiet' = Quiet
  BY <1>1, JudgedStays
<1>3. Path' = names \o Supplied
  BY <1>2 DEF Path
<1>4. names \o Supplied \in Seq(Parts)
  BY PathType, SeqMonotonic, ConcatProperties DEF Parts
<1>5. /\ Len(todo') = Len(Path') /\ Len(Path') \in Nat
      /\ \A j \in 1 .. Len(todo') : todo'[j].name = Path'[j]
  BY <1>3, <1>4, LenProperties DEF NamesOf
<1>6. Gone' = 0
  BY <1>5 DEF Gone
<1>7. SubSeq(Path', 1, Gone') = <<>>
  BY <1>6, SubSeqEmpty
<1>8. \A j \in 1 .. Len(todo') : todo'[j].name = Path'[Gone' + j]
  <2>1. \A j \in 1 .. Len(todo') : 0 + j = j
    BY <1>5
  <2> QED BY <1>5, <1>6, <2>1
<1>9. /\ Real(entries, Top, <<>>) = Top /\ Followed(entries, Top, <<>>) = Top
  BY RealEmpty
<1>10. (Real(entries, Top, base) = From)' <=> Real(entries, Top, names) = From
  BY <1>1, <1>2
<1>11. /\ Real(entries, Top, SubSeq(Path, 1, Gone))' = Top
       /\ Followed(entries, Top, SubSeq(Path, 1, Gone))' = Top
  BY <1>1, <1>7, <1>9
<1>12. Gone' \in 0 .. Len(Path') /\ \A k \in 1 .. Gone' : Path'[k] # ParentDir
  BY <1>5, <1>6
<1>13. Standing'
  BY <1>1, <1>2, <1>8, <1>10, <1>11, <1>12 DEF Standing
<1>14. Unrejected' /\ Located' /\ QuietRootIsJudgedExactly'
  BY <1>2 DEF Unrejected, Located, QuietRootIsJudgedExactly
<1> QED BY <1>13, <1>14 DEF JudgeInv

LEMMA StartJudged == RootInv /\ JudgeInv /\ StartAtAnchor => JudgeInv'
<1> SUFFICES ASSUME RootInv, JudgeInv, StartAtAnchor PROVE JudgeInv'
  OBVIOUS
<1>1. /\ UNCHANGED <<environment, opener, root>> /\ pc = "start" /\ pc' = "hop" /\ ~Rejected
      /\ UNCHANGED base /\ at' = Top /\ root.absolute
      /\ todo' = IF opener = "verify" THEN VerifyHops(Supplied) ELSE Hops(Supplied, FALSE)
  BY DEF StartAtAnchor, Control
<1>2. base = <<>> /\ <<>> \in Seq(Names)
  BY <1>1, EmptySeq DEF RootInv, Stages
<1>3. <<>> \o Supplied = Supplied /\ Supplied \in Seq(Parts)
  BY PathType, ConcatEmptySeq
<1>4. NamesOf(todo', Supplied)
  BY <1>1, <1>3, VerifyHopsNames, HopsNames
<1>5. Real(entries, Top, <<>>) = From
  BY <1>1, RealEmpty DEF From
<1> QED BY <1>1, <1>2, <1>3, <1>4, <1>5, SetOutJudged

LEMMA AskCurrentDirJudged == RootInv /\ JudgeInv /\ AskCurrentDir => JudgeInv'
<1> SUFFICES ASSUME RootInv, JudgeInv, AskCurrentDir PROVE JudgeInv'
  OBVIOUS
<1>1. PICK names \in PlacesOf(entries, cwd) :
        /\ base' = names
        /\ IF opener = "verify"
           THEN pc' = "hop" /\ todo' = VerifyHops(names \o Supplied)
           ELSE pc' = "cwd" /\ todo' = todo
  BY DEF AskCurrentDir
<1>2. /\ UNCHANGED <<environment, opener, root>> /\ pc = "start" /\ ~Rejected
      /\ at' = at
  BY DEF AskCurrentDir, Control
<1>3. at = Top
  BY <1>2 DEF RootInv, Stages
<1>4. names \in Seq(Names) /\ Real(entries, Top, names) = cwd
  BY PlacesType DEF PlacesOf
<1>5. CASE opener = "verify"
  <2>1. names \o Supplied \in Seq(Parts)
    BY <1>4, PathType, SeqMonotonic, ConcatProperties DEF Parts
  <2>2. NamesOf(todo', names \o Supplied)
    BY <1>1, <1>5, <2>1, VerifyHopsNames
  <2>3. at' = Top /\ pc' = "hop" /\ base' = names /\ opener # "core"
    BY <1>1, <1>2, <1>3, <1>5
  <2> QED BY <1>2, <1>4, <2>2, <2>3, SetOutJudged
<1>6. CASE opener # "verify"
  <2>1. pc' = "cwd" /\ base' = names
    BY <1>1, <1>6
  <2>2. Rejected' = Rejected
    BY <1>2, JudgedStays
  <2>3. Located'
    BY <1>2, <1>4, <2>1 DEF Located, environment
  <2> QED BY <1>2, <2>1, <2>2, <2>3
          DEF JudgeInv, Unrejected, Standing, QuietRootIsJudgedExactly
<1> QED BY <1>5, <1>6

LEMMA CanonicalizeJudged == RootInv /\ JudgeInv /\ Canonicalize => JudgeInv'
<1> SUFFICES ASSUME RootInv, JudgeInv, Canonicalize PROVE JudgeInv'
  OBVIOUS
<1> DEFINE d == Followed(entries, Top, base)
<1>1. PICK names \in PlacesOf(entries, d) :
        base' = names /\ todo' = Hops(names, TRUE) \o Hops(Supplied, FALSE)
  BY DEF Canonicalize
<1>2. /\ UNCHANGED <<environment, opener, root>> /\ pc = "cwd" /\ pc' = "hop"
      /\ at' = at
  BY DEF Canonicalize, Control
<1>3. ~Rejected /\ ~root.absolute /\ at = Top
  BY <1>2 DEF JudgeInv, Unrejected, RootInv, Stages
<1>4. names \in Seq(Names) /\ Real(entries, Top, names) = d
  BY PlacesType DEF PlacesOf
<1>5. NamesOf(todo', names \o Supplied)
  <2>1. names \in Seq(Parts) /\ Supplied \in Seq(Parts)
    BY <1>4, PathType, SeqMonotonic DEF Parts
  <2>2. TRUE \in BOOLEAN /\ FALSE \in BOOLEAN
    OBVIOUS
  <2>3. NamesOf(Hops(names, TRUE) \o Hops(Supplied, FALSE), names \o Supplied)
    BY <2>1, <2>2, HopsNames
  <2> QED BY <1>1, <2>3
<1>6. Quiet => Real(entries, Top, names) = From
  <2> SUFFICES ASSUME Quiet PROVE d = From
    BY <1>4
  <2>1. Real(entries, Top, base) = cwd /\ cwd # NoDir
    BY <1>2, RootsAssumption DEF JudgeInv, Located, RootInv, TypeInv, TypeOK
  <2>2. base \in Seq(Parts)
    BY PathType
  <2>3. d = cwd
    BY <2>1, <2>2, RealIsFollowed
  <2> QED BY <1>3, <2>3 DEF From
<1> HIDE DEF d
<1>7. base' = names /\ at' = Top
  BY <1>1, <1>2, <1>3
<1> QED BY <1>2, <1>3, <1>4, <1>5, <1>6, <1>7, SetOutJudged

\* Where the core is among the supplied names of a tree at rest.
LEMMA CoreStands ==
  ASSUME RootInv, JudgeInv, pc \in {"hop", "ask"}, Quiet, opener = "core",
         NEW k \in 0 .. Len(Supplied), Len(base) + k <= Gone
  PROVE  /\ Real(entries, From, SubSeq(Supplied, 1, k)) = Real(entries, Top, SubSeq(Path, 1, Len(base) + k))
         /\ Real(entries, From, SubSeq(Supplied, 1, k)) # NoDir
         /\ \A j \in 1 .. k : Supplied[j] # ParentDir
<1>1. /\ base \in Seq(Parts) /\ Supplied \in Seq(Parts) /\ Path \in Seq(Parts)
      /\ Len(base) \in Nat /\ Len(Supplied) \in Nat /\ Len(Path) = Len(base) + Len(Supplied)
      /\ \A j \in 1 .. Len(Supplied) : Path[Len(base) + j] = Supplied[j]
      /\ at \in Dirs /\ NoDir \notin Dirs
  BY PathType
<1>2. /\ Gone \in 0 .. Len(Path) /\ Real(entries, Top, SubSeq(Path, 1, Gone)) = at
      /\ Real(entries, Top, base) = From /\ \A j \in 1 .. Gone : Path[j] # ParentDir
  BY DEF JudgeInv, Standing
<1>3. Real(entries, From, SubSeq(Supplied, 1, k)) = Real(entries, Top, SubSeq(Path, 1, Len(base) + k))
  <2>1. Real(entries, Real(entries, Top, base), SubSeq(Supplied, 1, k))
          = Real(entries, Top, SubSeq(base \o Supplied, 1, Len(base) + k))
    BY <1>1, RealSplit
  <2> QED BY <1>2, <2>1 DEF Path
<1>4. Real(entries, Top, SubSeq(Path, 1, Len(base) + k)) # NoDir
  <2>1. Len(base) + k \in 0 .. Gone
    BY <1>1, <1>2
  <2>2. \A j \in 0 .. Gone : Real(entries, Top, SubSeq(Path, 1, j)) # NoDir
    <3>1. Path \in Seq(Parts) /\ Gone \in 0 .. Len(Path)
      BY <1>1, <1>2
    <3>2. Real(entries, Top, SubSeq(Path, 1, Gone)) # NoDir
      BY <1>1, <1>2
    <3> QED BY <3>1, <3>2, RealBefore
  <2> QED BY <2>1, <2>2
<1>5. \A j \in 1 .. k : Supplied[j] # ParentDir
  <2> SUFFICES ASSUME NEW j \in 1 .. k PROVE Supplied[j] # ParentDir
    OBVIOUS
  <2>1. j \in 1 .. Len(Supplied) /\ Len(base) + j \in 1 .. Gone
    BY <1>1, <1>2
  <2> QED BY <1>1, <1>2, <2>1
<1> QED BY <1>3, <1>4, <1>5

\* The next name.
LEMMA HopNamed ==
  ASSUME RootInv, JudgeInv, pc \in {"hop", "ask"}, todo # <<>>
  PROVE  /\ Gone + 1 \in 1 .. Len(Path) /\ Gone \in Nat /\ Len(todo) \in Nat \ {0}
         /\ Hop.name = Path[Gone + 1]
         /\ opener = "core" /\ Hop.follow => Gone + 1 <= Len(base)
         /\ opener = "core" /\ ~Hop.follow =>
              \E k \in 1 .. Len(Supplied) : Gone + 1 = Len(base) + k
<1>1. /\ Len(todo) \in Nat \ {0} /\ Hop = todo[1]
      /\ Hop.follow <=> Len(todo) - 1 >= Len(Guarded)
  BY NextHop
<1>2. /\ Gone \in 0 .. Len(Path) /\ \A j \in 1 .. Len(todo) : todo[j].name = Path[Gone + j]
  BY DEF JudgeInv, Standing
<1>3. /\ Len(base) \in Nat /\ Len(Supplied) \in Nat /\ Len(Path) = Len(base) + Len(Supplied)
  BY PathType
<1>4. Gone = Len(Path) - Len(todo)
  BY DEF Gone
<1>5. Hop.name = Path[Gone + 1]
  <2>1. 1 \in 1 .. Len(todo)
    BY <1>1
  <2> QED BY <1>1, <1>2, <2>1
<1>6. opener = "core" => Guarded = Supplied
  BY DEF Guarded
<1>7. Gone + 1 \in 1 .. Len(Path) /\ Gone \in Nat
  BY <1>1, <1>2, <1>3, <1>4
<1>8. opener = "core" /\ Hop.follow => Gone + 1 <= Len(base)
  BY <1>1, <1>3, <1>4, <1>6
<1>9. ASSUME opener = "core", ~Hop.follow
      PROVE  \E k \in 1 .. Len(Supplied) : Gone + 1 = Len(base) + k
  <2>1. ~(Len(todo) - 1 >= Len(Supplied))
    BY <1>1, <1>6, <1>9
  <2>2. Gone + 1 - Len(base) \in 1 .. Len(Supplied)
    BY <1>1, <1>3, <1>4, <1>7, <2>1
  <2>3. Gone + 1 = Len(base) + (Gone + 1 - Len(base))
    BY <1>3, <1>7
  <2> QED BY <2>2, <2>3
<1> QED BY <1>1, <1>5, <1>7, <1>8, <1>9

\* One directory further.
LEMMA EnterJudged == RootInv /\ JudgeInv /\ EnterDirectory => JudgeInv'
<1> SUFFICES ASSUME RootInv, JudgeInv, EnterDirectory PROVE JudgeInv'
  OBVIOUS
<1> DEFINE entry == entries[at][Hop.name]
<1>1. /\ pc = "hop" /\ pc' = pc /\ todo # <<>> /\ Hop.name # ParentDir
      /\ entry.kind = "dir" \/ (Hop.follow /\ entry.kind = "link")
      /\ at' = entry.to /\ todo' = Tail(todo)
      /\ UNCHANGED <<base, outcome, environment, opener, root>>
  BY DEF EnterDirectory, AtHop, Control
<1>2. /\ Gone + 1 \in 1 .. Len(Path) /\ Gone \in Nat /\ Len(todo) \in Nat \ {0}
      /\ Hop.name = Path[Gone + 1]
      /\ opener = "core" /\ Hop.follow => Gone + 1 <= Len(base)
  BY <1>1, HopNamed
<1>3. UNCHANGED <<entries, held, cwd>>
  BY <1>1 DEF environment
<1>4. Rejected' = Rejected /\ Path' = Path /\ From' = From /\ Quiet' = Quiet
  BY <1>1, <1>3, JudgedStays DEF Path
<1>5. /\ Len(todo') = Len(todo) - 1
      /\ \A j \in 1 .. Len(todo') : todo'[j] = todo[j + 1]
  <2>1. todo \in Seq([name : Supplies, follow : BOOLEAN])
    BY DEF RootInv, TypeInv
  <2> QED BY <1>1, <2>1, HeadTailProperties
<1>6. Len(Path) \in Nat /\ Path \in Seq(Parts) /\ at \in Dirs /\ From \in Dirs /\ NoDir \notin Dirs
      /\ SubSeq(Path, 1, Len(base)) = base /\ Len(base) \in 0 .. Len(Path)
  BY PathType
<1>7. Gone' = Gone + 1
  BY <1>2, <1>4, <1>5, <1>6 DEF Gone
<1>8. \A j \in 1 .. Len(todo') : todo'[j].name = Path[Gone + 1 + j]
  <2> SUFFICES ASSUME NEW j \in 1 .. Len(todo') PROVE todo'[j].name = Path[Gone + 1 + j]
    OBVIOUS
  <2>1. j + 1 \in 1 .. Len(todo) /\ Gone + (j + 1) = Gone + 1 + j
    BY <1>2, <1>5
  <2>2. todo[j + 1].name = Path[Gone + (j + 1)]
    BY <1>1, <2>1 DEF JudgeInv, Standing
  <2> QED BY <1>5, <2>1, <2>2
<1>9. \A k \in 1 .. Gone + 1 : Path[k] # ParentDir
  <2> SUFFICES ASSUME NEW k \in 1 .. Gone + 1 PROVE Path[k] # ParentDir
    OBVIOUS
  <2>1. k = Gone + 1 \/ k \in 1 .. Gone
    BY <1>2
  <2>2. \A j \in 1 .. Gone : Path[j] # ParentDir
    BY <1>1 DEF JudgeInv, Standing
  <2> QED BY <1>1, <1>2, <2>1, <2>2
<1> DEFINE k == Gone + 1
<1>10. k \in 1 .. Len(Path) /\ k - 1 = Gone
  BY <1>2
<1>11. Quiet => Followed(entries, Top, SubSeq(Path, 1, k)) = entry.to
  <2> SUFFICES ASSUME Quiet PROVE Followed(entries, Top, SubSeq(Path, 1, k)) = entry.to
    OBVIOUS
  <2>1. Followed(entries, Top, SubSeq(Path, 1, Gone)) = at
    BY <1>1 DEF JudgeInv, Standing
  <2>2. at # NoDir /\ entries[at][Path[k]].kind # "other"
    BY <1>1, <1>2, <1>6
  <2>3. Path \in Seq(Parts) /\ k \in 1 .. Len(Path) /\ at = Followed(entries, Top, SubSeq(Path, 1, k - 1))
    BY <1>6, <1>10, <2>1
  <2> HIDE DEF k
  <2>4. Followed(entries, Top, SubSeq(Path, 1, k)) = entries[at][Path[k]].to
    BY <2>2, <2>3, FollowedGrows
  <2> QED BY <1>2, <2>4 DEF k
<1>12. ASSUME Quiet, opener = "core"
       PROVE  Real(entries, Top, SubSeq(Path, 1, k)) = entry.to /\ Real(entries, Top, base) = From
  <2>1. Real(entries, Top, SubSeq(Path, 1, Gone)) = at /\ Real(entries, Top, base) = From
    BY <1>1, <1>12 DEF JudgeInv, Standing
  <2> DEFINE d == Real(entries, Top, SubSeq(Path, 1, k - 1))
  <2>2. d = at
    BY <1>10, <2>1
  <2>3. entry.kind = "dir"
    <3>1. CASE Hop.follow
      <4>1. k \in 1 .. Len(base)
        BY <1>2, <1>6, <1>12, <3>1
      <4>2. \A i \in 1 .. Len(base) :
              entries[Real(entries, Top, SubSeq(Path, 1, i - 1))][Path[i]].kind = "dir"
        <5>1. Real(entries, Top, SubSeq(Path, 1, Len(base))) # NoDir
          BY <1>6, <2>1
        <5> QED BY <1>6, <5>1, RealBefore
      <4>3. entries[d][Path[k]].kind = "dir"
        BY <4>1, <4>2
      <4> QED BY <1>2, <2>2, <4>3
    <3>2. CASE ~Hop.follow
      BY <1>1, <3>2
    <3> QED BY <3>1, <3>2
  <2>4. d # NoDir /\ entries[d][Path[k]].kind = "dir" =>
          Real(entries, Top, SubSeq(Path, 1, k)) = entries[d][Path[k]].to
    <3> HIDE DEF k
    <3> QED BY <1>6, <1>10, RealGrows
  <2>5. d # NoDir /\ entries[d][Path[k]] = entry
    BY <1>2, <1>6, <2>2
  <2> QED BY <2>1, <2>3, <2>4, <2>5
<1>13. /\ (Followed(entries, Top, SubSeq(Path, 1, Gone)) = at)' <=>
            Followed(entries, Top, SubSeq(Path, 1, k)) = entry.to
       /\ (Real(entries, Top, SubSeq(Path, 1, Gone)) = at)' <=>
            Real(entries, Top, SubSeq(Path, 1, k)) = entry.to
       /\ (Real(entries, Top, base) = From)' <=> Real(entries, Top, base) = From
  BY <1>1, <1>3, <1>4, <1>7
<1>14. Gone' \in 0 .. Len(Path')
  BY <1>2, <1>4, <1>7
<1>15. /\ \A j \in 1 .. Len(todo') : todo'[j].name = Path'[Gone' + j]
       /\ \A i \in 1 .. Gone' : Path'[i] # ParentDir
  BY <1>4, <1>7, <1>8, <1>9
<1> HIDE DEF entry, k
<1>16. Standing'
  BY <1>1, <1>4, <1>11, <1>12, <1>13, <1>14, <1>15 DEF Standing
<1>17. Unrejected' /\ Located' /\ QuietRootIsJudgedExactly'
  BY <1>1, <1>4 DEF JudgeInv, Unrejected, Located, QuietRootIsJudgedExactly
<1> QED BY <1>16, <1>17 DEF JudgeInv

\* Dot-dot among the supplied names.
LEMMA ParentJudged == RootInv /\ JudgeInv /\ RejectParentDir => JudgeInv'
<1> SUFFICES ASSUME RootInv, JudgeInv, RejectParentDir PROVE JudgeInv'
  OBVIOUS
<1>1. pc = "hop" /\ todo # <<>> /\ Hop.name = ParentDir /\ Finish(Failed("invalid"))
  BY DEF RejectParentDir, AtHop
<1>2. ~Rejected
  BY <1>1 DEF JudgeInv, Unrejected
<1>3. Quiet /\ opener = "core" => Verdict(entries, From, Supplied) = "invalid"
  <2> SUFFICES ASSUME Quiet, opener = "core"
               PROVE  Verdict(entries, From, Supplied) = "invalid"
    OBVIOUS
  <2>1. ~Hop.follow
    <3> SUFFICES ASSUME Hop.follow PROVE FALSE
      BY <1>1, NextHop
    <3>1. Gone + 1 \in 1 .. Len(base) /\ Hop.name = Path[Gone + 1]
      BY <1>1, HopNamed, PathType
    <3>2. Path[Gone + 1] = base[Gone + 1]
      BY <3>1, PathType, ConcatProperties DEF Path
    <3>3. base[Gone + 1] \in Names
      BY <3>1, ElementOfSeq DEF RootInv, TypeInv, TypeOK
    <3> QED BY <1>1, <3>1, <3>2, <3>3, RootsAssumption
  <2>2. PICK k \in 1 .. Len(Supplied) : Gone + 1 = Len(base) + k
    BY <1>1, <2>1, HopNamed
  <2>3. /\ Supplied \in Seq(Parts) /\ Len(base) \in Nat /\ Len(Supplied) \in Nat
        /\ Path[Len(base) + k] = Supplied[k]
    BY PathType
  <2>4. Supplied[k] = ParentDir
    BY <1>1, <2>2, <2>3, HopNamed
  <2>5. ASSUME NEW j \in 1 .. k - 1
        PROVE  Supplied[j] # ParentDir /\ Real(entries, From, SubSeq(Supplied, 1, j)) # NoDir
    <3>1. Gone \in Nat
      BY <1>1, HopNamed
    <3>2. j \in 0 .. Len(Supplied) /\ Len(base) + j <= Gone /\ j \in 1 .. j
      BY <2>2, <2>3, <3>1
    <3> QED BY <1>1, <3>2, CoreStands
  <2> QED BY <2>3, <2>4, <2>5, VerdictStuck
<1>4. Failed("invalid").kind = "invalid"
  BY DEF Failed
<1> QED BY <1>1, <1>2, <1>3, <1>4, FinishJudged

\* The question why a name did not open.
LEMMA AskWhyJudged == RootInv /\ JudgeInv /\ AskWhy => JudgeInv'
<1> SUFFICES ASSUME RootInv, JudgeInv, AskWhy PROVE JudgeInv'
  OBVIOUS
<1> DEFINE kind == IF entries[at][Hop.name].kind = "link" THEN "symlink" ELSE "io"
<1>1. /\ pc = "ask" /\ todo # <<>> /\ Hop.name # ParentDir /\ opener = "core" /\ ~Hop.follow
      /\ Finish(Failed(kind))
  BY DEF AskWhy, RootInv, TypeInv, TypeOK, Stages
<1>2. ~Rejected
  BY <1>1 DEF JudgeInv, Unrejected
<1>3. Quiet => kind \in {"io", Verdict(entries, From, Supplied)}
  <2> SUFFICES ASSUME Quiet, entries[at][Hop.name].kind = "link"
               PROVE  Verdict(entries, From, Supplied) = "symlink"
    OBVIOUS
  <2>1. PICK k \in 1 .. Len(Supplied) : Gone + 1 = Len(base) + k
    BY <1>1, HopNamed
  <2>2. /\ Supplied \in Seq(Parts) /\ Len(base) \in Nat /\ Len(Supplied) \in Nat
        /\ Path[Len(base) + k] = Supplied[k] /\ Gone \in Nat
        /\ Hop.name = Path[Gone + 1]
    BY <1>1, PathType, HopNamed
  <2>3. Supplied[k] # ParentDir /\ Supplied[k] = Hop.name
    BY <1>1, <2>1, <2>2
  <2>4. ASSUME NEW j \in 1 .. k - 1
        PROVE  Supplied[j] # ParentDir /\ Real(entries, From, SubSeq(Supplied, 1, j)) # NoDir
    <3>1. j \in 0 .. Len(Supplied) /\ Len(base) + j <= Gone /\ j \in 1 .. j
      BY <2>1, <2>2
    <3> QED BY <1>1, <3>1, CoreStands
  <2>5. Real(entries, From, SubSeq(Supplied, 1, k - 1)) = at
    <3>1. k - 1 \in 0 .. Len(Supplied) /\ Len(base) + (k - 1) = Gone
      BY <2>1, <2>2
    <3> DEFINE m == k - 1
    <3> HIDE DEF m
    <3>2. m \in 0 .. Len(Supplied) /\ Len(base) + m = Gone /\ Len(base) + m <= Gone
      BY <3>1, <2>2 DEF m
    <3>3. Real(entries, From, SubSeq(Supplied, 1, m)) = Real(entries, Top, SubSeq(Path, 1, Len(base) + m))
      BY <1>1, <3>2, CoreStands
    <3>4. Real(entries, Top, SubSeq(Path, 1, Gone)) = at
      BY <1>1 DEF JudgeInv, Standing
    <3> QED BY <3>2, <3>3, <3>4 DEF m
  <2>6. Real(entries, From, SubSeq(Supplied, 1, k)) = NoDir
    <3> DEFINE d == Real(entries, From, SubSeq(Supplied, 1, k - 1))
    <3>1. ~(d # NoDir /\ entries[d][Supplied[k]].kind = "dir") =>
            Real(entries, From, SubSeq(Supplied, 1, k)) = NoDir
      BY <2>2, RealGrows
    <3> QED BY <2>3, <2>5, <3>1
  <2> QED BY <2>2, <2>3, <2>4, <2>5, <2>6, VerdictStuck
<1>4. Failed(kind).kind = kind /\ kind # "invalid" /\ kind # "opened"
  BY DEF Failed
<1> HIDE DEF kind
<1> QED BY <1>1, <1>2, <1>3, <1>4, FinishJudged

\* The last name has been opened.
LEMMA OpenedJudged == RootInv /\ JudgeInv /\ Opened => JudgeInv'
<1> SUFFICES ASSUME RootInv, JudgeInv, Opened PROVE JudgeInv'
  OBVIOUS
<1> DEFINE result == [kind |-> "opened", names |-> Path]
<1>1. pc = "hop" /\ todo = <<>> /\ Finish(result)
  BY DEF Opened, Path
<1>2. ~Rejected
  BY <1>1 DEF JudgeInv, Unrejected
<1>3. /\ Supplied \in Seq(Parts) /\ Path \in Seq(Parts) /\ Len(base) \in Nat /\ Len(Supplied) \in Nat
      /\ Len(Path) = Len(base) + Len(Supplied)
  BY PathType
<1>4. Gone = Len(Path) /\ SubSeq(Path, 1, Gone) = Path
  <2>1. Len(todo) = 0
    BY <1>1, EmptySeq
  <2>2. Gone = Len(Path)
    BY <1>3, <2>1 DEF Gone
  <2> QED BY <1>3, <2>2, SubSeqFull
<1>5. Quiet => /\ Followed(entries, Top, Path) = at
               /\ opener = "core" => Real(entries, Top, Path) = at
  BY <1>1, <1>4 DEF JudgeInv, Standing
<1>6. Quiet /\ opener = "core" => Verdict(entries, From, Supplied) = "opened"
  <2> SUFFICES ASSUME Quiet, opener = "core"
               PROVE  Verdict(entries, From, Supplied) = "opened"
    OBVIOUS
  <2>1. ASSUME NEW k \in 1 .. Len(Supplied)
        PROVE  Supplied[k] # ParentDir /\ Real(entries, From, SubSeq(Supplied, 1, k)) # NoDir
    <3>1. k \in 0 .. Len(Supplied) /\ Len(base) + k <= Gone /\ k \in 1 .. k
      BY <1>3, <1>4
    <3> QED BY <1>1, <3>1, CoreStands
  <2> QED BY <1>3, <2>1, VerdictOpened
<1>7. result.kind = "opened" /\ result.names = Path
  OBVIOUS
<1> HIDE DEF result
<1> QED BY <1>1, <1>2, <1>5, <1>6, <1>7, FinishJudged

LEMMA JudgeStep == RootInv /\ JudgeInv /\ [Next]_vars => JudgeInv'
<1> SUFFICES ASSUME RootInv, JudgeInv, [Next]_vars PROVE JudgeInv'
  OBVIOUS
<1>f. /\ Failed("invalid").kind = "invalid" /\ Failed("io").kind = "io"
  BY DEF Failed
<1>1. CASE RejectRoot
  <2>1. pc = "start" /\ Rejected /\ Finish(Failed("invalid")) /\ todo = <<>>
    BY <1>1 DEF RejectRoot, JudgeInv, Unrejected
  <2> QED BY <2>1, <1>f, FinishJudged
<1>2. CASE StartAtAnchor
  BY <1>2, StartJudged
<1>3. CASE AskCurrentDir
  BY <1>3, AskCurrentDirJudged
<1>4. CASE Canonicalize
  BY <1>4, CanonicalizeJudged
<1>5. CASE StartFails
  <2>1. ~Rejected /\ Finish(Failed("io"))
    BY <1>5 DEF StartFails
  <2> QED BY <2>1, <1>f, FinishJudged
<1>6. CASE RejectParentDir
  BY <1>6, ParentJudged
<1>7. CASE EnterDirectory
  BY <1>7, EnterJudged
<1>8. CASE OpenFails
  <2>1. pc = "hop" /\ ~Rejected
    BY <1>8 DEF OpenFails, AtHop, JudgeInv, Unrejected
  <2>2. CASE pc' = "ask" /\ UNCHANGED <<base, todo, at, trail, outcome>> /\ Control
    <3>1. UNCHANGED <<entries, held, cwd, root, opener, base, todo, at>>
      BY <2>2 DEF Control, environment
    <3>2. /\ Rejected' = Rejected /\ Path' = Path /\ From' = From /\ Quiet' = Quiet
      BY <3>1, JudgedStays DEF Path
    <3>3. Gone' = Gone
      BY <3>1, <3>2 DEF Gone
    <3>4. Standing'
      BY <2>1, <3>1, <3>2, <3>3 DEF JudgeInv, Standing
    <3> QED BY <2>1, <2>2, <3>2, <3>4
            DEF JudgeInv, Unrejected, Located, QuietRootIsJudgedExactly
  <2>3. CASE Finish(Failed("io"))
    BY <2>1, <2>3, <1>f, FinishJudged
  <2> QED BY <1>8, <2>2, <2>3 DEF OpenFails
<1>9. CASE AskWhy
  BY <1>9, AskWhyJudged
<1>10. CASE Opened
  BY <1>10, OpenedJudged
<1>11. ASSUME NEW d \in Dirs, NEW n \in Names, NEW entry \in Entries, Change(d, n, entry)
       PROVE  JudgeInv'
  BY <1>11, ChangeJudged
<1>12. CASE UNCHANGED vars
  <2>1. UNCHANGED <<entries, held, cwd, root, opener, base, todo, at, pc, outcome>>
    BY <1>12 DEF vars, environment
  <2>2. /\ Rejected' = Rejected /\ Supplied' = Supplied /\ Path' = Path /\ From' = From
        /\ Quiet' = Quiet
    BY <2>1, JudgedStays DEF Path
  <2>3. Gone' = Gone
    BY <2>1, <2>2 DEF Gone
  <2>4. Unrejected' /\ Located' /\ Standing'
    BY <2>1, <2>2, <2>3 DEF JudgeInv, Unrejected, Located, Standing
  <2>5. QuietRootIsJudgedExactly'
    BY <2>1, <2>2 DEF JudgeInv, QuietRootIsJudgedExactly, IsOpened
  <2> QED BY <2>4, <2>5 DEF JudgeInv
<1>13. CASE Done
  BY <1>12, <1>13 DEF Done
<1> QED BY <1>1, <1>2, <1>3, <1>4, <1>5, <1>6, <1>7, <1>8, <1>9, <1>10, <1>11, <1>12, <1>13
        DEF Next, Open

\* In a tree at rest the root that is opened is the one its path names, and
\* an error is the one to be met on its way, for any tree and path.
THEOREM RootQuietIsJudgedExactly == Spec => []QuietRootIsJudgedExactly
<1>1. JudgeInv => QuietRootIsJudgedExactly
  BY DEF JudgeInv
<1>2. Spec => []JudgeInv
  BY JudgeInit, JudgeStep, RootAlways, PTL DEF Spec
<1> QED BY <1>1, <1>2, PTL
=============================================================================
