---------------------------- MODULE BlockProofs ----------------------------
(***************************************************************************)
(* Theorems about the operators of Bytes and Blocks, for any source and    *)
(* any plan; about lists that a set is put into; and about sorting, for    *)
(* any relation that is a strict weak order.                               *)
(***************************************************************************)
EXTENDS Blocks, SequenceTheorems, FiniteSetTheorems, FunctionTheorems, TLAPS

ByteString == Seq(Byte)

\* What a plan is made of.
IsPlan(plan) ==
  /\ plan.quoted_phrases \in Seq(ByteString) /\ plan.identifiers \in Seq(ByteString)
  /\ plan.terms \in Seq(ByteString)
  /\ plan.budget.context_lines \in Nat

(***************************************************************************)
(* Sequences of numbers: joined, flattened, listing a set.                 *)
(***************************************************************************)

Stream == Seq(Nat)

\* One stream and then another.
Join(p, q) == p \o q

\* Concatenation of streams.
LEMMA StreamsConcat ==
  /\ <<>> \in Stream
  /\ \A p, q \in Stream : Join(p, q) \in Stream
  /\ \A p, q, r \in Stream : Join(Join(p, q), r) = Join(p, Join(q, r))
  /\ \A p \in Stream : Join(p, <<>>) = p /\ Join(<<>>, p) = p
  /\ \A p, q, r \in Stream : Join(p, q) = Join(p, r) => q = r
<1>1. <<>> \in Stream
  BY EmptySeq DEF Stream
<1>2. \A p, q \in Stream : Join(p, q) \in Stream
  BY ConcatProperties DEF Stream, Join
<1>3. \A p, q, r \in Stream : Join(Join(p, q), r) = Join(p, Join(q, r))
  <2> SUFFICES ASSUME NEW p \in Seq(Nat), NEW q \in Seq(Nat), NEW r \in Seq(Nat)
               PROVE  (p \o q) \o r = p \o (q \o r)
    BY DEF Stream, Join
  <2> QED BY ConcatAssociative, SMTT(30)
<1>4. \A p \in Stream : Join(p, <<>>) = p /\ Join(<<>>, p) = p
  BY ConcatEmptySeq DEF Stream, Join
<1>5. \A p, q, r \in Stream : Join(p, q) = Join(p, r) => q = r
  <2> SUFFICES ASSUME NEW p \in Seq(Nat), NEW q \in Seq(Nat), NEW r \in Seq(Nat),
                      p \o q = p \o r
               PROVE  q = r
    BY DEF Stream, Join
  <2> QED BY ConcatSimplifications
<1> QED BY <1>1, <1>2, <1>3, <1>4, <1>5

\* A list of streams, one after the other.
Empty(p)             == <<>>
Joined(p, acc, next) == Join(acc, next)
Flat == INSTANCE Folding WITH Start <- Empty, Step <- Joined

\* FlattenSeq is the fold that joins.
LEMMA Flattened ==
  ASSUME NEW list \in Seq(Stream)
  PROVE  FlattenSeq(list) = Flat!Fold(0, list) /\ FlattenSeq(list) \in Stream
<1> DEFINE n == Len(list)
           Grown(f) == [i \in 1 .. n |-> IF i = 1 THEN list[i] ELSE Join(f[i - 1], list[i])]
           chosen == CHOOSE f : f = Grown(f)
<1>1. n \in Nat /\ \A i \in 1 .. n : list[i] \in Stream
  BY LenProperties, ElementOfSeq
<1>2. PICK t : Flat!IsTrace(0, list, t) /\ Flat!Fold(0, list) = t[n]
  BY Flat!FoldHasTrace
<1>3. t[0] = <<>> /\ \A k \in 1 .. n : t[k] = Join(t[k - 1], list[k])
  BY <1>2 DEF Flat!IsTrace, Empty, Joined
<1>4. 1 \in 1 .. n => t[1] = list[1]
  <2> SUFFICES ASSUME 1 \in 1 .. n
               PROVE  t[1] = list[1]
    OBVIOUS
  <2>1. list[1] \in Stream
    BY <1>1
  <2>2. t[1] = Join(<<>>, list[1])
    <3>1. t[1] = Join(t[1 - 1], list[1])
      BY <1>3
    <3> QED BY <1>3, <3>1
  <2>3. \A p \in Stream : Join(<<>>, p) = p
    BY StreamsConcat
  <2> QED BY <2>1, <2>2, <2>3
<1>5. \E f : f = Grown(f)
  <2> DEFINE f == [i \in 1 .. n |-> t[i]]
  <2>1. \A i \in 1 .. n : i = 1 => t[i] = list[i]
    BY <1>4
  <2>2. \A i \in 1 .. n : i # 1 => t[i] = Join(f[i - 1], list[i])
    <3>1. \A i \in 1 .. n : i # 1 => i - 1 \in 1 .. n
      BY <1>1
    <3> QED BY <1>3, <3>1
  <2>3. f = Grown(f)
    BY <2>1, <2>2
  <2> HIDE DEF f
  <2> QED BY <2>3
<1>6. chosen = Grown(chosen)
  <2> HIDE DEF Grown
  <2> QED BY <1>5
<1>7. n # 0 => FlattenSeq(list) = chosen[n]
  BY Zenon DEF FlattenSeq, Join
<1>8. n = 0 => FlattenSeq(list) = <<>>
  BY <1>1, EmptySeq DEF FlattenSeq
<1> HIDE DEF chosen
<1> DEFINE Bad == {i \in 1 .. n : chosen[i] # t[i]}
<1>9. Bad = {}
  <2> SUFFICES ASSUME Bad # {}
               PROVE  FALSE
    OBVIOUS
  <2>1. Bad \in SUBSET Nat
    BY <1>1
  <2>2. PICK i \in Bad : \A k \in Bad : i <= k
    BY <2>1, Flat!Least
  <2>3. i \in 1 .. n /\ i \in Nat /\ chosen[i] # t[i]
    BY <1>1
  <2>4. i # 1
    BY <1>6, <1>4, <2>3
  <2>5. i - 1 \in 1 .. n /\ i - 1 \notin Bad
    BY <1>1, <2>2, <2>3, <2>4
  <2>6. chosen[i] = Join(chosen[i - 1], list[i])
    BY <1>6, <2>3, <2>4
  <2> QED BY <1>3, <2>3, <2>5, <2>6
<1>10. FlattenSeq(list) = t[n]
  <2>1. CASE n = 0
    BY <1>3, <1>8, <2>1
  <2>2. CASE n # 0
    <3>1. n \in 1 .. n
      BY <1>1, <2>2
    <3> QED BY <1>7, <1>9, <2>2, <3>1
  <2> QED BY <2>1, <2>2
<1>11. Flat!Fold(0, list) \in Stream
  <2>1. Empty(0) \in Stream /\ \A acc \in Stream, part \in Stream : Joined(0, acc, part) \in Stream
    BY StreamsConcat DEF Empty, Joined
  <2> QED BY <2>1, Flat!FoldKeeps
<1> QED BY <1>2, <1>10, <1>11

\* A sequence of elements of a set is one of elements of a larger set.
LEMMA Widened ==
  ASSUME NEW S, NEW T, \A x \in S : x \in T, NEW A \in Seq(S)
  PROVE  A \in Seq(T)
<1>1. \A k \in 1 .. Len(A) : A[k] \in T
  BY ElementOfSeq
<1>2. Len(A) \in Nat /\ A = [k \in 1 .. Len(A) |-> A[k]]
  BY LenProperties
<1>3. [k \in 1 .. Len(A) |-> A[k]] \in Seq(T)
  BY <1>1, <1>2, IsASeq
<1> QED BY <1>2, <1>3

(***************************************************************************)
(* Bytes.                                                                  *)
(***************************************************************************)

\* Ascending lists the elements of a finite set of integers, each once, in
\* ascending order.
LEMMA AscendingLists ==
  ASSUME NEW S \in SUBSET Int, IsFiniteSet(S)
  PROVE  /\ Ascending(S) \in Seq(S) /\ Len(Ascending(S)) = Cardinality(S)
         /\ Cardinality(S) \in Nat
         /\ \A i \in S : \E k \in 1 .. Cardinality(S) : Ascending(S)[k] = i
         /\ \A j, k \in 1 .. Cardinality(S) : j < k => Ascending(S)[j] < Ascending(S)[k]
<1> DEFINE n == Cardinality(S)
           upTo(i) == {j \in S : j <= i}
           place == [i \in S |-> Cardinality(upTo(i))]
<1>1. /\ n \in Nat /\ IsFiniteSet(1 .. n) /\ Cardinality(1 .. n) = n
  <2>1. n \in Nat
    BY FS_CardinalityType
  <2>2. IsFiniteSet(1 .. n) /\ Cardinality(1 .. n) = IF 1 > n THEN 0 ELSE n - 1 + 1
    BY <2>1, FS_Interval
  <2> HIDE DEF n
  <2> QED BY <2>1, <2>2
<1>2. \A i \in S : /\ IsFiniteSet(upTo(i)) /\ Cardinality(upTo(i)) \in Nat
                   /\ Cardinality(upTo(i)) <= n
  <2> TAKE i \in S
  <2>1. upTo(i) \in SUBSET S
    OBVIOUS
  <2> QED BY <2>1, FS_Subset, FS_CardinalityType
<1>3. ASSUME NEW i \in S
      PROVE  Cardinality(upTo(i)) \in 1 .. n
  <2>1. i \in upTo(i)
    OBVIOUS
  <2>2. Cardinality(upTo(i)) # 0
    BY <1>2, <2>1, FS_EmptySet
  <2> HIDE DEF upTo, n
  <2> QED BY <1>1, <1>2, <2>2
<1>4. ASSUME NEW i \in S, NEW j \in S, i < j
      PROVE  Cardinality(upTo(i)) < Cardinality(upTo(j))
  <2>1. upTo(i) \in SUBSET upTo(j) /\ upTo(i) # upTo(j)
    <3>1. j \in upTo(j) /\ j \notin upTo(i)
      BY <1>4
    <3>2. \A h \in upTo(i) : h \in upTo(j)
      BY <1>4
    <3> QED BY <3>1, <3>2
  <2>2. /\ Cardinality(upTo(i)) <= Cardinality(upTo(j))
        /\ Cardinality(upTo(i)) # Cardinality(upTo(j))
    <3> HIDE DEF upTo
    <3> QED BY <1>2, <2>1, FS_Subset
  <2> HIDE DEF upTo
  <2> QED BY <1>2, <2>2
<1>5. place \in Injection(S, 1 .. n)
  <2>1. place \in [S -> 1 .. n]
    BY <1>3
  <2>2. ASSUME NEW i \in S, NEW j \in S, place[i] = place[j]
        PROVE  i = j
    <3>1. ~(place[i] < place[j]) /\ ~(place[j] < place[i])
      BY <2>1, <2>2
    <3>2. ~(i < j) /\ ~(j < i)
      <4> HIDE DEF upTo
      <4> QED BY <1>4, <3>1
    <3> QED BY <3>2
  <2> HIDE DEF place
  <2> QED BY <2>1, <2>2, Fun_IsInj
<1>6. place \in Surjection(S, 1 .. n)
  BY <1>1, <1>5, FS_Injection
<1>7. ASSUME NEW k \in 1 .. n
      PROVE  Ascending(S)[k] \in S /\ place[Ascending(S)[k]] = k
  <2>1. \E i \in S : place[i] = k
    BY <1>6 DEF Surjection
  <2>2. Ascending(S)[k] = CHOOSE i \in S : Cardinality(upTo(i)) = k
    BY DEF Ascending
  <2>3. \E i \in S : Cardinality(upTo(i)) = k
    BY <2>1
  <2> HIDE DEF upTo
  <2> QED BY <2>2, <2>3
<1>8. Ascending(S) \in Seq(S) /\ Len(Ascending(S)) = n
  <2> DEFINE at(k) == CHOOSE i \in S : Cardinality(upTo(i)) = k
  <2>1. Ascending(S) = [k \in 1 .. n |-> at(k)]
    BY DEF Ascending
  <2> HIDE DEF n, place, at
  <2>3. Ascending(S) \in [1 .. n -> S]
    BY <1>7, <2>1
  <2> QED BY <1>1, <2>3
<1>9. ASSUME NEW i \in S
      PROVE  \E k \in 1 .. n : Ascending(S)[k] = i
  <2>1. place[i] \in 1 .. n
    BY <1>3
  <2>2. Ascending(S)[place[i]] \in S /\ place[Ascending(S)[place[i]]] = place[i]
    BY <1>7, <2>1
  <2>3. Ascending(S)[place[i]] = i
    <3> HIDE DEF place
    <3> QED BY <1>5, <2>2 DEF Injection, IsInjective
  <2> QED BY <2>1, <2>3
<1>10. ASSUME NEW j \in 1 .. n, NEW k \in 1 .. n, j < k
       PROVE  Ascending(S)[j] < Ascending(S)[k]
  <2> DEFINE a == Ascending(S)[j]
             b == Ascending(S)[k]
  <2>1. a \in S /\ b \in S /\ place[a] = j /\ place[b] = k
    BY <1>7
  <2>2. a \in Int /\ b \in Int /\ a # b /\ ~(b < a)
    <3>1. b < a => k < j
      BY <1>4, <2>1
    <3>2. ~(k < j) /\ j # k
      BY <1>1, <1>10
    <3> QED BY <2>1, <3>1, <3>2
  <2> HIDE DEF a, b
  <2>3. a < b
    BY <2>2
  <2> QED BY <2>3 DEF a, b
<1> QED BY <1>1, <1>8, <1>9, <1>10

\* A lists the elements of a set of numbers in ascending order.
ListsUp(A, S) ==
  /\ A \in Seq(S)
  /\ \A i \in S : \E k \in 1 .. Len(A) : A[k] = i
  /\ \A j, k \in 1 .. Len(A) : j < k => A[j] < A[k]

\* There is one such listing.
LEMMA ListedOnce ==
  ASSUME NEW S \in SUBSET Int, NEW A, NEW B, ListsUp(A, S), ListsUp(B, S)
  PROVE  A = B
<1>1. /\ A \in Seq(S) /\ Len(A) \in Nat /\ \A k \in 1 .. Len(A) : A[k] \in S /\ A[k] \in Int
      /\ B \in Seq(S) /\ Len(B) \in Nat /\ \A k \in 1 .. Len(B) : B[k] \in S /\ B[k] \in Int
  BY LenProperties, ElementOfSeq DEF ListsUp
<1> DEFINE Bad == {k \in Nat : k \in 1 .. Len(A) /\ k \in 1 .. Len(B) /\ A[k] # B[k]}
<1>2. Bad = {}
  <2> SUFFICES ASSUME Bad # {}
               PROVE  FALSE
    OBVIOUS
  <2>1. PICK m \in Bad : \A k \in Bad : m <= k
    BY Flat!Least
  <2>2. PICK j \in 1 .. Len(B) : B[j] = A[m]
    BY <1>1 DEF ListsUp
  <2>3. PICK i \in 1 .. Len(A) : A[i] = B[m]
    BY <1>1 DEF ListsUp
  <2>4. /\ m \in 1 .. Len(A) /\ m \in 1 .. Len(B) /\ A[m] # B[m]
        /\ A[m] \in Int /\ B[m] \in Int
    BY <1>1
  <2>5. \A k \in 1 .. Len(A) : k < m => k \in 1 .. Len(B) /\ A[k] = B[k]
    <3> TAKE k \in 1 .. Len(A)
    <3> HAVE k < m
    <3>1. k \in Nat /\ k \in 1 .. Len(B) /\ ~(m <= k)
      BY <1>1, <2>4
    <3> QED BY <2>1, <3>1
  <2>6. ~(j < m)
    <3> SUFFICES ASSUME j < m
                 PROVE  FALSE
      OBVIOUS
    <3>1. j \in 1 .. Len(A)
      BY <1>1, <2>4
    <3>2. A[j] = B[j] /\ A[j] < A[m]
      BY <2>4, <2>5, <3>1 DEF ListsUp
    <3> QED BY <2>2, <2>4, <3>2
  <2>7. ~(i < m)
    <3> SUFFICES ASSUME i < m
                 PROVE  FALSE
      OBVIOUS
    <3>1. i \in 1 .. Len(B) /\ A[i] = B[i]
      BY <2>5
    <3>2. B[i] < B[m]
      BY <2>4, <3>1 DEF ListsUp
    <3> QED BY <2>3, <2>4, <3>1, <3>2
  <2>8. m < j
    <3>1. j # m
      BY <2>2, <2>4
    <3>2. j \in Int /\ m \in Int
      BY <2>4
    <3> QED BY <2>6, <3>1, <3>2
  <2>9. m < i
    <3>1. i # m
      BY <2>3, <2>4
    <3>2. i \in Int /\ m \in Int
      BY <2>4
    <3> QED BY <2>7, <3>1, <3>2
  <2>10. B[m] < B[j] /\ A[m] < A[i]
    BY <2>4, <2>8, <2>9 DEF ListsUp
  <2> HIDE DEF Bad
  <2>11. B[m] < A[m] /\ A[m] < B[m]
    BY <2>2, <2>3, <2>10
  <2> QED BY <2>4, <2>11
<1>3. \A k \in 1 .. Len(A) : k \in 1 .. Len(B) => A[k] = B[k]
  BY <1>1, <1>2
<1>4. ~(Len(A) < Len(B))
  <2> SUFFICES ASSUME Len(A) < Len(B)
               PROVE  FALSE
    OBVIOUS
  <2>1. Len(A) + 1 \in 1 .. Len(B) /\ \A k \in 1 .. Len(A) : k \in 1 .. Len(B) /\ k < Len(A) + 1
    BY <1>1
  <2>2. PICK k \in 1 .. Len(A) : A[k] = B[Len(A) + 1]
    BY <1>1, <2>1 DEF ListsUp
  <2>3. B[k] < B[Len(A) + 1] /\ A[k] = B[k]
    BY <1>3, <2>1, <2>2 DEF ListsUp
  <2>4. B[k] \in Int
    BY <1>1, <2>1
  <2> QED BY <2>2, <2>3, <2>4
<1>5. ~(Len(B) < Len(A))
  <2> SUFFICES ASSUME Len(B) < Len(A)
               PROVE  FALSE
    OBVIOUS
  <2>1. Len(B) + 1 \in 1 .. Len(A) /\ \A k \in 1 .. Len(B) : k \in 1 .. Len(A) /\ k < Len(B) + 1
    BY <1>1
  <2>2. PICK k \in 1 .. Len(B) : B[k] = A[Len(B) + 1]
    BY <1>1, <2>1 DEF ListsUp
  <2>3. A[k] < A[Len(B) + 1] /\ A[k] = B[k]
    BY <1>3, <2>1, <2>2 DEF ListsUp
  <2>4. A[k] \in Int
    BY <1>1, <2>1
  <2> QED BY <2>2, <2>3, <2>4
<1>6. Len(A) = Len(B)
  BY <1>1, <1>4, <1>5
<1> QED BY <1>1, <1>3, <1>6, SeqEqual

\* Ascending is the listing of a finite set.
LEMMA AscendingIsListing ==
  ASSUME NEW S \in SUBSET Int, IsFiniteSet(S)
  PROVE  ListsUp(Ascending(S), S)
BY AscendingLists DEF ListsUp

\* An interval is listed from its first number to its last.
LEMMA IntervalListed ==
  ASSUME NEW p \in Int, NEW n \in Nat
  PROVE  /\ ListsUp([k \in 1 .. n |-> p + k], p + 1 .. p + n)
         /\ Len([k \in 1 .. n |-> p + k]) = n
<1> DEFINE A == [k \in 1 .. n |-> p + k]
<1>1. \A k \in 1 .. n : p + k \in p + 1 .. p + n
  OBVIOUS
<1>2. A \in Seq(p + 1 .. p + n) /\ Len(A) = n
  BY <1>1, IsASeq, LenProperties
<1>3. \A i \in p + 1 .. p + n : i - p \in 1 .. n /\ p + (i - p) = i
  OBVIOUS
<1>4. \A i \in p + 1 .. p + n : \E k \in 1 .. n : A[k] = i
  BY <1>3
<1>5. \A j, k \in 1 .. n : j < k => A[j] < A[k]
  OBVIOUS
<1> HIDE DEF A
<1>6. ListsUp(A, p + 1 .. p + n)
  BY <1>2, <1>4, <1>5 DEF ListsUp
<1> QED BY <1>2, <1>6 DEF A

\* Moving a set of numbers moves its listing.
LEMMA MovedListed ==
  ASSUME NEW S \in SUBSET Int, NEW A, ListsUp(A, S), NEW p \in Int
  PROVE  /\ ListsUp([k \in 1 .. Len(A) |-> A[k] - p], {i - p : i \in S})
         /\ Len([k \in 1 .. Len(A) |-> A[k] - p]) = Len(A)
<1> DEFINE B == [k \in 1 .. Len(A) |-> A[k] - p]
           T == {i - p : i \in S}
<1>1. A \in Seq(S) /\ Len(A) \in Nat /\ \A k \in 1 .. Len(A) : A[k] \in S /\ A[k] \in Int
  BY LenProperties, ElementOfSeq DEF ListsUp
<1>2. \A k \in 1 .. Len(A) : A[k] - p \in T
  BY <1>1
<1>3. B \in Seq(T) /\ Len(B) = Len(A)
  <2> HIDE DEF T
  <2>1. B \in Seq(T)
    BY <1>1, <1>2, IsASeq
  <2>2. DOMAIN B = 1 .. Len(A) /\ DOMAIN B = 1 .. Len(B) /\ Len(B) \in Nat
    BY <2>1, LenProperties
  <2> HIDE DEF B
  <2> QED BY <1>1, <2>1, <2>2
<1>4. \A i \in T : \E k \in 1 .. Len(A) : B[k] = i
  BY DEF ListsUp
<1>5. \A j, k \in 1 .. Len(A) : j < k => B[j] < B[k]
  <2>1. \A j, k \in 1 .. Len(A) : j < k => A[j] < A[k]
    BY DEF ListsUp
  <2> QED BY <1>1, <2>1
<1> HIDE DEF B, T
<1>6. ListsUp(B, T)
  BY <1>3, <1>4, <1>5 DEF ListsUp
<1> QED BY <1>3, <1>6 DEF B, T

\* The listings of a set and of one beyond it follow each other.
LEMMA JoinedListed ==
  ASSUME NEW S \in SUBSET Int, NEW T \in SUBSET Int, NEW A, NEW B,
         ListsUp(A, S), ListsUp(B, T), \A i \in S, j \in T : i < j
  PROVE  ListsUp(A \o B, S \cup T)
<1> DEFINE U == S \cup T
<1>1. /\ A \in Seq(S) /\ Len(A) \in Nat /\ \A k \in 1 .. Len(A) : A[k] \in S
      /\ B \in Seq(T) /\ Len(B) \in Nat /\ \A k \in 1 .. Len(B) : B[k] \in T
  BY LenProperties, ElementOfSeq DEF ListsUp
<1>2. A \in Seq(U) /\ B \in Seq(U)
  BY <1>1
<1>3. /\ A \o B \in Seq(U) /\ Len(A \o B) = Len(A) + Len(B)
      /\ \A k \in 1 .. Len(A) + Len(B) :
           (A \o B)[k] = IF k <= Len(A) THEN A[k] ELSE B[k - Len(A)]
  <2> HIDE DEF U
  <2> QED BY <1>2, ConcatProperties
<1> DEFINE C == A \o B
<1> HIDE DEF C
<1>4. \A k \in 1 .. Len(A) : k \in 1 .. Len(C) /\ C[k] = A[k]
  <2>1. \A k \in 1 .. Len(A) : k \in 1 .. Len(A) + Len(B) /\ k <= Len(A)
    BY <1>1
  <2> QED BY <1>3, <2>1 DEF C
<1>5. \A k \in 1 .. Len(B) : Len(A) + k \in 1 .. Len(C) /\ C[Len(A) + k] = B[k]
  <2>1. \A k \in 1 .. Len(B) : /\ Len(A) + k \in 1 .. Len(A) + Len(B) /\ ~(Len(A) + k <= Len(A))
                               /\ Len(A) + k - Len(A) = k
    BY <1>1
  <2> QED BY <1>3, <2>1 DEF C
<1>6. \A k \in 1 .. Len(C) : \/ k \in 1 .. Len(A)
                             \/ k > Len(A) /\ k - Len(A) \in 1 .. Len(B) /\ Len(A) + (k - Len(A)) = k
  BY <1>1, <1>3 DEF C
<1>7. \A i \in U : \E k \in 1 .. Len(C) : C[k] = i
  BY <1>4, <1>5 DEF ListsUp
<1>8. ASSUME NEW j \in 1 .. Len(C), NEW k \in 1 .. Len(C), j < k
      PROVE  C[j] < C[k]
  <2>1. CASE j \in 1 .. Len(A) /\ k \in 1 .. Len(A)
    BY <1>4, <1>8, <2>1 DEF ListsUp
  <2>2. CASE j \in 1 .. Len(A) /\ k > Len(A) /\ k - Len(A) \in 1 .. Len(B) /\ Len(A) + (k - Len(A)) = k
    <3>1. C[j] = A[j] /\ A[j] \in S
      BY <1>1, <1>4, <2>2
    <3>2. C[k] = B[k - Len(A)] /\ B[k - Len(A)] \in T
      BY <1>1, <1>5, <2>2
    <3> QED BY <3>1, <3>2
  <2>3. CASE j > Len(A) /\ j - Len(A) \in 1 .. Len(B) /\ Len(A) + (j - Len(A)) = j
    <3>1. k - Len(A) \in 1 .. Len(B) /\ Len(A) + (k - Len(A)) = k /\ j - Len(A) < k - Len(A)
      BY <1>1, <1>3, <1>6, <1>8, <2>3
    <3>2. C[k] = B[k - Len(A)] /\ C[j] = B[j - Len(A)]
      BY <1>5, <2>3, <3>1
    <3>3. B[j - Len(A)] < B[k - Len(A)]
      BY <2>3, <3>1 DEF ListsUp
    <3> QED BY <3>2, <3>3
  <2> QED BY <1>6, <2>1, <2>2, <2>3
<1>9. C \in Seq(U)
  BY <1>3 DEF C
<1> HIDE DEF U
<1>10. ListsUp(C, U)
  BY <1>7, <1>8, <1>9 DEF ListsUp
<1> QED BY <1>10 DEF C, U

\* A slice of a byte string is a byte string.
LEMMA SliceType ==
  ASSUME NEW raw \in ByteString, NEW start \in Nat, NEW end \in Nat,
         end <= Len(raw), start <= end
  PROVE  /\ Slice(raw, start, end) \in ByteString
         /\ Len(Slice(raw, start, end)) = end - start
<1>1. \A i \in start + 1 .. end : raw[i] \in Byte
  BY ElementOfSeq, LenProperties DEF ByteString
<1>2. Slice(raw, start, end) \in Seq(Byte)
  BY <1>1, SubSeqProperties, LenProperties DEF Slice, ByteString
<1>3. Len(SubSeq(raw, start + 1, end)) = IF start + 1 <= end THEN end - (start + 1) + 1 ELSE 0
  BY SubSeqProperties DEF ByteString
<1> QED BY <1>2, <1>3 DEF Slice, ByteString

\* The chunks of a source follow each other up to its last byte; the content
\* of a line is part of its chunk (parse_lines).
Line == [content : ByteString, byte_start : Nat, byte_end : Nat]

\* The ends of the lines of a source are finitely many positions.
LEMMA ChunkEndsFinite ==
  ASSUME NEW raw \in ByteString
  PROVE  ChunkEnds(raw) \in SUBSET (1 .. Len(raw)) /\ IsFiniteSet(ChunkEnds(raw))
<1>1. Len(raw) \in Nat /\ DOMAIN raw = 1 .. Len(raw)
  BY LenProperties DEF ByteString
<1>2. ChunkEnds(raw) \in SUBSET (1 .. Len(raw))
  BY <1>1 DEF ChunkEnds
<1>3. IsFiniteSet(1 .. Len(raw))
  BY <1>1, FS_Interval
<1> QED BY <1>2, <1>3, FS_Subset

\* A terminator has at most the length of what it ends.
LEMMA TerminatorLength ==
  ASSUME NEW chunk \in ByteString
  PROVE  TerminatedContentLength(chunk) \in 0 .. Len(chunk)
BY LenProperties DEF TerminatedContentLength, ByteString

\* The lines of a source are lines (ParseLines).
LEMMA LinesType ==
  ASSUME NEW raw \in ByteString
  PROVE  ParseLines(raw) \in Seq(Line)
<1> DEFINE ends == Ascending(ChunkEnds(raw))
           start(k) == IF k = 1 THEN 0 ELSE ends[k - 1]
           length(k) == TerminatedContentLength(Slice(raw, start(k), ends[k]))
           line(k) == [content    |-> Slice(raw, start(k), start(k) + length(k)),
                       byte_start |-> start(k),
                       byte_end   |-> start(k) + length(k)]
           n == Cardinality(ChunkEnds(raw))
<1>0. Len(raw) \in Nat
  BY LenProperties DEF ByteString
<1>1. ChunkEnds(raw) \in SUBSET Int /\ ChunkEnds(raw) \in SUBSET (1 .. Len(raw))
  BY <1>0, ChunkEndsFinite
<1>2. /\ ends \in Seq(ChunkEnds(raw)) /\ Len(ends) = n /\ n \in Nat
      /\ \A j, k \in 1 .. n : j < k => ends[j] < ends[k]
  BY <1>1, ChunkEndsFinite, AscendingLists
<1>3. DOMAIN ends = 1 .. n
  BY <1>2
<1> HIDE DEF ends, n
<1>4. ParseLines(raw) = [k \in 1 .. n |-> line(k)]
  BY <1>3 DEF ParseLines, ends
<1>5. ASSUME NEW k \in 1 .. n
      PROVE  line(k) \in Line
  <2>1. ends[k] \in 1 .. Len(raw)
    BY <1>1, <1>2
  <2>2. start(k) \in Nat /\ start(k) < ends[k]
    <3>1. CASE k = 1
      BY <2>1, <3>1
    <3>2. CASE k # 1
      <4>1. k - 1 \in 1 .. n /\ k - 1 < k
        BY <1>2, <3>2
      <4>2. ends[k - 1] \in 1 .. Len(raw) /\ ends[k - 1] < ends[k]
        BY <1>1, <1>2, <4>1
      <4> QED BY <1>0, <3>2, <4>2
    <3> QED BY <3>1, <3>2
  <2> HIDE DEF start
  <2>3. /\ Slice(raw, start(k), ends[k]) \in ByteString
        /\ Len(Slice(raw, start(k), ends[k])) = ends[k] - start(k)
    <3>1. ends[k] \in Nat /\ ends[k] <= Len(raw) /\ start(k) <= ends[k]
      BY <1>0, <2>1, <2>2
    <3> QED BY <2>2, <3>1, SliceType
  <2>4. length(k) \in 0 .. ends[k] - start(k)
    BY <2>3, TerminatorLength
  <2> HIDE DEF length
  <2>5. start(k) + length(k) \in Nat /\ start(k) <= start(k) + length(k)
        /\ start(k) + length(k) <= Len(raw)
    BY <1>0, <2>1, <2>2, <2>4
  <2>6. Slice(raw, start(k), start(k) + length(k)) \in ByteString
    BY <2>2, <2>5, SliceType
  <2> QED BY <2>2, <2>5, <2>6 DEF Line
<1> HIDE DEF line
<1> QED BY <1>2, <1>4, <1>5

(***************************************************************************)
(* Matches.                                                                *)
(***************************************************************************)

\* Occurrences are counted by a natural number.
LEMMA OccurrenceCountType ==
  ASSUME NEW haystack \in ByteString, NEW needle
  PROVE  OccurrenceCount(haystack, needle) \in Nat
<1> DEFINE at == {i \in DOMAIN haystack :
                    /\ i + Len(needle) - 1 <= Len(haystack)
                    /\ SubSeq(haystack, i, i + Len(needle) - 1) = needle}
<1>1. Len(haystack) \in Nat /\ DOMAIN haystack = 1 .. Len(haystack)
  BY LenProperties DEF ByteString
<1>2. IsFiniteSet(DOMAIN haystack)
  BY <1>1, FS_Interval
<1>3. at \in SUBSET DOMAIN haystack
  OBVIOUS
<1> HIDE DEF at
<1>4. Cardinality(at) \in Nat
  BY <1>2, <1>3, FS_Subset, FS_CardinalityType
<1> QED BY <1>4 DEF OccurrenceCount, at

Zero(p) == 0
CountInLine(line, count, needle) == count + OccurrenceCount(line.content, needle)
CountInFile(plan, count, line)   == count + LineMatches(plan, line)

Needles == INSTANCE Folding WITH Start <- Zero, Step <- CountInLine
Counted == INSTANCE Folding WITH Start <- Zero, Step <- CountInFile

\* So are the matches of a line, and of a file: folds of such counts.
LEMMA LineMatchesType ==
  ASSUME NEW plan, IsPlan(plan), NEW line \in Line
  PROVE  LineMatches(plan, line) \in Nat
<1>1. Literals(plan) \in Seq(ByteString)
  BY ConcatProperties DEF IsPlan, Literals
<1>2. Zero(line) \in Nat
      /\ \A acc \in Nat, needle \in ByteString : CountInLine(line, acc, needle) \in Nat
  BY OccurrenceCountType DEF Zero, CountInLine, Line
<1>3. Needles!Fold(line, Literals(plan)) \in Nat
  BY <1>1, <1>2, Needles!FoldKeeps
<1>4. LineMatches(plan, line) = Needles!Fold(line, Literals(plan))
  BY DEF LineMatches, FoldLeft, MapThenFoldSet, Max, Zero, CountInLine,
         Needles!Fold, Needles!FoldLeft, Needles!MapThenFoldSet, Needles!Max
<1> QED BY <1>3, <1>4

\* The matches of a file (file_matches).
LEMMA FileMatchesType ==
  ASSUME NEW plan, IsPlan(plan), NEW lines \in Seq(Line)
  PROVE  file_matches(plan, lines) \in Nat
<1>1. Zero(plan) \in Nat
      /\ \A acc \in Nat, line \in Line : CountInFile(plan, acc, line) \in Nat
  BY LineMatchesType DEF Zero, CountInFile
<1>2. Counted!Fold(plan, lines) \in Nat
  BY <1>1, Counted!FoldKeeps
<1>3. file_matches(plan, lines) = Counted!Fold(plan, lines)
  BY DEF file_matches, FoldLeft, MapThenFoldSet, Max, Zero, CountInFile,
         Counted!Fold, Counted!FoldLeft, Counted!MapThenFoldSet, Counted!Max
<1> QED BY <1>2, <1>3

(***************************************************************************)
(* Ranges of lines.                                                        *)
(***************************************************************************)

\* The ranges that canonical_block accepts.
RangesOf(lines) == {r \in [start : Nat, end : Nat] : r.start <= r.end /\ r.end < Len(lines)}

\* The range a matching line opens holds that line and lies within the file.
LEMMA RangeOfType ==
  ASSUME NEW plan, IsPlan(plan), NEW lines \in Seq(Line),
         NEW i \in 0 .. Len(lines) - 1
  PROVE  /\ RangeOf(plan, lines, i) \in RangesOf(lines)
         /\ i \in RangeOf(plan, lines, i).start .. RangeOf(plan, lines, i).end
<1> DEFINE ctx      == plan.budget.context_lines
           start    == Larger(i - ctx, 0)
           headings == {h \in 0 .. i : IsHeading(lines[h + 1].content)}
           heading  == IF headings = {} THEN start
                       ELSE CHOOSE h \in headings : \A g \in headings : g <= h
           end      == Smaller(i + ctx, Len(lines) - 1)
<1>1. Len(lines) \in Nat /\ i \in Nat /\ i < Len(lines) /\ ctx \in Nat
  BY LenProperties DEF IsPlan
<1>2. start \in 0 .. i /\ end \in i .. Len(lines) - 1
  BY <1>1 DEF Larger, Smaller
<1>3. heading \in 0 .. i
  <2>1. headings \in SUBSET (0 .. i)
    OBVIOUS
  <2> HIDE DEF headings, start
  <2>2. CASE headings = {}
    BY <1>2, <2>2
  <2>3. CASE headings # {}
    <3>1. \E x \in headings : \A y \in headings : x >= y
      BY <1>1, <2>1, <2>3, Needles!Greatest
    <3>2. \E h \in headings : \A g \in headings : g <= h
      BY <1>1, <2>1, <3>1
    <3> QED BY <2>1, <2>3, <3>2
  <2> QED BY <2>2, <2>3
<1>4. RangeOf(plan, lines, i) = [start |-> Smaller(heading, start), end |-> end]
  BY DEF RangeOf, LineRange
<1> HIDE DEF heading, start, end
<1>5. Smaller(heading, start) \in 0 .. i
  BY <1>2, <1>3 DEF Smaller
<1> QED BY <1>1, <1>2, <1>4, <1>5 DEF RangesOf

\* A sequence without its last element.
LEMMA FrontType ==
  ASSUME NEW S, NEW s \in Seq(S), s # <<>>
  PROVE  /\ Len(s) \in Nat \ {0} /\ Last(s) = s[Len(s)] /\ Last(s) \in S
         /\ Front(s) \in Seq(S) /\ Len(Front(s)) = Len(s) - 1
         /\ \A i \in 1 .. Len(s) - 1 : Front(s)[i] = s[i]
<1>1. Len(s) \in Nat \ {0}
  BY LenProperties, EmptySeq
<1>2. \A i \in 1 .. Len(s) : s[i] \in S
  BY ElementOfSeq
<1>3. \A i \in 1 .. Len(s) - 1 : s[i] \in S
  BY <1>1, <1>2
<1>4. SubSeq(s, 1, Len(s) - 1) = [i \in 1 .. Len(s) - 1 |-> s[i]]
  BY <1>1
<1>5. Front(s) = [i \in 1 .. Len(s) - 1 |-> s[i]]
  BY <1>4 DEF Front
<1>6. Front(s) \in Seq(S) /\ Len(Front(s)) = Len(s) - 1
  BY <1>1, <1>3, <1>5
<1> QED BY <1>1, <1>2, <1>5, <1>6 DEF Last

Nothing(p) == <<>>
Merged(p, merged, range) == MergeRange(merged, range)

Merging == INSTANCE Folding WITH Start <- Nothing, Step <- Merged

\* Merging ranges that lie within a file gives ranges within the file.
LEMMA MergeRangesType ==
  ASSUME NEW lines \in Seq(Line), NEW ranges \in Seq(RangesOf(lines))
  PROVE  merge_ranges(ranges) \in Seq(RangesOf(lines))
<1> DEFINE R == RangesOf(lines)
<1>1. ASSUME NEW merged \in Seq(R), NEW range \in R
      PROVE  MergeRange(merged, range) \in Seq(R)
  <2>1. CASE merged # <<>> /\ range.start <= Last(merged).end + 1
    <3> DEFINE last == Last(merged)
               joined == [last EXCEPT !.end = Larger(@, range.end)]
    <3>2. last \in R /\ Front(merged) \in Seq(R)
      <4> HIDE DEF R
      <4> QED BY <2>1, FrontType
    <3>3. joined \in R
      <4>1. /\ last \in [start : Nat, end : Nat] /\ last.start <= last.end
            /\ last.end < Len(lines) /\ range \in [start : Nat, end : Nat]
            /\ range.start <= range.end /\ range.end < Len(lines)
        BY <3>2 DEF RangesOf
      <4> HIDE DEF last
      <4>2. Larger(last.end, range.end) \in {last.end, range.end}
            /\ last.end <= Larger(last.end, range.end)
        BY <4>1 DEF Larger
      <4>3. joined = [start |-> last.start, end |-> Larger(last.end, range.end)]
        BY <4>1
      <4> QED BY <4>1, <4>2, <4>3 DEF RangesOf
    <3>5. MergeRange(merged, range) = Append(Front(merged), joined)
      BY <2>1 DEF MergeRange
    <3> HIDE DEF R, joined
    <3> QED BY <3>2, <3>3, <3>5, AppendProperties
  <2>2. CASE ~(merged # <<>> /\ range.start <= Last(merged).end + 1)
    <3>1. MergeRange(merged, range) = Append(merged, range)
      BY <2>2 DEF MergeRange
    <3> HIDE DEF R
    <3> QED BY <3>1, AppendProperties
  <2> QED BY <2>1, <2>2
<1>2. Nothing(0) \in Seq(R) /\ \A acc \in Seq(R), range \in R : Merged(0, acc, range) \in Seq(R)
  <2> HIDE DEF R
  <2> QED BY <1>1, EmptySeq DEF Nothing, Merged
<1> HIDE DEF R
<1>3. ranges \in Seq(R)
  BY DEF R
<1>4. Merging!Fold(0, ranges) \in Seq(R)
  BY <1>2, <1>3, Merging!FoldKeeps
<1>5. merge_ranges(ranges) = Merging!Fold(0, ranges)
  BY DEF merge_ranges, FoldLeft, MapThenFoldSet, Max, Nothing, Merged,
         Merging!Fold, Merging!FoldLeft, Merging!MapThenFoldSet, Merging!Max
<1> QED BY <1>4, <1>5 DEF R

\* A search reports ranges of lines of the file.
LEMMA MatchingRangesType ==
  ASSUME NEW plan, IsPlan(plan), NEW lines \in Seq(Line)
  PROVE  matching_ranges(plan, lines) \in Seq(RangesOf(lines))
<1> DEFINE M == MatchingLines(plan, lines)
           matching == Ascending(M)
           range(k) == RangeOf(plan, lines, matching[k])
           ranges == [k \in DOMAIN matching |-> range(k)]
<1>1. Len(lines) \in Nat
  BY LenProperties
<1>2. M \in SUBSET (0 .. Len(lines) - 1) /\ IsFiniteSet(0 .. Len(lines) - 1)
  BY <1>1, FS_Interval, SMTT(30) DEF MatchingLines
<1>3. M \in SUBSET Int /\ IsFiniteSet(M)
  <2> HIDE DEF M
  <2>1. IsFiniteSet(M)
    BY <1>2, FS_Subset
  <2> QED BY <1>2, <2>1
<1> HIDE DEF M
<1>4. matching \in Seq(M)
  BY <1>3, AscendingLists
<1> HIDE DEF matching
<1>5. DOMAIN matching = 1 .. Len(matching) /\ Len(matching) \in Nat
  BY <1>4, LenProperties
<1>6. \A k \in 1 .. Len(matching) : range(k) \in RangesOf(lines)
  <2> TAKE k \in 1 .. Len(matching)
  <2>1. matching[k] \in 0 .. Len(lines) - 1
    BY <1>2, <1>4, ElementOfSeq
  <2> QED BY <2>1, RangeOfType
<1>7. ranges \in Seq(RangesOf(lines))
  <2> HIDE DEF range
  <2> QED BY <1>5, <1>6
<1>8. matching_ranges(plan, lines) = merge_ranges(ranges)
  BY DEF matching_ranges, matching, M
<1> QED BY <1>7, <1>8, MergeRangesType

\* The blocks of a file are a sequence of blocks that name the file.
LEMMA BlocksType ==
  ASSUME NEW plan, IsPlan(plan), NEW path, NEW raw \in ByteString
  PROVE  LET blocks == blocks_for_file(plan, path, raw)
         IN  /\ blocks \in Seq(ToSet(blocks))
             /\ \A k \in DOMAIN blocks : blocks[k].path.bytes = path
<1> DEFINE lines == ParseLines(raw)
           ranges == matching_ranges(plan, lines)
           block(k) == build_block(plan, path, raw, lines, ranges[k])
           blocks == blocks_for_file(plan, path, raw)
<1>1. ranges \in Seq(RangesOf(lines))
  BY LinesType, MatchingRangesType
<1>2. DOMAIN ranges = 1 .. Len(ranges) /\ Len(ranges) \in Nat
  BY <1>1, LenProperties
<1>3. blocks = [k \in DOMAIN ranges |-> block(k)]
  BY DEF blocks_for_file
<1>4. \A k \in DOMAIN ranges : block(k).path.bytes = path
  BY DEF build_block, Encoded
<1> HIDE DEF ranges, block, blocks
<1>5. blocks \in Seq(ToSet(blocks))
  BY <1>2, <1>3 DEF ToSet
<1>6. \A k \in DOMAIN blocks : blocks[k].path.bytes = path
  BY <1>2, <1>3, <1>4
<1> QED BY <1>5, <1>6 DEF blocks

\* Facts of arithmetic, free of the terms they are used for.
LEMMA ProximityFits ==
  \A d \in 0 .. 8 : 40 - 5 * d \in 0 .. 40
OBVIOUS

\* The greatest components add up to 865.
LEMMA ComponentsFit ==
  ASSUME NEW s,
         s.exact_phrase \in {0, 300}, s.identifier \in {0, 250}, s.all_terms \in {0, 150},
         s.heading \in {0, 75}, s.path = 50, s.proximity \in 0 .. 40
  PROVE  HasTotal(s) /\ ScoreSum(s) \in Nat
<1>1. /\ s.exact_phrase \in 0 .. 300 /\ s.identifier \in 0 .. 250 /\ s.all_terms \in 0 .. 150
      /\ s.heading \in 0 .. 75
  OBVIOUS
<1>2. ScoreSum(s) \in 0 .. 865
  BY <1>1, SMTT(30) DEF ScoreSum
<1> QED BY <1>2 DEF HasTotal, MaxU16

\* A score is made of natural numbers, and its sum is far from overflowing.
LEMMA ScoresFit ==
  ASSUME NEW plan, IsPlan(plan), NEW selected \in Seq(Line), NEW content
  PROVE  /\ HasTotal(score(plan, selected, content))
         /\ ScoreSum(score(plan, selected, content)) \in Nat
<1> DEFINE required  == plan.quoted_phrases \o plan.identifiers
           positions == {i \in DOMAIN selected :
                           Occurring(required, selected[i].content) # <<>>}
           first == CHOOSE i \in positions : \A j \in positions : i <= j
           last  == CHOOSE i \in positions : \A j \in positions : i >= j
           s == score(plan, selected, content)
<1>1. Len(selected) \in Nat /\ DOMAIN selected = 1 .. Len(selected)
  BY LenProperties
<1>2. proximity(plan, selected) \in 0 .. 40
  <2>1. proximity(plan, selected)
          = IF positions = {} THEN 0 ELSE 40 - 5 * Smaller(last - first, 8)
    BY DEF proximity
  <2>2. positions \in SUBSET (0 .. Len(selected)) /\ positions \in SUBSET Nat
    BY <1>1
  <2> HIDE DEF positions
  <2>3. CASE positions # {}
    <3>1. \E i \in positions : \A j \in positions : i <= j
      BY <2>2, <2>3, Needles!Least
    <3>2. \E i \in positions : \A j \in positions : i >= j
      BY <1>1, <2>2, <2>3, Needles!Greatest
    <3>3. first \in positions /\ last \in positions /\ first <= last
      BY <3>1, <3>2
    <3>4. first \in Nat /\ last \in Nat
      BY <2>2, <3>3
    <3> HIDE DEF first, last
    <3>5. Smaller(last - first, 8) \in 0 .. 8
      BY <3>3, <3>4 DEF Smaller
    <3> QED BY <2>1, <2>3, <3>5, ProximityFits
  <2>4. CASE positions = {}
    <3> HIDE DEF first, last
    <3> QED BY <2>1, <2>4
  <2> QED BY <2>3, <2>4
<1>3. /\ s.exact_phrase \in {0, 300} /\ s.identifier \in {0, 250} /\ s.all_terms \in {0, 150}
      /\ s.heading \in {0, 75} /\ s.path = 50 /\ s.proximity \in 0 .. 40
  BY <1>2 DEF score, component_any, component_all
<1> HIDE DEF s
<1> QED BY <1>3, ComponentsFit DEF s

\* What a block of a file has of its place and its score.
LEMMA BuiltBlocks ==
  ASSUME NEW plan, IsPlan(plan), NEW path, NEW bytes \in ByteString,
         NEW block \in ToSet(blocks_for_file(plan, path, bytes))
  PROVE  LET lines  == ParseLines(bytes)
             ranges == matching_ranges(plan, lines)
         IN  \E k \in DOMAIN ranges :
               /\ block = build_block(plan, path, bytes, lines, ranges[k])
               /\ block.line_start = ranges[k].start + 1 /\ ranges[k].start \in Nat
               /\ block.path.bytes = path /\ block.score \in Nat /\ block.byte_start \in Nat
<1> DEFINE lines == ParseLines(bytes)
           ranges == matching_ranges(plan, lines)
<1>1. lines \in Seq(Line) /\ Len(lines) \in Nat /\ DOMAIN lines = 1 .. Len(lines)
  BY LinesType, LenProperties
<1>2. ranges \in Seq(RangesOf(lines)) /\ DOMAIN ranges = 1 .. Len(ranges)
  BY <1>1, MatchingRangesType, LenProperties
<1>3. PICK k \in DOMAIN ranges : block = build_block(plan, path, bytes, lines, ranges[k])
  BY DEF ToSet, blocks_for_file
<1> DEFINE range == ranges[k]
           selected == Selected(lines, range)
<1>4. /\ range \in [start : Nat, end : Nat] /\ range.start <= range.end
      /\ range.end < Len(lines)
  BY <1>2, ElementOfSeq DEF RangesOf
<1>5. selected \in Seq(Line)
  <2>1. \A i \in range.start + 1 .. range.end + 1 : lines[i] \in Line
    BY <1>1, <1>4, ElementOfSeq
  <2> HIDE DEF lines, range
  <2> QED BY <1>1, <1>4, <2>1, SubSeqProperties DEF Selected
<1>6. block.byte_start \in Nat
  <2>1. range.start + 1 \in DOMAIN lines
    BY <1>1, <1>4
  <2>2. lines[range.start + 1] \in Line
    BY <1>1, <2>1, ElementOfSeq
  <2>3. block.byte_start = lines[range.start + 1].byte_start
    BY <1>3 DEF build_block, CanonicalBlock
  <2> QED BY <2>2, <2>3 DEF Line
<1>7. block.score \in Nat
  <2>1. block.score = ScoreSum(score(plan, selected, CanonicalBlock(lines, range).content))
    BY <1>3 DEF build_block
  <2> HIDE DEF selected, range, lines
  <2> QED BY <1>5, <2>1, ScoresFit
<1>8. block.line_start = range.start + 1 /\ block.path.bytes = path
  BY <1>3 DEF build_block, Encoded
<1> QED BY <1>3, <1>4, <1>6, <1>7, <1>8

(***************************************************************************)
(* The orders of paths, of gaps and of blocks.                             *)
(***************************************************************************)

\* What a byte string has at an offset, and past its end.
At(a, i) == IF i \in DOMAIN a THEN a[i] + 1 ELSE 0

\* a and b differ at i for the first time, and a is less there.
LessAt(a, b, i) == /\ \A j \in 1 .. i - 1 : At(a, j) = At(b, j)
                   /\ At(a, i) < At(b, i)

\* Facts of arithmetic, free of the terms they are used for.
LEMMA Trichotomy ==
  \A m, n \in Nat : m = n \/ m < n \/ n < m
OBVIOUS

\* The same, for less-or-equal.
LEMMA LessOrEqual ==
  \A m, n \in Nat : m <= n => m = n \/ m < n
OBVIOUS

\* The parts of a byte string.
LEMMA BytesType ==
  ASSUME NEW a \in ByteString
  PROVE  /\ Len(a) \in Nat /\ DOMAIN a = 1 .. Len(a)
         /\ \A i \in DOMAIN a : a[i] \in Nat
<1>1. Len(a) \in Nat /\ DOMAIN a = 1 .. Len(a)
  BY LenProperties DEF ByteString
<1>2. \A i \in DOMAIN a : a[i] \in Byte
  BY <1>1, ElementOfSeq DEF ByteString
<1>3. Byte \subseteq Nat
  BY DEF Byte
<1> QED BY <1>1, <1>2, <1>3

\* At is a number wherever it is asked.
LEMMA AtType ==
  ASSUME NEW a \in ByteString, NEW i
  PROVE  At(a, i) \in Nat
<1>1. CASE i \in DOMAIN a
  <2>1. a[i] \in Byte
    BY <1>1, LenProperties, ElementOfSeq DEF ByteString
  <2> QED BY <1>1, <2>1 DEF At, Byte
<1>2. CASE i \notin DOMAIN a
  BY <1>2 DEF At
<1> QED BY <1>1, <1>2

\* BytesBefore, said with the first position that differs.
LEMMA BeforeIsLess ==
  ASSUME NEW a \in ByteString, NEW b \in ByteString
  PROVE  BytesBefore(a, b) <=> \E i \in Nat \ {0} : LessAt(a, b, i)
<1>1. /\ Len(a) \in Nat /\ DOMAIN a = 1 .. Len(a)
      /\ Len(b) \in Nat /\ DOMAIN b = 1 .. Len(b)
  BY LenProperties DEF ByteString
<1>2. \A i \in 1 .. Len(a) : a[i] \in Nat
  BY BytesType
<1>3. \A i \in 1 .. Len(b) : b[i] \in Nat
  BY BytesType
<1>4. ASSUME IsStrictPrefix(a, b)
      PROVE  LessAt(a, b, Len(a) + 1)
  <2>1. Len(a) <= Len(b) /\ SubSeq(a, 1, Len(a)) = SubSeq(b, 1, Len(a)) /\ a # b
    BY <1>4 DEF IsStrictPrefix, IsPrefix
  <2>2. \A i \in 1 .. Len(a) : a[i] = b[i]
    <3>1. \A i \in 1 .. Len(a) : /\ SubSeq(a, 1, Len(a))[i] = a[i]
                                 /\ SubSeq(b, 1, Len(a))[i] = b[i]
      BY <1>1, <1>2, <1>3, <2>1
    <3> QED BY <2>1, <3>1
  <2>3. Len(a) < Len(b)
    <3>1. ASSUME Len(a) = Len(b)
          PROVE  FALSE
      BY <2>1, <2>2, <3>1, SeqEqual DEF ByteString
    <3> QED BY <1>1, <2>1, <3>1, LessOrEqual
  <2>4. At(a, Len(a) + 1) = 0 /\ At(b, Len(a) + 1) = b[Len(a) + 1] + 1
    BY <1>1, <2>3 DEF At
  <2>5. \A j \in 1 .. Len(a) : At(a, j) = At(b, j)
    BY <1>1, <2>1, <2>2 DEF At
  <2>6. b[Len(a) + 1] \in Nat /\ Len(a) + 1 - 1 = Len(a)
    BY <1>1, <1>3, <2>3
  <2> QED BY <2>4, <2>5, <2>6 DEF LessAt
<1>5. ASSUME NEW i \in DOMAIN a \cap DOMAIN b,
             \A j \in 1 .. i - 1 : a[j] = b[j], a[i] < b[i]
      PROVE  LessAt(a, b, i)
  <2>1. \A j \in 1 .. i - 1 : At(a, j) = At(b, j)
    <3> TAKE j \in 1 .. i - 1
    <3>1. j \in DOMAIN a /\ j \in DOMAIN b
      BY <1>1
    <3> QED BY <1>5, <3>1 DEF At
  <2>2. At(a, i) = a[i] + 1 /\ At(b, i) = b[i] + 1
    BY DEF At
  <2>3. a[i] \in Nat /\ b[i] \in Nat
    BY <1>1, <1>2, <1>3
  <2> QED BY <1>5, <2>1, <2>2, <2>3 DEF LessAt
<1>6. ASSUME NEW i \in Nat \ {0}, LessAt(a, b, i)
      PROVE  BytesBefore(a, b)
  <2>1. i \in DOMAIN b
    <3> SUFFICES ASSUME i \notin DOMAIN b
                 PROVE  FALSE
      OBVIOUS
    <3>1. At(a, i) < 0
      BY <1>6 DEF LessAt, At
    <3> QED BY <3>1, AtType
  <2>2. ASSUME NEW j \in 1 .. i - 1
        PROVE  j \in DOMAIN a /\ a[j] = b[j]
    <3>1. j \in DOMAIN b /\ At(b, j) = b[j] + 1 /\ b[j] \in Nat
      BY <1>1, <1>3, <2>1 DEF At
    <3>2. At(a, j) = At(b, j)
      BY <1>6 DEF LessAt
    <3>3. j \in DOMAIN a
      BY <3>1, <3>2 DEF At
    <3>4. At(a, j) = a[j] + 1 /\ a[j] \in Nat
      BY <1>1, <1>2, <3>3 DEF At
    <3> QED BY <3>1, <3>2, <3>3, <3>4
  <2>3. CASE i \in DOMAIN a
    <3>1. At(a, i) = a[i] + 1 /\ At(b, i) = b[i] + 1 /\ a[i] \in Nat /\ b[i] \in Nat
      BY <1>1, <1>2, <1>3, <2>1, <2>3 DEF At
    <3>2. a[i] < b[i]
      BY <1>6, <3>1 DEF LessAt
    <3> QED BY <2>1, <2>2, <2>3, <3>2 DEF BytesBefore
  <2>4. CASE i \notin DOMAIN a
    <3>1. i = Len(a) + 1
      <4>1. Len(a) < i
        BY <1>1, <2>4
      <4>2. Len(a) + 1 \in 1 .. i - 1 => Len(a) + 1 \in DOMAIN a
        BY <2>2
      <4> QED BY <1>1, <4>1, <4>2
    <3>2. Len(a) < Len(b)
      BY <1>1, <2>1, <3>1
    <3>3. \A j \in 1 .. Len(a) : a[j] = b[j]
      BY <1>1, <2>2, <3>1
    <3>4. SubSeq(a, 1, Len(a)) = SubSeq(b, 1, Len(a))
      <4>1. /\ SubSeq(a, 1, Len(a)) = [j \in 1 .. Len(a) |-> a[j]]
            /\ SubSeq(b, 1, Len(a)) = [j \in 1 .. Len(a) |-> b[j]]
        BY <1>1, <3>2
      <4> QED BY <3>3, <4>1
    <3>5. a # b
      BY <1>1, <3>2
    <3> QED BY <1>1, <3>2, <3>4, <3>5 DEF BytesBefore, IsStrictPrefix, IsPrefix
  <2> QED BY <2>3, <2>4
<1>7. ASSUME BytesBefore(a, b)
      PROVE  \E i \in Nat \ {0} : LessAt(a, b, i)
  <2>1. CASE IsStrictPrefix(a, b)
    <3>1. Len(a) + 1 \in Nat \ {0}
      BY <1>1
    <3> QED BY <1>4, <2>1, <3>1
  <2>2. CASE \E i \in DOMAIN a \cap DOMAIN b :
               (\A j \in 1 .. i - 1 : a[j] = b[j]) /\ a[i] < b[i]
    <3>1. PICK i \in DOMAIN a \cap DOMAIN b : LessAt(a, b, i)
      BY <1>5, <2>2
    <3>2. i \in Nat \ {0}
      BY <1>1
    <3> QED BY <3>1, <3>2
  <2> QED BY <1>7, <2>1, <2>2 DEF BytesBefore
<1> QED BY <1>6, <1>7

\* Byte strings are totally ordered.
THEOREM BytesOrdered ==
  ASSUME NEW a \in ByteString, NEW b \in ByteString, NEW c \in ByteString
  PROVE  /\ BytesBefore(a, b) => ~BytesBefore(b, a)
         /\ BytesBefore(a, c) => BytesBefore(a, b) \/ BytesBefore(b, c)
         /\ a # b => BytesBefore(a, b) \/ BytesBefore(b, a)
<1>1. \A i : At(a, i) \in Nat /\ At(b, i) \in Nat /\ At(c, i) \in Nat
  BY AtType
<1>2. ASSUME NEW i \in Nat \ {0}, LessAt(a, b, i), NEW k \in Nat \ {0}, LessAt(b, a, k)
      PROVE  FALSE
  <2>1. CASE i < k
    <3>1. i \in 1 .. k - 1
      BY <2>1
    <3>2. At(b, i) = At(a, i)
      BY <1>2, <3>1 DEF LessAt
    <3> QED BY <1>1, <1>2, <3>2 DEF LessAt
  <2>2. CASE k < i
    <3>1. k \in 1 .. i - 1
      BY <2>2
    <3>2. At(b, k) = At(a, k)
      BY <1>2, <3>1 DEF LessAt
    <3> QED BY <1>1, <1>2, <3>2 DEF LessAt
  <2>3. CASE i = k
    BY <1>1, <1>2, <2>3 DEF LessAt
  <2> QED BY <2>1, <2>2, <2>3
<1>3. ASSUME NEW i \in Nat \ {0}, LessAt(a, c, i)
      PROVE  \E m \in Nat \ {0} : LessAt(a, b, m) \/ LessAt(b, c, m)
  <2> DEFINE S == {j \in 1 .. i : At(a, j) # At(b, j) \/ At(b, j) # At(c, j)}
  <2>1. S \in SUBSET Nat /\ i \in S
    BY <1>1, <1>3 DEF LessAt
  <2>2. PICK m \in S : \A j \in S : m <= j
    BY <2>1, Needles!Least
  <2>3. m \in 1 .. i /\ m \in Nat \ {0}
    OBVIOUS
  <2>4. \A j \in 1 .. m - 1 : At(a, j) = At(b, j) /\ At(b, j) = At(c, j)
    <3> TAKE j \in 1 .. m - 1
    <3>1. j \in 1 .. i /\ ~(m <= j)
      BY <2>3
    <3> QED BY <2>2, <3>1
  <2>5. At(a, m) <= At(c, m)
    <3>1. CASE m = i
      BY <1>1, <1>3, <3>1 DEF LessAt
    <3>2. CASE m # i
      <4>1. m \in 1 .. i - 1
        BY <2>3, <3>2
      <4> QED BY <1>1, <1>3, <4>1 DEF LessAt
    <3> QED BY <3>1, <3>2
  <2>6. At(a, m) # At(b, m) \/ At(b, m) # At(c, m)
    OBVIOUS
  <2>7. m = i => At(a, m) < At(c, m)
    BY <1>3 DEF LessAt
  <2>8. At(a, m) < At(b, m) \/ At(b, m) < At(c, m)
    BY <1>1, <2>5, <2>6
  <2> QED BY <2>3, <2>4, <2>8 DEF LessAt
<1>4. ASSUME a # b
      PROVE  \E m \in Nat \ {0} : LessAt(a, b, m) \/ LessAt(b, a, m)
  <2> DEFINE S == {j \in Nat \ {0} : At(a, j) # At(b, j)}
  <2>1. /\ Len(a) \in Nat /\ DOMAIN a = 1 .. Len(a)
        /\ Len(b) \in Nat /\ DOMAIN b = 1 .. Len(b)
    BY LenProperties DEF ByteString
  <2>2. S # {}
    <3>1. CASE Len(a) # Len(b)
      <4> DEFINE j == Larger(Len(a), Len(b))
      <4>1. /\ j \in Nat \ {0} /\ (j \in DOMAIN a <=> j \notin DOMAIN b)
        <5>1. Len(a) > Len(b) \/ Len(b) > Len(a)
          BY <2>1, <3>1, Trichotomy
        <5>2. CASE Len(a) > Len(b)
          <6>1. j = Len(a)
            BY <5>2 DEF Larger
          <6> QED BY <2>1, <5>2, <6>1
        <5>3. CASE Len(b) > Len(a)
          <6>1. j = Len(b)
            <7>1. \A m, n \in Nat : n > m => Larger(m, n) = n
              BY DEF Larger
            <7> QED BY <2>1, <5>3, <7>1
          <6> QED BY <2>1, <5>3, <6>1
        <5> QED BY <5>1, <5>2, <5>3
      <4>2. At(a, j) # At(b, j)
        <5>1. \A h \in DOMAIN a : a[h] \in Nat
          BY BytesType
        <5>2. \A h \in DOMAIN b : b[h] \in Nat
          BY BytesType
        <5> HIDE DEF j
        <5> QED BY <4>1, <5>1, <5>2 DEF At
      <4> QED BY <4>1, <4>2
    <3>2. CASE Len(a) = Len(b)
      <4>1. PICK j \in 1 .. Len(a) : a[j] # b[j]
        BY <1>4, <3>2, SeqEqual DEF ByteString
      <4>2. a[j] \in Nat /\ b[j] \in Nat
        BY <2>1, <3>2, BytesType
      <4>3. At(a, j) # At(b, j)
        BY <2>1, <3>2, <4>1, <4>2 DEF At
      <4> QED BY <2>1, <4>3
    <3> QED BY <3>1, <3>2
  <2>3. PICK m \in S : \A j \in S : m <= j
    <3>1. S \in SUBSET Nat
      OBVIOUS
    <3> QED BY <2>2, <3>1, Needles!Least
  <2>4. \A j \in 1 .. m - 1 : At(a, j) = At(b, j)
    <3> TAKE j \in 1 .. m - 1
    <3>1. j \in Nat \ {0} /\ ~(m <= j)
      OBVIOUS
    <3> QED BY <2>3, <3>1
  <2>5. At(a, m) < At(b, m) \/ At(b, m) < At(a, m)
    BY <1>1
  <2> QED BY <2>4, <2>5 DEF LessAt
<1>5. BytesBefore(a, b) => ~BytesBefore(b, a)
  BY <1>2, BeforeIsLess
<1>6. BytesBefore(a, c) => BytesBefore(a, b) \/ BytesBefore(b, c)
  BY <1>3, BeforeIsLess
<1>7. a # b => BytesBefore(a, b) \/ BytesBefore(b, a)
  BY <1>4, BeforeIsLess
<1> QED BY <1>5, <1>6, <1>7

(***************************************************************************)
(* Sorting, by any strict weak order: R holds the pairs whose first        *)
(* element comes first.  Sorted of module Sorting is SortedBy the pairs    *)
(* of its comparison.                                                      *)
(***************************************************************************)

Precedes(R, a, b) == <<a, b>> \in R

NoLaterBy(R, s, i) ==
  {j \in DOMAIN s : \/ Precedes(R, s[j], s[i])
                    \/ ~Precedes(R, s[i], s[j]) /\ j <= i}

SortedBy(R, s) ==
  LET place == [i \in DOMAIN s |-> Cardinality(NoLaterBy(R, s, i))]
  IN  [k \in DOMAIN s |-> s[CHOOSE i \in DOMAIN s : place[i] = k]]

StrictWeakOrder(R, T) ==
  /\ \A a, b \in T : Precedes(R, a, b) => ~Precedes(R, b, a)
  /\ \A a, b, c \in T : Precedes(R, a, c) => Precedes(R, a, b) \/ Precedes(R, b, c)

\* What the sorted sequence has at k comes from position origin(R, s)[k].
origin(R, s) == [k \in DOMAIN s |->
                CHOOSE i \in DOMAIN s : Cardinality(NoLaterBy(R, s, i)) = k]

\* s[j] is put no later than s[i].
Leq(R, s, j, i) == Precedes(R, s[j], s[i]) \/ (~Precedes(R, s[i], s[j]) /\ j <= i)

\* No later is a total order of the positions, whatever the sequence repeats.
LEMMA PositionsOrdered ==
  ASSUME NEW R, NEW T, StrictWeakOrder(R, T), NEW s \in Seq(T)
  PROVE  /\ \A i \in DOMAIN s : Leq(R, s, i, i)
         /\ \A i, j \in DOMAIN s : Leq(R, s, i, j) \/ Leq(R, s, j, i)
         /\ \A i, j \in DOMAIN s : Leq(R, s, i, j) /\ Leq(R, s, j, i) => i = j
         /\ \A i, j, k \in DOMAIN s : Leq(R, s, i, j) /\ Leq(R, s, j, k) => Leq(R, s, i, k)
<1> DEFINE B(i, j) == Precedes(R, s[i], s[j])
<1>1. \A i, j \in DOMAIN s : B(i, j) => ~B(j, i)
  BY DEF StrictWeakOrder
<1>2. \A i, j, k \in DOMAIN s : B(i, k) => B(i, j) \/ B(j, k)
  BY DEF StrictWeakOrder
<1>3. \A i, j \in DOMAIN s : Leq(R, s, i, j) <=> B(i, j) \/ (~B(j, i) /\ i <= j)
  BY DEF Leq
<1>4. DOMAIN s \subseteq Int
  OBVIOUS
<1> HIDE DEF B
<1>5. \A i \in DOMAIN s : Leq(R, s, i, i)
  BY <1>1, <1>3, <1>4
<1>6. \A i, j \in DOMAIN s : Leq(R, s, i, j) \/ Leq(R, s, j, i)
  BY <1>1, <1>3, <1>4
<1>7. \A i, j \in DOMAIN s : Leq(R, s, i, j) /\ Leq(R, s, j, i) => i = j
  BY <1>1, <1>3, <1>4
<1>8. \A i, j, k \in DOMAIN s : Leq(R, s, i, j) /\ Leq(R, s, j, k) => Leq(R, s, i, k)
  <2> SUFFICES ASSUME NEW i \in DOMAIN s, NEW j \in DOMAIN s, NEW k \in DOMAIN s,
                      Leq(R, s, i, j), Leq(R, s, j, k)
               PROVE  Leq(R, s, i, k)
    OBVIOUS
  <2>1. B(i, j) => ~B(j, i)
    BY <1>1
  <2>2. B(i, j) => B(i, k) \/ B(k, j)
    BY <1>2
  <2>3. B(j, k) => B(j, i) \/ B(i, k)
    BY <1>2
  <2>4. B(k, i) => B(k, j) \/ B(j, i)
    BY <1>2
  <2>5. B(k, j) => ~B(j, k)
    BY <1>1
  <2>6. i <= j /\ j <= k => i <= k
    BY <1>4
  <2> QED BY <1>3, <2>1, <2>2, <2>3, <2>4, <2>5, <2>6
<1> QED BY <1>5, <1>6, <1>7, <1>8

\* Each position has a place of its own.
LEMMA PlacesDiffer ==
  ASSUME NEW R, NEW T, StrictWeakOrder(R, T), NEW s \in Seq(T)
  PROVE  /\ \A i \in DOMAIN s : Cardinality(NoLaterBy(R, s, i)) \in 1 .. Len(s)
         /\ \A i, j \in DOMAIN s :
              Leq(R, s, i, j) /\ i # j =>
                Cardinality(NoLaterBy(R, s, i)) < Cardinality(NoLaterBy(R, s, j))
<1>1. /\ IsFiniteSet(1 .. Len(s)) /\ Cardinality(1 .. Len(s)) = Len(s)
      /\ DOMAIN s = 1 .. Len(s) /\ Len(s) \in Nat
  <2>1. DOMAIN s = 1 .. Len(s) /\ Len(s) \in Nat
    OBVIOUS
  <2>2. /\ IsFiniteSet(1 .. Len(s))
        /\ Cardinality(1 .. Len(s)) = IF 1 > Len(s) THEN 0 ELSE Len(s) - 1 + 1
    BY <2>1, FS_Interval
  <2> QED BY <2>1, <2>2
<1>2. \A i \in DOMAIN s : /\ NoLaterBy(R, s, i) \subseteq 1 .. Len(s)
                          /\ \A j \in DOMAIN s : j \in NoLaterBy(R, s, i) <=> Leq(R, s, j, i)
  BY <1>1 DEF NoLaterBy, Leq
<1>3. \A i \in DOMAIN s : IsFiniteSet(NoLaterBy(R, s, i)) /\ Cardinality(NoLaterBy(R, s, i)) \in Nat
                          /\ Cardinality(NoLaterBy(R, s, i)) <= Len(s)
  BY <1>1, <1>2, FS_Subset, FS_CardinalityType
<1>4. ASSUME NEW i \in DOMAIN s
      PROVE  Cardinality(NoLaterBy(R, s, i)) \in 1 .. Len(s)
  <2>1. i \in NoLaterBy(R, s, i)
    BY <1>2, PositionsOrdered
  <2>2. Cardinality(NoLaterBy(R, s, i)) # 0
    BY <1>3, <2>1, FS_EmptySet
  <2> QED BY <1>1, <1>3, <2>2
<1>5. ASSUME NEW i \in DOMAIN s, NEW j \in DOMAIN s, Leq(R, s, i, j), i # j
      PROVE  Cardinality(NoLaterBy(R, s, i)) < Cardinality(NoLaterBy(R, s, j))
  <2>1. NoLaterBy(R, s, i) \subseteq NoLaterBy(R, s, j)
    BY <1>1, <1>2, <1>5, PositionsOrdered
  <2>2. j \in NoLaterBy(R, s, j) /\ j \notin NoLaterBy(R, s, i)
    BY <1>2, <1>5, PositionsOrdered
  <2>3. /\ Cardinality(NoLaterBy(R, s, i)) <= Cardinality(NoLaterBy(R, s, j))
        /\ Cardinality(NoLaterBy(R, s, i)) # Cardinality(NoLaterBy(R, s, j))
    BY <1>3, <2>1, <2>2, FS_Subset
  <2> QED BY <1>3, <2>3
<1> QED BY <1>4, <1>5

\* So the places are a permutation of the positions.
LEMMA OriginsPermute ==
  ASSUME NEW R, NEW T, StrictWeakOrder(R, T), NEW s \in Seq(T)
  PROVE  /\ origin(R, s) \in Bijection(1 .. Len(s), 1 .. Len(s))
         /\ \A k \in 1 .. Len(s) : Cardinality(NoLaterBy(R, s, origin(R, s)[k])) = k
<1> DEFINE D == 1 .. Len(s)
           place == [i \in D |-> Cardinality(NoLaterBy(R, s, i))]
<1>1. IsFiniteSet(D) /\ DOMAIN s = D /\ D \subseteq Int
  BY FS_Interval
<1>2. place \in Injection(D, D)
  <2>1. place \in [D -> D]
    BY <1>1, PlacesDiffer
  <2>2. ASSUME NEW i \in D, NEW j \in D, i # j
        PROVE  place[i] # place[j]
    <3>1. Leq(R, s, i, j) \/ Leq(R, s, j, i)
      BY <1>1, PositionsOrdered
    <3>2. place[i] < place[j] \/ place[j] < place[i]
      BY <1>1, <2>2, <3>1, PlacesDiffer
    <3>3. place[i] \in Int /\ place[j] \in Int
      BY <2>1
    <3> QED BY <3>2, <3>3
  <2> QED BY <2>1, <2>2, Fun_IsInj
<1>3. place \in Surjection(D, D)
  BY <1>1, <1>2, FS_Injection
<1>4. ASSUME NEW k \in D
      PROVE  origin(R, s)[k] \in D /\ place[origin(R, s)[k]] = k
  <2>1. \E i \in D : place[i] = k
    BY <1>3 DEF Surjection
  <2>2. origin(R, s)[k] = CHOOSE i \in D : Cardinality(NoLaterBy(R, s, i)) = k
    BY <1>1 DEF origin
  <2> QED BY <2>1, <2>2
<1>5. origin(R, s) \in [D -> D]
  BY <1>1, <1>4 DEF origin
<1>6. origin(R, s) \in Injection(D, D)
  BY <1>4, <1>5, Fun_IsInj
<1>7. origin(R, s) \in Surjection(D, D)
  BY <1>1, <1>6, FS_Injection
<1> QED BY <1>4, <1>5, <1>6, <1>7 DEF Bijection

\* slice::sort_by returns the elements it was given, each as often, in an
\* order that no comparison contradicts, and leaves elements that compare
\* equal in the order they had (search.rs, search/filesystem.rs, evidence.rs).
THEOREM SortedPermutes ==
  ASSUME NEW R, NEW T, StrictWeakOrder(R, T), NEW s \in Seq(T)
  PROVE  /\ SortedBy(R, s) \in Seq(T) /\ Len(SortedBy(R, s)) = Len(s)
         /\ origin(R, s) \in Bijection(1 .. Len(s), 1 .. Len(s))
         /\ \A k \in 1 .. Len(s) : SortedBy(R, s)[k] = s[origin(R, s)[k]]
         /\ \A j, k \in 1 .. Len(s) :
              j < k => /\ ~Precedes(R, SortedBy(R, s)[k], SortedBy(R, s)[j])
                       /\ ~Precedes(R, SortedBy(R, s)[j], SortedBy(R, s)[k]) =>
                            origin(R, s)[j] < origin(R, s)[k]
<1> DEFINE D == 1 .. Len(s)
           o == origin(R, s)
<1>1. DOMAIN s = D /\ Len(s) \in Nat /\ D \subseteq Int
  OBVIOUS
<1>2. /\ o \in Bijection(D, D)
      /\ \A k \in D : Cardinality(NoLaterBy(R, s, o[k])) = k
  BY OriginsPermute
<1>3. o \in [D -> D] /\ \A j, k \in D : o[j] = o[k] => j = k
  BY <1>2 DEF Bijection, Injection, IsInjective
<1>4. SortedBy(R, s) = [k \in D |-> s[o[k]]]
  <2> DEFINE place == [i \in D |-> Cardinality(NoLaterBy(R, s, i))]
             at(k) == CHOOSE i \in D : place[i] = k
  <2>1. SortedBy(R, s) = [k \in D |-> s[at(k)]]
    BY <1>1 DEF SortedBy
  <2>2. \A k \in D : at(k) = CHOOSE i \in D : Cardinality(NoLaterBy(R, s, i)) = k
    OBVIOUS
  <2>3. \A k \in D : at(k) = o[k]
    BY <1>1, <2>2 DEF origin
  <2> HIDE DEF at, o
  <2> QED BY <2>1, <2>3
<1>5. SortedBy(R, s) \in Seq(T) /\ Len(SortedBy(R, s)) = Len(s)
  BY <1>1, <1>3, <1>4
<1>6. \A k \in D : SortedBy(R, s)[k] = s[o[k]]
  BY <1>4
<1>7. ASSUME NEW j \in D, NEW k \in D, j < k
      PROVE  /\ ~Precedes(R, SortedBy(R, s)[k], SortedBy(R, s)[j])
             /\ ~Precedes(R, SortedBy(R, s)[j], SortedBy(R, s)[k]) => o[j] < o[k]
  <2>1. o[j] \in D /\ o[k] \in D /\ o[j] # o[k]
    BY <1>1, <1>3, <1>7
  <2>2. ~Leq(R, s, o[k], o[j])
    <3>1. Leq(R, s, o[k], o[j]) => Cardinality(NoLaterBy(R, s, o[k])) < Cardinality(NoLaterBy(R, s, o[j]))
      BY <1>1, <2>1, PlacesDiffer
    <3>2. Cardinality(NoLaterBy(R, s, o[k])) = k /\ Cardinality(NoLaterBy(R, s, o[j])) = j
      BY <1>2
    <3> QED BY <1>1, <1>7, <3>1, <3>2
  <2>3. Leq(R, s, o[j], o[k])
    BY <1>1, <2>1, <2>2, PositionsOrdered
  <2>4. s[o[j]] \in T /\ s[o[k]] \in T
    BY <1>1, <2>1
  <2>5. ~Precedes(R, s[o[k]], s[o[j]])
    BY <2>2 DEF Leq
  <2>6. Precedes(R, s[o[j]], s[o[k]]) \/ o[j] <= o[k]
    BY <2>3 DEF Leq
  <2> QED BY <1>1, <1>6, <2>1, <2>5, <2>6
<1> QED BY <1>2, <1>5, <1>6, <1>7

\* Nothing appears, and nothing is lost.
COROLLARY SortedElements ==
  ASSUME NEW R, NEW T, StrictWeakOrder(R, T), NEW s \in Seq(T)
  PROVE  /\ SortedBy(R, s) \in Seq(T) /\ Len(SortedBy(R, s)) = Len(s)
         /\ ToSet(SortedBy(R, s)) = ToSet(s)
<1> DEFINE D == 1 .. Len(s)
<1>1. /\ SortedBy(R, s) \in Seq(T) /\ Len(SortedBy(R, s)) = Len(s)
      /\ origin(R, s) \in Bijection(D, D)
      /\ \A k \in D : SortedBy(R, s)[k] = s[origin(R, s)[k]]
  BY SortedPermutes
<1>2. DOMAIN SortedBy(R, s) = D /\ DOMAIN s = D
  BY <1>1
<1>3. \A k \in D : origin(R, s)[k] \in D
  BY <1>1 DEF Bijection, Injection
<1>4. \A i \in D : \E k \in D : origin(R, s)[k] = i
  BY <1>1 DEF Bijection, Surjection
<1> HIDE DEF D
<1>5. \A x : (\E k \in D : SortedBy(R, s)[k] = x) <=> (\E i \in D : s[i] = x)
  BY <1>1, <1>3, <1>4
<1>6. ToSet(SortedBy(R, s)) = ToSet(s)
  BY <1>2, <1>5 DEF ToSet
<1> QED BY <1>1, <1>6

\* How many elements of S come before x, and S by that number.
Below(R, S, x) == Cardinality({y \in S : Precedes(R, y, x)})
Ranked(R, S) == [k \in 1 .. Cardinality(S) |-> CHOOSE x \in S : Below(R, S, x) = k - 1]

\* Elements that are all told apart are sorted by how many come before them:
\* what the sorted sequence is depends on its elements alone, and not on the
\* order they were given in.
THEOREM SortedIsRanked ==
  ASSUME NEW R, NEW S, StrictWeakOrder(R, S),
         \A x, y \in S : x # y => Precedes(R, x, y) \/ Precedes(R, y, x),
         NEW s \in Seq(S), \A i, j \in DOMAIN s : s[i] = s[j] => i = j,
         \A x \in S : \E i \in DOMAIN s : s[i] = x
  PROVE  /\ IsFiniteSet(S) /\ Cardinality(S) = Len(s)
         /\ SortedBy(R, s) = Ranked(R, S)
         /\ \A k \in 1 .. Len(s) :
              Ranked(R, S)[k] \in S /\ Below(R, S, Ranked(R, S)[k]) = k - 1
<1> DEFINE D == 1 .. Len(s)
           below(x) == {y \in S : Precedes(R, y, x)}
           o == origin(R, s)
<1>1. /\ DOMAIN s = D /\ Len(s) \in Nat /\ D \subseteq Int /\ \A i \in D : s[i] \in S
  OBVIOUS
<1>2. IsFiniteSet(D) /\ Cardinality(D) = Len(s)
  <2>1. /\ IsFiniteSet(1 .. Len(s))
        /\ Cardinality(1 .. Len(s)) = IF 1 > Len(s) THEN 0 ELSE Len(s) - 1 + 1
    BY <1>1, FS_Interval, SMTT(30)
  <2> QED BY <1>1, <2>1
<1>3. IsFiniteSet(S) /\ Cardinality(S) = Len(s)
  <2>1. s \in [D -> S]
    BY <1>1
  <2>2. s \in Injection(D, S)
    BY <1>1, <2>1, Fun_IsInj
  <2>3. s \in Surjection(D, S)
    BY <1>1, <2>1 DEF Surjection
  <2> QED BY <1>2, <2>2, <2>3, FS_Surjection
<1>4. \A x \in S : IsFiniteSet(below(x)) /\ Cardinality(below(x)) \in Nat
  <2> TAKE x \in S
  <2>1. below(x) \in SUBSET S
    OBVIOUS
  <2> QED BY <1>3, <2>1, FS_Subset, FS_CardinalityType
<1>5. ASSUME NEW i \in D
      PROVE  Cardinality(NoLaterBy(R, s, i)) = Cardinality(below(s[i])) + 1
  <2> DEFINE N == NoLaterBy(R, s, i)
             B == below(s[i]) \cup {s[i]}
             f == [j \in N |-> s[j]]
  <2>1. \A j \in D : j \in N <=> Precedes(R, s[j], s[i]) \/ (~Precedes(R, s[i], s[j]) /\ j <= i)
    BY <1>1 DEF NoLaterBy
  <2>2. N \subseteq D
    BY <1>1 DEF NoLaterBy
  <2>3. \A j \in D : ~Precedes(R, s[i], s[j]) /\ ~Precedes(R, s[j], s[i]) => i = j
    BY <1>1
  <2>4. ~Precedes(R, s[i], s[i])
    BY <1>1 DEF StrictWeakOrder
  <2>5. \A j \in D : j \in N <=> Precedes(R, s[j], s[i]) \/ j = i
    BY <1>1, <2>1, <2>3, <2>4
  <2> HIDE DEF N
  <2>6. \A j \in D : j \in N <=> s[j] \in B
    BY <1>1, <2>5
  <2>7. f \in [N -> B]
    BY <2>2, <2>6
  <2>8. f \in Injection(N, B)
    <3>1. \A j, k \in N : f[j] = f[k] => j = k
      BY <1>1, <2>2
    <3> QED BY <2>7, <3>1, Fun_IsInj
  <2>9. f \in Surjection(N, B)
    <3>1. ASSUME NEW x \in B
          PROVE  \E j \in N : f[j] = x
      <4>1. x \in S
        BY <1>1
      <4>2. PICK j \in D : s[j] = x
        BY <1>1, <4>1
      <4> QED BY <2>6, <4>2
    <3> QED BY <2>7, <3>1 DEF Surjection
  <2>10. IsFiniteSet(N)
    BY <1>2, <2>2, FS_Subset
  <2>11. Cardinality(B) = Cardinality(N)
    BY <2>8, <2>9, <2>10, FS_Surjection
  <2>12. s[i] \notin below(s[i])
    BY <2>4
  <2>13. Cardinality(B) = Cardinality(below(s[i])) + 1
    <3>1. IsFiniteSet(below(s[i]))
      BY <1>1, <1>4
    <3> HIDE DEF below
    <3> QED BY <2>12, <3>1, FS_AddElement
  <2>14. N = NoLaterBy(R, s, i)
    BY DEF N
  <2> HIDE DEF B, below
  <2> QED BY <2>11, <2>13, <2>14
<1>6. \A x, y \in S : Cardinality(below(x)) = Cardinality(below(y)) => x = y
  <2> SUFFICES ASSUME NEW x \in S, NEW y \in S, Cardinality(below(x)) = Cardinality(below(y))
               PROVE  x = y
    OBVIOUS
  <2>1. PICK i \in D : s[i] = x
    BY <1>1
  <2>2. PICK j \in D : s[j] = y
    BY <1>1
  <2>3. Cardinality(NoLaterBy(R, s, i)) = Cardinality(NoLaterBy(R, s, j))
    BY <1>5, <2>1, <2>2
  <2>4. i # j => Cardinality(NoLaterBy(R, s, i)) < Cardinality(NoLaterBy(R, s, j))
                   \/ Cardinality(NoLaterBy(R, s, j)) < Cardinality(NoLaterBy(R, s, i))
    BY <1>1, PositionsOrdered, PlacesDiffer
  <2>5. Cardinality(NoLaterBy(R, s, i)) \in Int /\ Cardinality(NoLaterBy(R, s, j)) \in Int
    BY <1>1, PlacesDiffer
  <2> QED BY <2>1, <2>2, <2>3, <2>4, <2>5
<1>7. /\ Len(SortedBy(R, s)) = Len(s) /\ SortedBy(R, s) \in Seq(S)
      /\ \A k \in D : o[k] \in D /\ SortedBy(R, s)[k] = s[o[k]]
      /\ \A k \in D : Cardinality(NoLaterBy(R, s, o[k])) = k
  <2>1. /\ Len(SortedBy(R, s)) = Len(s) /\ SortedBy(R, s) \in Seq(S)
        /\ \A k \in D : SortedBy(R, s)[k] = s[o[k]]
    BY SortedPermutes
  <2>2. o \in Bijection(D, D) /\ \A k \in D : Cardinality(NoLaterBy(R, s, o[k])) = k
    BY OriginsPermute
  <2> HIDE DEF o
  <2>3. \A k \in D : o[k] \in D
    BY <2>2 DEF Bijection, Injection
  <2> QED BY <2>1, <2>2, <2>3
<1> HIDE DEF o
<1>8. \A k \in D : SortedBy(R, s)[k] \in S /\ Cardinality(below(SortedBy(R, s)[k])) = k - 1
  <2> TAKE k \in D
  <2>1. Cardinality(below(s[o[k]])) + 1 = k /\ s[o[k]] \in S
    BY <1>1, <1>5, <1>7
  <2>2. Cardinality(below(s[o[k]])) \in Nat
    BY <1>4, <2>1
  <2>3. k \in Int /\ SortedBy(R, s)[k] = s[o[k]]
    BY <1>1, <1>7
  <2> HIDE DEF below, D
  <2>4. Cardinality(below(s[o[k]])) = k - 1
    BY <2>1, <2>2, <2>3
  <2> QED BY <2>1, <2>3, <2>4
<1> DEFINE rank(k) == CHOOSE x \in S : Cardinality(below(x)) = k - 1
<1>9. \A k \in D : SortedBy(R, s)[k] = rank(k)
  <2> TAKE k \in D
  <2>1. rank(k) \in S /\ Cardinality(below(rank(k))) = k - 1
    <3> HIDE DEF below
    <3> QED BY <1>8
  <2> HIDE DEF rank, below
  <2> QED BY <1>6, <1>8, <2>1
<1>10. SortedBy(R, s) = [k \in D |-> rank(k)]
  <2> HIDE DEF rank
  <2> QED BY <1>7, <1>9
<1>11. SortedBy(R, s) = Ranked(R, S)
  BY <1>3, <1>10 DEF Ranked, Below
<1>12. \A k \in D : Below(R, S, SortedBy(R, s)[k]) = Cardinality(below(SortedBy(R, s)[k]))
  BY DEF Below
<1> HIDE DEF below, rank
<1> QED BY <1>3, <1>8, <1>11, <1>12

\* The orders of paths, gaps and blocks, as pairs.
PathPairs(T)  == {pair \in T \X T : BytesBefore(pair[1], pair[2])}
GapPairs(T)   == {pair \in T \X T : SkipBefore(pair[1], pair[2])}
BlockPairs(T) == {pair \in T \X T : RankedBefore(pair[1], pair[2])}

\* The candidates of a search are byte strings, and sort by them.
LEMMA PathsOrdered ==
  ASSUME NEW P \in SUBSET ByteString
  PROVE  StrictWeakOrder(PathPairs(P), P)
<1>1. \A p, q \in P : Precedes(PathPairs(P), p, q) <=> BytesBefore(p, q)
  BY DEF Precedes, PathPairs
<1> QED BY <1>1, BytesOrdered DEF StrictWeakOrder

\* Gaps sort by path, then by reason (evidence.rs::sort_skips).
LEMMA GapsOrdered ==
  ASSUME NEW T,
         \A g \in T : g.path.bytes \in ByteString /\ ReasonOrder(g.reason) \in Nat
  PROVE  StrictWeakOrder(GapPairs(T), T)
<1>1. ASSUME NEW g \in T, NEW h \in T, SkipBefore(g, h)
      PROVE  ~SkipBefore(h, g)
  <2>1. /\ g.path.bytes \in ByteString /\ ReasonOrder(g.reason) \in Nat
        /\ h.path.bytes \in ByteString /\ ReasonOrder(h.reason) \in Nat
    OBVIOUS
  <2> QED BY <1>1, <2>1, BytesOrdered DEF SkipBefore
<1>2. ASSUME NEW g \in T, NEW h \in T, NEW k \in T, SkipBefore(g, k)
      PROVE  SkipBefore(g, h) \/ SkipBefore(h, k)
  <2>1. /\ g.path.bytes \in ByteString /\ ReasonOrder(g.reason) \in Nat
        /\ h.path.bytes \in ByteString /\ ReasonOrder(h.reason) \in Nat
        /\ k.path.bytes \in ByteString /\ ReasonOrder(k.reason) \in Nat
    OBVIOUS
  <2> QED BY <1>2, <2>1, BytesOrdered DEF SkipBefore
<1>3. \A x, y \in T : Precedes(GapPairs(T), x, y) <=> SkipBefore(x, y)
  BY DEF Precedes, GapPairs
<1> QED BY <1>1, <1>2, <1>3 DEF StrictWeakOrder

IsRanked(b) == /\ b.path.bytes \in ByteString
               /\ b.score \in Int /\ b.line_start \in Int /\ b.byte_start \in Int

\* Blocks sort by compare_ranked, whatever else they hold.
LEMMA BlocksOrdered ==
  ASSUME NEW T, \A b \in T : IsRanked(b)
  PROVE  StrictWeakOrder(BlockPairs(T), T)
<1>1. ASSUME NEW b \in T, NEW c \in T, RankedBefore(b, c)
      PROVE  ~RankedBefore(c, b)
  <2>1. IsRanked(b) /\ IsRanked(c)
    OBVIOUS
  <2> QED BY <1>1, <2>1, BytesOrdered DEF RankedBefore, IsRanked
<1>2. ASSUME NEW b \in T, NEW c \in T, NEW d \in T, RankedBefore(b, d)
      PROVE  RankedBefore(b, c) \/ RankedBefore(c, d)
  <2>1. IsRanked(b) /\ IsRanked(c) /\ IsRanked(d)
    OBVIOUS
  <2> QED BY <1>2, <2>1, BytesOrdered DEF RankedBefore, IsRanked
<1>3. \A x, y \in T : Precedes(BlockPairs(T), x, y) <=> RankedBefore(x, y)
  BY DEF Precedes, BlockPairs
<1> QED BY <1>1, <1>2, <1>3 DEF StrictWeakOrder

\* What a file's blocks are ranked by.
LEMMA BuiltBlocksRank ==
  ASSUME NEW plan, IsPlan(plan), NEW path \in ByteString, NEW bytes \in ByteString,
         NEW block \in ToSet(blocks_for_file(plan, path, bytes))
  PROVE  IsRanked(block)
<1>1. PICK k \in DOMAIN matching_ranges(plan, ParseLines(bytes)) :
        LET range == matching_ranges(plan, ParseLines(bytes))[k]
        IN  /\ block.line_start = range.start + 1 /\ range.start \in Nat
            /\ block.path.bytes = path /\ block.score \in Nat /\ block.byte_start \in Nat
  BY BuiltBlocks
<1> QED BY <1>1 DEF IsRanked

\* sort_skips sorts by that order.
LEMMA GapsSortedBy ==
  ASSUME NEW T, NEW s \in Seq(T)
  PROVE  GapOrder!Sorted(s) = SortedBy(GapPairs(T), s)
<1>1. \A i \in DOMAIN s : s[i] \in T
  OBVIOUS
<1>2. \A i, j \in DOMAIN s : Precedes(GapPairs(T), s[i], s[j]) <=> SkipBefore(s[i], s[j])
  BY <1>1 DEF Precedes, GapPairs
<1>3. \A i \in DOMAIN s : GapOrder!NoLater(s, i) = NoLaterBy(GapPairs(T), s, i)
  BY <1>2 DEF GapOrder!NoLater, NoLaterBy
<1> DEFINE place == [i \in DOMAIN s |-> Cardinality(NoLaterBy(GapPairs(T), s, i))]
<1>4. [i \in DOMAIN s |-> GapOrder!Cardinality(GapOrder!NoLater(s, i))] = place
  <2>1. \A S : GapOrder!Cardinality(S) = Cardinality(S)
    BY DEF GapOrder!Cardinality, GapOrder!IsFiniteSet, Cardinality, IsFiniteSet
  <2> QED BY <1>3, <2>1
<1> HIDE DEF place
<1>5. GapOrder!Sorted(s) = [k \in DOMAIN s |-> s[CHOOSE i \in DOMAIN s : place[i] = k]]
  <2> DEFINE there == [i \in DOMAIN s |-> GapOrder!Cardinality(GapOrder!NoLater(s, i))]
  <2>1. GapOrder!Sorted(s) = [k \in DOMAIN s |-> s[CHOOSE i \in DOMAIN s : there[i] = k]]
    BY Zenon DEF GapOrder!Sorted
  <2>2. there = place
    BY <1>4
  <2> HIDE DEF there
  <2> QED BY <2>1, <2>2
<1>6. SortedBy(GapPairs(T), s) = [k \in DOMAIN s |-> s[CHOOSE i \in DOMAIN s : place[i] = k]]
  BY Zenon DEF SortedBy, place
<1> QED BY <1>5, <1>6

=============================================================================
