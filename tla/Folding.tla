------------------------------ MODULE Folding ------------------------------
(***************************************************************************)
(* FoldLeft, one element after the other: a fold over a sequence is the    *)
(* last of the values its prefixes have, each a step from the one before.  *)
(* What a step preserves, the fold has.                                    *)
(*                                                                         *)
(* The operator folded is a constant of this module, so that the theorems  *)
(* about it hold for each operator the module is instantiated with; its    *)
(* first argument is whatever else it depends on.                          *)
(***************************************************************************)
EXTENDS Integers, Sequences, SequencesExt, FiniteSetTheorems, TLAPS

CONSTANTS Start(_), Step(_, _, _)

Fold(p, s) == FoldLeft(LAMBDA acc, x : Step(p, acc, x), Start(p), s)

\* trace[k + 1] is what the first k elements fold to.
IsTrace(p, s, trace) ==
  /\ trace[0] = Start(p)
  /\ \A k \in 1 .. Len(s) : trace[k] = Step(p, trace[k - 1], s[k])

\* The recursion FoldLeft is made of.
Body(p, s, g) == [T \in SUBSET DOMAIN s |->
                    IF T = {} THEN Start(p)
                    ELSE LET x == Max(T) IN Step(p, g[T \ {x}], s[x])]

\* A set of natural numbers has a least element.
LEMMA Least ==
  ASSUME NEW S \in SUBSET Nat, S # {}
  PROVE  \E n \in S : \A m \in S : n <= m
<1> DEFINE R == OpToRel(<, Nat)
<1>0. IsWellFoundedOn(R, Nat)
  BY NatLessThanWellFounded, Zenon
<1>1. \A z \in S, y \in S : <<y, z>> \in R <=> y < z
  BY DEF OpToRel
<1> HIDE DEF R
<1>2. \E z \in S : \A y \in S : ~ (<<y, z>> \in R)
  BY <1>0, WFMin
<1>3. \A y, z \in S : ~(y < z) => z <= y
  OBVIOUS
<1> QED BY <1>1, <1>2, <1>3

\* What holds of a number, and of each next one, holds up to any other.
LEMMA Climb ==
  ASSUME NEW a \in Nat, NEW b \in Nat, NEW Good, a \in Good,
         \A k \in a + 1 .. b : k - 1 \in Good => k \in Good
  PROVE  \A k \in a .. b : k \in Good
<1> DEFINE Bad == {k \in a .. b : k \notin Good}
<1> SUFFICES ASSUME Bad # {}
             PROVE  FALSE
  OBVIOUS
<1>1. Bad \in SUBSET Nat
  OBVIOUS
<1>2. PICK m \in Bad : \A k \in Bad : m <= k
  BY <1>1, Least
<1>3. m \in a + 1 .. b /\ m - 1 \in a .. b /\ ~(m <= m - 1)
  OBVIOUS
<1>4. m - 1 \in Good
  BY <1>2, <1>3
<1> QED BY <1>3, <1>4

\* A set of numbers up to n that is not empty has a greatest element.
LEMMA Greatest ==
  ASSUME NEW n \in Nat, NEW T \in SUBSET (0 .. n), T # {}
  PROVE  /\ \E x \in T : \A y \in T : x >= y
         /\ Max(T) \in T /\ \A y \in T : Max(T) >= y
<1> DEFINE S == {n - y : y \in T}
<1>1. S \in SUBSET Nat /\ S # {}
  <2>1. \A y \in T : y \in 0 .. n
    OBVIOUS
  <2>2. \A y \in T : n - y \in Nat
    BY <2>1
  <2>3. \E y : y \in T
    OBVIOUS
  <2> QED BY <2>2, <2>3
<1>2. PICK m \in S : \A y \in S : m <= y
  BY <1>1, Least
<1>3. PICK x \in T : m = n - x
  BY <1>2
<1>4. \A y \in T : n - y \in S
  OBVIOUS
<1>5. \A y \in T : x >= y
  BY <1>2, <1>3, <1>4
<1> QED BY <1>5 DEF Max

\* The recursion has a solution.
LEMMA FoldDefined ==
  ASSUME NEW p, NEW X, NEW s \in Seq(X)
  PROVE  \E g : g = Body(p, s, g)
<1> DEFINE D == DOMAIN s
           Small(n) == {T \in SUBSET D : Cardinality(T) <= n}
           Value(g, T) == IF T = {} THEN Start(p)
                          ELSE LET x == Max(T) IN Step(p, g[T \ {x}], s[x])
           Solved(n) == \E g : \A T \in Small(n) : g[T] = Value(g, T)
           Bad == {n \in Nat : ~Solved(n)}
<1>1. D = 1 .. Len(s) /\ Len(s) \in Nat
  OBVIOUS
<1>2. IsFiniteSet(D) /\ Cardinality(D) \in Nat
  BY <1>1, FS_Interval, FS_CardinalityType
<1>3. \A T \in SUBSET D : /\ IsFiniteSet(T) /\ Cardinality(T) \in Nat
                          /\ Cardinality(T) <= Cardinality(D)
  BY <1>2, FS_Subset, FS_CardinalityType
<1>4. Solved(0)
  <2>1. \A T \in Small(0) : T = {}
    BY <1>3, FS_EmptySet
  <2> DEFINE g == [T \in SUBSET D |-> Start(p)]
  <2>2. \A T \in Small(0) : g[T] = Value(g, T)
    BY <2>1
  <2> HIDE DEF g
  <2> QED BY <2>2
<1>5. ASSUME NEW n \in Nat, Solved(n)
      PROVE  Solved(n + 1)
  <2>1. PICK g : \A T \in Small(n) : g[T] = Value(g, T)
    BY <1>5
  <2> DEFINE h == [T \in SUBSET D |-> Value(g, T)]
  <2>2. ASSUME NEW T \in Small(n + 1), T # {}
        PROVE  T \ {Max(T)} \in Small(n)
    <3>1. Max(T) \in T
      <4>1. T \in SUBSET (0 .. Len(s))
        BY <1>1
      <4> QED BY <1>1, <2>2, <4>1, Greatest
    <3>2. Cardinality(T \ {Max(T)}) = Cardinality(T) - 1
      BY <1>3, <3>1, FS_RemoveElement
    <3> QED BY <1>3, <3>2
  <2>3. \A T \in Small(n) : h[T] = g[T]
    BY <2>1
  <2>4. \A T \in Small(n + 1) : h[T] = Value(g, T)
    OBVIOUS
  <2>5. \A T \in Small(n + 1) : Value(g, T) = Value(h, T)
    <3> HIDE DEF h, Small
    <3> QED BY <2>2, <2>3
  <2> HIDE DEF h
  <2> QED BY <2>4, <2>5
<1>6. Bad = {}
  <2> SUFFICES ASSUME Bad # {}
               PROVE  FALSE
    OBVIOUS
  <2> HIDE DEF Solved
  <2>1. PICK m \in Bad : \A y \in Bad : m <= y
    BY Least
  <2>2. m # 0
    BY <1>4
  <2>3. m - 1 \in Nat /\ m - 1 \notin Bad
    BY <2>1, <2>2
  <2>4. Solved(m - 1 + 1)
    BY <1>5, <2>3
  <2> QED BY <2>1, <2>3, <2>4
<1>7. Solved(Cardinality(D))
  BY <1>2, <1>6
<1>8. PICK g : \A T \in SUBSET D : g[T] = Value(g, T)
  BY <1>3, <1>7
<1> DEFINE h == [T \in SUBSET D |-> Value(g, T)]
<1>9. \A T \in SUBSET D : h[T] = g[T]
  BY <1>8
<1>10. ASSUME NEW T \in SUBSET D
       PROVE  Value(g, T) = Value(h, T)
  <2>1. T \ {Max(T)} \in SUBSET D
    OBVIOUS
  <2> HIDE DEF h
  <2> QED BY <1>9, <2>1
<1>11. h = [T \in SUBSET D |-> Value(h, T)]
  <2> HIDE DEF Value
  <2> QED BY <1>10
<1> QED BY <1>11 DEF Body

\* A fold has a trace.
THEOREM FoldHasTrace ==
  ASSUME NEW p, NEW X, NEW s \in Seq(X)
  PROVE  \E trace : IsTrace(p, s, trace) /\ Fold(p, s) = trace[Len(s)]
<1> DEFINE iter == CHOOSE g : g = Body(p, s, g)
           D == DOMAIN s
<1>1. iter = Body(p, s, iter)
  BY FoldDefined
<1>2. Fold(p, s) = iter[D]
  BY DEF Fold, FoldLeft, MapThenFoldSet, Body
<1> HIDE DEF iter
<1> DEFINE trace == [k \in 0 .. Len(s) |-> iter[1 .. k]]
<1>3. D = 1 .. Len(s) /\ Len(s) \in Nat
  OBVIOUS
<1>4. trace[0] = Start(p)
  <2>1. 1 .. 0 = {} /\ 1 .. 0 \in SUBSET D
    OBVIOUS
  <2> QED BY <1>1, <1>3, <2>1 DEF Body
<1>5. ASSUME NEW k \in 1 .. Len(s)
      PROVE  trace[k] = Step(p, trace[k - 1], s[k])
  <2>1. k \in Nat /\ k \in 1 .. k /\ k - 1 \in 0 .. Len(s)
    BY <1>3
  <2>2. \A i \in 1 .. k : i \in Int /\ i \in 1 .. Len(s) /\ k >= i
    BY <1>3
  <2>3. 1 .. k \in SUBSET D /\ 1 .. k # {}
    BY <1>3, <2>1, <2>2
  <2>4. (1 .. k) \ {k} = 1 .. (k - 1)
    BY <2>1
  <2>5. Max(1 .. k) \in 1 .. k /\ \A y \in 1 .. k : Max(1 .. k) >= y
    <3>1. 1 .. k \in SUBSET (0 .. k)
      BY <2>1
    <3> QED BY <2>1, <2>3, <3>1, Greatest
  <2>6. Max(1 .. k) = k
    BY <2>1, <2>2, <2>5
  <2>7. iter[1 .. k] = Step(p, iter[(1 .. k) \ {k}], s[k])
    BY <1>1, <2>3, <2>6 DEF Body
  <2>8. trace[k] = iter[1 .. k] /\ trace[k - 1] = iter[1 .. (k - 1)]
    BY <1>3, <2>1
  <2> HIDE DEF trace
  <2> QED BY <2>4, <2>7, <2>8
<1>6. Fold(p, s) = trace[Len(s)]
  BY <1>2, <1>3
<1> HIDE DEF trace
<1> QED BY <1>4, <1>5, <1>6 DEF IsTrace

\* Where each step leads from what holds before it to what holds after it, the
\* fold leads to what holds in the end: induction over the prefixes.
THEOREM FoldReaches ==
  ASSUME NEW p, NEW X, NEW s \in Seq(X), NEW Holds,
         Start(p) \in Holds[0],
         \A k \in 1 .. Len(s) : \A acc \in Holds[k - 1] : Step(p, acc, s[k]) \in Holds[k]
  PROVE  Fold(p, s) \in Holds[Len(s)]
<1>1. PICK trace : IsTrace(p, s, trace) /\ Fold(p, s) = trace[Len(s)]
  BY FoldHasTrace
<1> DEFINE Bad == {k \in 0 .. Len(s) : trace[k] \notin Holds[k]}
<1>2. Len(s) \in Nat
  OBVIOUS
<1>3. Bad = {}
  <2> SUFFICES ASSUME Bad # {}
               PROVE  FALSE
    OBVIOUS
  <2>1. Bad \in SUBSET Nat
    OBVIOUS
  <2>2. PICK m \in Bad : \A k \in Bad : m <= k
    BY <2>1, Least
  <2>3. m # 0
    BY <1>1 DEF IsTrace
  <2>4. m \in 1 .. Len(s) /\ m - 1 \in 0 .. Len(s) /\ ~(m <= m - 1)
    BY <1>2, <2>3
  <2>5. trace[m - 1] \in Holds[m - 1]
    BY <2>2, <2>4
  <2>6. trace[m] = Step(p, trace[m - 1], s[m])
    BY <1>1, <2>4 DEF IsTrace
  <2>7. trace[m] \in Holds[m]
    BY <2>4, <2>5, <2>6
  <2> QED BY <2>7
<1>4. trace[Len(s)] \in Holds[Len(s)]
  BY <1>2, <1>3
<1> QED BY <1>1, <1>4

\* What each step keeps, the fold keeps.
THEOREM FoldKeeps ==
  ASSUME NEW p, NEW X, NEW T,
         Start(p) \in T, \A acc \in T, x \in X : Step(p, acc, x) \in T,
         NEW s \in Seq(X)
  PROVE  Fold(p, s) \in T
<1> DEFINE Holds == [k \in 0 .. Len(s) |-> T]
<1>1. Len(s) \in Nat /\ \A k \in 1 .. Len(s) : s[k] \in X /\ k - 1 \in 0 .. Len(s)
  OBVIOUS
<1>2. \A k \in 0 .. Len(s) : Holds[k] = T
  OBVIOUS
<1>3. 0 \in 0 .. Len(s) /\ Len(s) \in 0 .. Len(s) /\ 1 .. Len(s) \subseteq 0 .. Len(s)
  BY <1>1
<1> HIDE DEF Holds
<1>4. Start(p) \in Holds[0]
  BY <1>2, <1>3
<1>5. \A k \in 1 .. Len(s) : \A acc \in Holds[k - 1] : Step(p, acc, s[k]) \in Holds[k]
  BY <1>1, <1>2, <1>3
<1> QED BY <1>2, <1>3, <1>4, <1>5, FoldReaches

\* The empty sequence folds to the start.
COROLLARY FoldEmpty ==
  ASSUME NEW p
  PROVE  Fold(p, <<>>) = Start(p)
<1>1. <<>> \in Seq({}) /\ Len(<<>>) = 0
  OBVIOUS
<1> QED BY <1>1, FoldHasTrace DEF IsTrace

\* One more element is one more step.
THEOREM FoldAppend ==
  ASSUME NEW p, NEW X, NEW s \in Seq(X), NEW x \in X
  PROVE  Fold(p, Append(s, x)) = Step(p, Fold(p, s), x)
<1> DEFINE t == Append(s, x)
           n == Len(s)
<1>1. /\ n \in Nat /\ t \in Seq(X) /\ Len(t) = n + 1
      /\ t[n + 1] = x /\ \A k \in 1 .. n : t[k] = s[k]
  OBVIOUS
<1> HIDE DEF t, n
<1>2. PICK f : IsTrace(p, s, f) /\ Fold(p, s) = f[n]
  BY FoldHasTrace DEF n
<1>3. PICK g : IsTrace(p, t, g) /\ Fold(p, t) = g[n + 1]
  BY <1>1, FoldHasTrace
<1> DEFINE Bad == {k \in 0 .. n : f[k] # g[k]}
<1>4. Bad = {}
  <2> SUFFICES ASSUME Bad # {}
               PROVE  FALSE
    OBVIOUS
  <2>1. Bad \in SUBSET Nat
    BY <1>1
  <2>2. PICK m \in Bad : \A k \in Bad : m <= k
    BY <2>1, Least
  <2>3. m # 0
    BY <1>2, <1>3 DEF IsTrace
  <2>4. m \in 1 .. n /\ m \in 1 .. n + 1 /\ m - 1 \in 0 .. n /\ ~(m <= m - 1)
    BY <1>1, <2>3
  <2>5. f[m - 1] = g[m - 1]
    BY <2>2, <2>4
  <2>6. f[m] = Step(p, f[m - 1], s[m]) /\ g[m] = Step(p, g[m - 1], t[m])
    BY <1>1, <1>2, <1>3, <2>4 DEF IsTrace, n
  <2> QED BY <1>1, <2>2, <2>4, <2>5, <2>6
<1>5. f[n] = g[n]
  BY <1>1, <1>4
<1>6. g[n + 1] = Step(p, g[n], t[n + 1])
  <2>1. \A k \in 1 .. Len(t) : g[k] = Step(p, g[k - 1], t[k])
    BY <1>3 DEF IsTrace
  <2>2. PICK k \in 1 .. Len(t) : k = n + 1
    BY <1>1
  <2>3. k - 1 = n
    BY <1>1, <2>2
  <2>4. g[k] = Step(p, g[k - 1], t[k])
    BY <2>1
  <2> QED BY <2>2, <2>3, <2>4
<1> QED BY <1>1, <1>2, <1>3, <1>5, <1>6 DEF t
=============================================================================
