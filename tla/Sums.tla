-------------------------------- MODULE Sums --------------------------------
(***************************************************************************)
(* Amounts added up over a finite set, in the form the books of this       *)
(* system need: a function from requests or jobs to money; and the lemmas  *)
(* about it.  The library defines a sum by recursion over the subsets of   *)
(* the set, taking an arbitrary element each time.  That this recursion is *)
(* well defined, and that the order does not matter, is proved from the    *)
(* fact that strict inclusion of finite sets is well-founded: every set of *)
(* finite sets has a minimal element.                                      *)
(***************************************************************************)
EXTENDS Integers, FiniteSets, FiniteSetsExt, FiniteSetTheorems, WellFoundedInduction, TLAPS

\* The sum of the values of F at the elements of S.
SumOver(F, S) == MapThenSumSet(LAMBDA k : F[k], S)

\* The element a sum takes next.
Picked(s) == CHOOSE x \in s : TRUE

\* What the recursion adds up for s when g tells the sums of smaller sets.
Body(F, g, s) == IF s = {} THEN 0 ELSE F[Picked(s)] + g[s \ {Picked(s)}]

\* g is what the recursion defines on the subsets of S.
Solves(F, S, g) == g = [s \in SUBSET S |-> Body(F, g, s)]

\* One step of the recursion, from the sum itself.
SumStep(F, S) == IF S = {} THEN 0 ELSE F[Picked(S)] + SumOver(F, S \ {Picked(S)})

\* A finite set has subsets with any property only if it has a least one.
LEMMA LeastSubset ==
  ASSUME NEW S, IsFiniteSet(S), NEW B, B \subseteq SUBSET S, B # {}
  PROVE  \E T \in B : \A U \in B : U \subseteq T => U = T
<1>1. IsWellFoundedOn(StrictSubsetOrdering(S), FiniteSubsetsOf(S))
  BY FS_StrictSubsetOrderingWellFounded
<1>2. B \subseteq FiniteSubsetsOf(S)
  BY FS_Subset DEF FiniteSubsetsOf
<1>3. \E T \in B : \A U \in B : ~(<<U, T>> \in StrictSubsetOrdering(S))
  BY <1>1, <1>2, WFMin
<1>4. \A T, U \in B : U \subseteq T /\ U # T => <<U, T>> \in StrictSubsetOrdering(S)
  BY DEF StrictSubsetOrdering
<1> QED
  BY <1>3, <1>4

\* A set that is not empty has the element that is taken.
LEMMA PickedMember ==
  ASSUME NEW s, s # {}
  PROVE  Picked(s) \in s
  BY DEF Picked

\* Two functions that both satisfy the recursion agree.
LEMMA BodyUnique ==
  ASSUME NEW F, NEW S, IsFiniteSet(S), NEW g, NEW h, Solves(F, S, g), Solves(F, S, h)
  PROVE  g = h
<1> DEFINE B == {s \in SUBSET S : g[s] # h[s]}
<1>0. g = [s \in SUBSET S |-> Body(F, g, s)] /\ h = [s \in SUBSET S |-> Body(F, h, s)]
  BY DEF Solves
<1>1. SUFFICES ASSUME B # {} PROVE FALSE
  BY <1>0, Zenon
<1>2. PICK T \in B : \A U \in B : U \subseteq T => U = T
  <2>1. B \subseteq SUBSET S
    OBVIOUS
  <2> HIDE DEF B
  <2> QED
    BY <1>1, <2>1, LeastSubset
<1>3. CASE T = {}
  BY <1>0, <1>2, <1>3 DEF Body
<1>4. CASE T # {}
  <2>1. Picked(T) \in T
    BY <1>4, PickedMember
  <2>2. T \ {Picked(T)} \in SUBSET S /\ T \ {Picked(T)} # T /\ T \ {Picked(T)} \subseteq T
    BY <2>1
  <2>3. g[T \ {Picked(T)}] = h[T \ {Picked(T)}]
    BY <1>2, <2>2
  <2>4. g[T] = F[Picked(T)] + g[T \ {Picked(T)}] /\ h[T] = F[Picked(T)] + h[T \ {Picked(T)}]
    BY <1>0, <1>4, T \in SUBSET S DEF Body
  <2> QED
    BY <2>3, <2>4
<1> QED
  BY <1>3, <1>4

\* The library's definition, in these terms.
LEMMA SumUnfolded ==
  ASSUME NEW F, NEW S
  PROVE  SumOver(F, S) = (CHOOSE g : Solves(F, S, g))[S]
  BY DEF SumOver, MapThenSumSet, MapThenFoldSet, Solves, Body, Picked

\* The recursion equation of a sum.
LEMMA SumRecursion ==
  ASSUME NEW F, NEW S, IsFiniteSet(S)
  PROVE  SumOver(F, S) = SumStep(F, S)
<1> DEFINE B == {T \in SUBSET S : SumOver(F, T) # SumStep(F, T)}
<1>1. SUFFICES ASSUME B # {} PROVE FALSE
  OBVIOUS
<1>2. PICK T \in B : \A U \in B : U \subseteq T => U = T
  <2>1. B \subseteq SUBSET S
    OBVIOUS
  <2> HIDE DEF B
  <2> QED
    BY <1>1, <2>1, LeastSubset
<1> DEFINE g == [s \in SUBSET T |-> SumStep(F, s)]
           h == CHOOSE f : Solves(F, T, f)
<1>3. ASSUME NEW s \in SUBSET T PROVE SumStep(F, s) = Body(F, g, s)
  <2>1. CASE s = {}
    BY <2>1 DEF SumStep, Body
  <2>2. CASE s # {}
    <3>1. Picked(s) \in s
      BY <2>2, PickedMember
    <3> DEFINE u == s \ {Picked(s)}
    <3>2. u \in SUBSET T /\ u # T /\ u \in SUBSET S
      BY <3>1
    <3>3. SumOver(F, u) = SumStep(F, u)
      BY <1>2, <3>2
    <3>4. g[u] = SumStep(F, u)
      BY <3>2
    <3>5. SumStep(F, s) = F[Picked(s)] + SumOver(F, u) /\ Body(F, g, s) = F[Picked(s)] + g[u]
      BY <2>2 DEF SumStep, Body
    <3> QED
      BY <3>3, <3>4, <3>5
  <2> QED
    BY <2>1, <2>2
<1>4. Solves(F, T, g)
  BY <1>3 DEF Solves
<1> HIDE DEF g
<1>5. Solves(F, T, h)
  BY <1>4
<1> HIDE DEF h
<1>6. IsFiniteSet(T)
  BY FS_Subset
<1>7. g = h
  BY <1>4, <1>5, <1>6, BodyUnique
<1>8. SumOver(F, T) = h[T]
  BY SumUnfolded DEF h
<1>9. g[T] = SumStep(F, T)
  BY DEF g
<1> QED
  BY <1>2, <1>7, <1>8, <1>9

\* Nothing adds up to nothing.
LEMMA SumOverEmpty ==
  ASSUME NEW F
  PROVE  SumOver(F, {}) = 0
  BY SumRecursion, FS_EmptySet DEF SumStep

\* A sum of integers is an integer.
LEMMA SumOverInt ==
  ASSUME NEW F, NEW S, IsFiniteSet(S), \A s \in S : F[s] \in Int
  PROVE  SumOver(F, S) \in Int
<1> DEFINE B == {T \in SUBSET S : SumOver(F, T) \notin Int}
<1>1. SUFFICES ASSUME B # {} PROVE FALSE
  OBVIOUS
<1>2. PICK T \in B : \A U \in B : U \subseteq T => U = T
  <2>1. B \subseteq SUBSET S
    OBVIOUS
  <2> HIDE DEF B
  <2> QED
    BY <1>1, <2>1, LeastSubset
<1>3. T # {}
  BY SumOverEmpty
<1>4. Picked(T) \in T
  BY <1>3, PickedMember
<1>5. SumOver(F, T \ {Picked(T)}) \in Int
  BY <1>2, <1>4
<1>6. SumOver(F, T) = F[Picked(T)] + SumOver(F, T \ {Picked(T)})
  BY <1>3, SumRecursion, FS_Subset DEF SumStep
<1>7. T \in SUBSET S /\ SumOver(F, T) \notin Int
  OBVIOUS
<1> QED
  BY <1>4, <1>5, <1>6, <1>7

\* Any element may be taken first.
LEMMA SumOverRemove ==
  ASSUME NEW F, NEW S, IsFiniteSet(S), \A s \in S : F[s] \in Int, NEW x \in S
  PROVE  SumOver(F, S) = F[x] + SumOver(F, S \ {x})
<1> DEFINE B == {T \in SUBSET S : \E y \in T : SumOver(F, T) # F[y] + SumOver(F, T \ {y})}
<1>1. SUFFICES ASSUME B # {} PROVE FALSE
  OBVIOUS
<1>2. PICK T \in B : \A U \in B : U \subseteq T => U = T
  <2>1. B \subseteq SUBSET S
    OBVIOUS
  <2> HIDE DEF B
  <2> QED
    BY <1>1, <2>1, LeastSubset
<1>3. PICK y \in T : SumOver(F, T) # F[y] + SumOver(F, T \ {y})
  OBVIOUS
<1> DEFINE z == Picked(T)
<1>4. z \in T
  BY <1>3, PickedMember
<1>5. T \in SUBSET S /\ IsFiniteSet(T)
  BY FS_Subset
<1>6. SumOver(F, T) = F[z] + SumOver(F, T \ {z})
  BY <1>3, <1>5, SumRecursion DEF SumStep
<1>7. y # z
  BY <1>3, <1>6
<1> HIDE DEF z
<1>8. \A U \in SUBSET T : U # T => \A w \in U : SumOver(F, U) = F[w] + SumOver(F, U \ {w})
  BY <1>2, <1>5
<1>9. SumOver(F, T \ {z}) = F[y] + SumOver(F, (T \ {z}) \ {y})
  BY <1>3, <1>4, <1>7, <1>8
<1>10. SumOver(F, T \ {y}) = F[z] + SumOver(F, (T \ {y}) \ {z})
  BY <1>3, <1>4, <1>7, <1>8
<1>11. (T \ {y}) \ {z} = (T \ {z}) \ {y}
  OBVIOUS
<1>12. SumOver(F, (T \ {z}) \ {y}) \in Int
  <2>1. (T \ {z}) \ {y} \in SUBSET S
    BY <1>5
  <2> QED
    BY <2>1, SumOverInt, FS_Subset
<1>13. F[y] \in Int /\ F[z] \in Int
  BY <1>3, <1>4, <1>5
<1> QED
  BY <1>3, <1>6, <1>9, <1>10, <1>11, <1>12, <1>13

\* One more element adds its value.
LEMMA SumOverAdd ==
  ASSUME NEW F, NEW S, IsFiniteSet(S), NEW x, x \notin S, \A s \in S \cup {x} : F[s] \in Int
  PROVE  SumOver(F, S \cup {x}) = SumOver(F, S) + F[x]
<1>1. IsFiniteSet(S \cup {x}) /\ (S \cup {x}) \ {x} = S
  BY FS_AddElement
<1>2. SumOver(F, S \cup {x}) = F[x] + SumOver(F, S)
  BY <1>1, SumOverRemove
<1>3. SumOver(F, S) \in Int
  BY SumOverInt
<1> QED
  BY <1>2, <1>3

\* Only the values at the elements of the set count.
LEMMA SumOverSame ==
  ASSUME NEW F, NEW G, NEW S, IsFiniteSet(S), \A s \in S : F[s] = G[s]
  PROVE  SumOver(F, S) = SumOver(G, S)
<1> DEFINE B == {T \in SUBSET S : SumOver(F, T) # SumOver(G, T)}
<1>1. SUFFICES ASSUME B # {} PROVE FALSE
  OBVIOUS
<1>2. PICK T \in B : \A U \in B : U \subseteq T => U = T
  <2>1. B \subseteq SUBSET S
    OBVIOUS
  <2> HIDE DEF B
  <2> QED
    BY <1>1, <2>1, LeastSubset
<1>3. T # {}
  BY SumOverEmpty
<1>4. Picked(T) \in T
  BY <1>3, PickedMember
<1>5. T \in SUBSET S /\ IsFiniteSet(T)
  BY FS_Subset
<1>6. SumOver(F, T \ {Picked(T)}) = SumOver(G, T \ {Picked(T)})
  BY <1>2, <1>4, <1>5
<1>7. /\ SumOver(F, T) = F[Picked(T)] + SumOver(F, T \ {Picked(T)})
      /\ SumOver(G, T) = G[Picked(T)] + SumOver(G, T \ {Picked(T)})
  BY <1>3, <1>5, SumRecursion DEF SumStep
<1> QED
  BY <1>4, <1>5, <1>6, <1>7

\* Changing one value changes the sum by the difference.
LEMMA SumOverChange ==
  ASSUME NEW F, NEW G, NEW S, IsFiniteSet(S), NEW x \in S,
         \A s \in S : F[s] \in Int /\ G[s] \in Int,
         \A s \in S \ {x} : F[s] = G[s]
  PROVE  SumOver(G, S) = SumOver(F, S) + (G[x] - F[x])
<1>1. IsFiniteSet(S \ {x})
  BY FS_RemoveElement
<1>2. SumOver(F, S \ {x}) = SumOver(G, S \ {x})
  BY <1>1, SumOverSame
<1>3. SumOver(F, S) = F[x] + SumOver(F, S \ {x}) /\ SumOver(G, S) = G[x] + SumOver(G, S \ {x})
  BY SumOverRemove
<1>4. SumOver(F, S \ {x}) \in Int
  BY <1>1, SumOverInt
<1> QED
  BY <1>2, <1>3, <1>4

\* Zeros add up to zero.
LEMMA SumOverZero ==
  ASSUME NEW F, NEW S, IsFiniteSet(S), \A s \in S : F[s] = 0
  PROVE  SumOver(F, S) = 0
<1> DEFINE B == {T \in SUBSET S : SumOver(F, T) # 0}
<1>1. SUFFICES ASSUME B # {} PROVE FALSE
  OBVIOUS
<1>2. PICK T \in B : \A U \in B : U \subseteq T => U = T
  <2>1. B \subseteq SUBSET S
    OBVIOUS
  <2> HIDE DEF B
  <2> QED
    BY <1>1, <2>1, LeastSubset
<1>3. T # {} /\ T \in SUBSET S /\ IsFiniteSet(T)
  BY SumOverEmpty, FS_Subset
<1>4. Picked(T) \in T
  BY <1>3, PickedMember
<1>5. SumOver(F, T \ {Picked(T)}) = 0
  BY <1>2, <1>3, <1>4
<1>6. SumOver(F, T) = F[Picked(T)] + SumOver(F, T \ {Picked(T)})
  BY <1>3, SumRecursion DEF SumStep
<1> QED
  BY <1>3, <1>4, <1>5, <1>6

\* A sum of naturals is a natural.
LEMMA SumOverNat ==
  ASSUME NEW F, NEW S, IsFiniteSet(S), \A s \in S : F[s] \in Nat
  PROVE  SumOver(F, S) \in Nat
<1> DEFINE B == {T \in SUBSET S : SumOver(F, T) \notin Nat}
<1>1. SUFFICES ASSUME B # {} PROVE FALSE
  OBVIOUS
<1>2. PICK T \in B : \A U \in B : U \subseteq T => U = T
  <2>1. B \subseteq SUBSET S
    OBVIOUS
  <2> HIDE DEF B
  <2> QED
    BY <1>1, <2>1, LeastSubset
<1>3. T # {} /\ T \in SUBSET S /\ IsFiniteSet(T)
  <2>1. T \in SUBSET S /\ SumOver(F, T) \notin Nat
    OBVIOUS
  <2>2. 0 \in Nat
    OBVIOUS
  <2> HIDE DEF B
  <2> QED
    BY <2>1, <2>2, SumOverEmpty, FS_Subset
<1>4. Picked(T) \in T
  BY <1>3, PickedMember
<1>5. SumOver(F, T \ {Picked(T)}) \in Nat
  BY <1>2, <1>3, <1>4
<1>6. SumOver(F, T) = F[Picked(T)] + SumOver(F, T \ {Picked(T)})
  BY <1>3, SumRecursion DEF SumStep
<1> QED
  BY <1>3, <1>4, <1>5, <1>6

\* A sum over an interval grows by its last element.
LEMMA SumOverNext ==
  ASSUME NEW F, NEW n \in Nat, \A i \in 1..(n + 1) : F[i] \in Int
  PROVE  SumOver(F, 1..(n + 1)) = SumOver(F, 1..n) + F[n + 1]
<1> DEFINE S == 1..n
           x == n + 1
<1>1. 1..(n + 1) = S \cup {x} /\ x \notin S
  OBVIOUS
<1>2. IsFiniteSet(S)
  BY FS_Interval
<1>3. \A i \in S \cup {x} : F[i] \in Int
  BY <1>1
<1> HIDE DEF S, x
<1>4. SumOver(F, S \cup {x}) = SumOver(F, S) + F[x]
  BY <1>1, <1>2, <1>3, SumOverAdd
<1> QED
  BY <1>1, <1>4 DEF S, x

\* G is the rest of the integers F once its first n are gone.
Rest(F, G, n, m) ==
    /\ \A i \in 1..(n + m) : F[i] \in Int
    /\ \A i \in 1..m : G[i] = F[n + i]

\* A sum over an interval is that of its first part and of the rest.
LEMMA SumOverSplit ==
  ASSUME NEW F, NEW G, NEW n \in Nat, NEW m \in Nat, Rest(F, G, n, m)
  PROVE  SumOver(F, 1..(n + m)) = SumOver(F, 1..n) + SumOver(G, 1..m)
<1> USE DEF Rest
<1> DEFINE Fails(k) == SumOver(F, 1..(n + k)) # SumOver(F, 1..n) + SumOver(G, 1..k)
           B == {T \in SUBSET (1..m) : \E k \in 0..m : T = 1..k /\ Fails(k)}
<1>0. IsFiniteSet(1..m) /\ B \subseteq SUBSET (1..m)
  BY FS_Interval
<1>01. \A k \in Nat : IsFiniteSet(1..k)
  BY FS_Interval
<1>1. SUFFICES ASSUME B # {} PROVE FALSE
  <2>1. 1..m \in SUBSET (1..m) /\ m \in 0..m
    OBVIOUS
  <2>2. ~Fails(m)
    <3> HIDE DEF Fails
    <3> QED
      BY <1>1, <2>1
  <2> QED
    BY <2>2
<1>2. PICK T \in B : \A U \in B : U \subseteq T => U = T
  <2> DEFINE I == 1..m
  <2>1. IsFiniteSet(I) /\ B \subseteq SUBSET I /\ B # {}
    BY <1>0, <1>1
  <2> HIDE DEF B, I
  <2> QED
    BY <2>1, LeastSubset
<1>3. PICK k \in 0..m : T = 1..k /\ Fails(k)
  OBVIOUS
<1>4. k # 0
  <2>1. SUFFICES ASSUME k = 0 PROVE FALSE
    OBVIOUS
  <2>2. 1..k = {} /\ 1..(n + k) = 1..n
    BY <2>1
  <2>3. SumOver(G, 1..k) = 0
    BY <2>2, SumOverEmpty
  <2>4. IsFiniteSet(1..n) /\ \A i \in 1..n : F[i] \in Int
    BY FS_Interval
  <2>7. SumOver(F, 1..n) \in Int
    BY <2>4, SumOverInt
  <2> QED
    BY <1>3, <2>2, <2>3, <2>7
<1>5. ~Fails(k - 1)
  <2>1. SUFFICES ASSUME Fails(k - 1) PROVE FALSE
    OBVIOUS
  <2>2. k - 1 \in 0..m /\ 1..(k - 1) \in SUBSET (1..m)
    BY <1>3, <1>4
  <2> HIDE DEF Fails
  <2>3. 1..(k - 1) \in B
    BY <2>1, <2>2
  <2>4. 1..(k - 1) = 1..k
    <3>1. 1..(k - 1) \subseteq T
      BY <1>3
    <3> HIDE DEF B
    <3> QED
      BY <1>2, <1>3, <2>3, <3>1
  <2>7. k \in 1..k /\ k \notin 1..(k - 1)
    BY <1>3, <1>4
  <2> QED
    BY <2>4, <2>7
<1>51. k \in Nat \ {0} /\ k <= m /\ k - 1 \in Nat /\ n + (k - 1) \in Nat
  BY <1>3, <1>4
<1>6. SumOver(F, 1..(n + k)) = SumOver(F, 1..(n + (k - 1))) + F[n + k]
  <2>1. n + (k - 1) + 1 = n + k
    BY <1>51
  <2>2. \A i \in 1..(n + (k - 1) + 1) : F[i] \in Int
    BY <1>51
  <2> QED
    BY <1>51, <2>1, <2>2, SumOverNext
<1>7. SumOver(G, 1..k) = SumOver(G, 1..(k - 1)) + G[k]
  <2>1. k - 1 + 1 = k
    BY <1>51
  <2>2. \A i \in 1..(k - 1 + 1) : G[i] \in Int
    BY <1>51
  <2> QED
    BY <1>51, <2>1, <2>2, SumOverNext
<1>8. SumOver(F, 1..n) \in Int /\ SumOver(G, 1..(k - 1)) \in Int /\ F[n + k] \in Int /\ G[k] = F[n + k]
  <2>1. \A i \in 1..n : F[i] \in Int
    OBVIOUS
  <2>2. \A i \in 1..(k - 1) : G[i] \in Int
    BY <1>51
  <2>3. SumOver(F, 1..n) \in Int
    BY <1>01, <2>1, SumOverInt
  <2>4. SumOver(G, 1..(k - 1)) \in Int
    BY <1>01, <1>51, <2>2, SumOverInt
  <2>7. F[n + k] \in Int /\ G[k] = F[n + k]
    BY <1>51
  <2> QED
    BY <2>3, <2>4, <2>7
<1>9. n + k - 1 = n + (k - 1)
  BY <1>51
<1>10. Fails(k) /\ SumOver(F, 1..(n + (k - 1))) = SumOver(F, 1..n) + SumOver(G, 1..(k - 1))
  BY <1>3, <1>5
<1> HIDE DEF Fails
<1>11. SumOver(F, 1..(n + k)) = SumOver(F, 1..n) + SumOver(G, 1..k)
  BY <1>6, <1>7, <1>8, <1>10
<1> QED
  BY <1>10, <1>11 DEF Fails

\* A set of naturals with a member has a least one, and Min finds it.
LEMMA MinMember ==
  ASSUME NEW n \in Nat, NEW S \in SUBSET (0..n), S # {}
  PROVE  Min(S) \in S
<1> DEFINE B == {T \in SUBSET (1..n) : \E k \in S : T = 1..k}
<1>0. IsFiniteSet(1..n) /\ B \subseteq SUBSET (1..n)
  BY FS_Interval
<1>1. B # {}
  <2>1. PICK k \in S : TRUE
    OBVIOUS
  <2>2. 1..k \in SUBSET (1..n)
    OBVIOUS
  <2> QED
    BY <2>2
<1>2. PICK T \in B : \A U \in B : U \subseteq T => U = T
  <2> DEFINE I == 1..n
  <2>1. IsFiniteSet(I) /\ B \subseteq SUBSET I /\ B # {}
    BY <1>0, <1>1
  <2> HIDE DEF B, I
  <2> QED
    BY <2>1, LeastSubset
<1>3. PICK k \in S : T = 1..k
  OBVIOUS
<1>4. \A j \in S : k <= j
  <2>1. SUFFICES ASSUME NEW j \in S, j < k PROVE FALSE
    OBVIOUS
  <2>2. 1..j \in SUBSET (1..n) /\ 1..j \subseteq 1..k
    BY <2>1
  <2>3. 1..j = 1..k
    <3>1. 1..j \in B
      BY <2>2
    <3> HIDE DEF B
    <3> QED
      BY <1>2, <1>3, <2>2, <3>1
  <2>4. k \in 1..k /\ k \notin 1..j
    BY <2>1
  <2> QED
    BY <2>3, <2>4
<1> QED
  BY <1>3, <1>4 DEF Min

\* The larger of two numbers.
LEMMA MaxOfTwo == ASSUME NEW m \in Nat, NEW n \in Nat PROVE Max({m, n}) = IF m >= n THEN m ELSE n
<1> DEFINE k == IF m >= n THEN m ELSE n
<1>1. k \in {m, n} /\ \A y \in {m, n} : k >= y
  OBVIOUS
<1>2. \A x \in {m, n} : (\A y \in {m, n} : x >= y) => x = k
  OBVIOUS
<1> HIDE DEF k
<1>3. (CHOOSE x \in {m, n} : \A y \in {m, n} : x >= y) = k
  BY <1>1, <1>2
<1> QED
  BY <1>3 DEF Max, k

\* A set of natural numbers that is not empty has a least one.
LEMMA LeastNumber ==
  ASSUME NEW T, T \subseteq Nat, T # {}
  PROVE  \E n \in T : \A m \in T : n <= m
<1>1. \E n \in T : \A m \in T : ~(<<m, n>> \in OpToRel(<, Nat))
  BY NatLessThanWellFounded, WFMin
<1>2. ASSUME NEW m \in Nat, NEW n \in Nat, m < n PROVE <<m, n>> \in OpToRel(<, Nat)
  BY <1>2 DEF OpToRel
<1>3. PICK n \in T : \A m \in T : ~(<<m, n>> \in OpToRel(<, Nat))
  BY <1>1
<1>4. \A m \in T : ~(m < n)
  BY <1>2, <1>3
<1>5. \A m \in T : m \in Nat /\ n \in Nat
  OBVIOUS
<1>6. \A m \in T : n <= m
  BY <1>4, <1>5
<1> QED
  BY <1>6
=============================================================================
