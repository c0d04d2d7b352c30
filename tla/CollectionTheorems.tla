------------------------- MODULE CollectionTheorems -------------------------
(* Lemmas about Collections, and about numbers, finite sets and loops.       *)
(*                                                                           *)
(* Sums and loops are defined by recursion.  What is proved of all finite    *)
(* sets and of all lengths is proved from a smallest counterexample.         *)
EXTENDS Collections, FiniteSetTheorems, WellFoundedInduction, TLAPS

----------------------------------------------------------------------------
\* Least numbers, smallest sets, and sums over finite sets.

(* A set of numbers that is not empty has a least one.                      *)
LEMMA Least ==
    ASSUME NEW T, T \subseteq Nat, T # {}
    PROVE  \E m \in T : \A k \in T : m <= k
<1>1. PICK R : R = OpToRel(<, Nat)
  OBVIOUS
<1>2. IsWellFoundedOn(R, Nat)
  BY <1>1, NatLessThanWellFounded
<1>3. \A x, y \in Nat : x < y => <<x, y>> \in R
  BY <1>1 DEF OpToRel
<1>4. PICK x \in T : \A y \in T : ~ (<<y, x>> \in R)
  BY <1>2, WFMin
<1>5. ASSUME NEW k \in T
      PROVE  x <= k
  <2>1. x \in Nat /\ k \in Nat
    OBVIOUS
  <2>2. ~ (k < x)
    BY <2>1, <1>3, <1>4
  <2> QED BY <2>1, <2>2
<1> QED BY <1>5

(* Among finite sets there is one with the fewest elements.                 *)
LEMMA Smallest ==
    ASSUME NEW F, F # {}, \A S \in F : IsFiniteSet(S)
    PROVE  \E S \in F : \A U \in F : Cardinality(S) <= Cardinality(U)
<1>1. \A S \in F : Cardinality(S) \in Nat
  BY FS_CardinalityType
<1>2. PICK T : T = {Cardinality(S) : S \in F}
  OBVIOUS
<1>3. T \subseteq Nat /\ T # {}
  BY <1>1, <1>2
<1>4. PICK m \in T : \A k \in T : m <= k
  BY <1>3, Least
<1> QED BY <1>2, <1>4

(* The recursive function that a sum is made of, on the subsets of S.       *)
Sums(f, S) ==
    CHOOSE iter : iter = [s \in SUBSET S |->
        IF s = {} THEN 0 ELSE LET x == CHOOSE x \in s : TRUE IN f[x] + iter[s \ {x}]]

\* The element that a fold takes first.
One(s) == CHOOSE x \in s : TRUE

\* What it is meant to be, as an equation.
SumsFit(f, S, iter) ==
    iter = [s \in SUBSET S |->
        IF s = {} THEN 0 ELSE f[One(s)] + iter[s \ {One(s)}]]

(* A fold is the last value of its recursive function.                      *)
LEMMA SumDefined ==
    ASSUME NEW f, NEW S
    PROVE  SumOver(f, S) = Sums(f, S)[S]
<1>1. PICK it : it = Sums(f, S)
  OBVIOUS
<1>2. FoldFunctionOnSet(+, 0, f, S) = MapThenFoldSet(+, 0, LAMBDA i : f[i], LAMBDA s : CHOOSE x \in s : TRUE, S)
  BY DEF FoldFunctionOnSet
<1>3. it = (CHOOSE iter : iter = [s \in SUBSET S |->
        IF s = {} THEN 0 ELSE LET x == CHOOSE x \in s : TRUE IN f[x] + iter[s \ {x}]])
  BY <1>1 DEF Sums
<1>4. MapThenFoldSet(+, 0, LAMBDA i : f[i], LAMBDA s : CHOOSE x \in s : TRUE, S) = it[S]
  BY <1>3 DEF MapThenFoldSet
<1> QED BY <1>1, <1>2, <1>4 DEF SumOver

(* If any function satisfies the equation, the chosen one does.             *)
LEMMA SumsChosen ==
    ASSUME NEW f, NEW S, NEW g, SumsFit(f, S, g)
    PROVE  SumsFit(f, S, Sums(f, S))
  BY DEF SumsFit, Sums, One

(* The element taken is one of the set.                                     *)
LEMMA Picked == ASSUME NEW s, s # {} PROVE One(s) \in s
  BY DEF One

\* Two such functions agree where both are defined.
LEMMA SumsAgree ==
    ASSUME NEW f, NEW S, IsFiniteSet(S), NEW U, U \subseteq S,
           NEW g, SumsFit(f, S, g), NEW k, SumsFit(f, U, k)
    PROVE  \A s \in SUBSET U : g[s] = k[s]
<1> SUFFICES ASSUME ~ \A s \in SUBSET U : g[s] = k[s]
             PROVE  FALSE
  OBVIOUS
<1>1. PICK F : F = {s \in SUBSET U : g[s] # k[s]}
  OBVIOUS
<1>2. \A s \in F : IsFiniteSet(s)
  BY <1>1, FS_Subset
<1>3. PICK s \in F : \A t \in F : Cardinality(s) <= Cardinality(t)
  BY <1>1, <1>2, Smallest
<1>4. s \in SUBSET U /\ s \in SUBSET S
  BY <1>1, <1>3
<1>5. s # {}
  BY <1>1, <1>3, <1>4 DEF SumsFit
<1>6. PICK x : x = One(s)
  OBVIOUS
<1>7. x \in s
  BY <1>5, <1>6, Picked
<1>8. Cardinality(s \ {x}) = Cardinality(s) - 1 /\ Cardinality(s) \in Nat
  BY <1>7, <1>2, FS_RemoveElement, FS_CardinalityType
<1>9. s \ {x} \notin F
  BY <1>3, <1>8
<1>10. g[s \ {x}] = k[s \ {x}]
  BY <1>1, <1>4, <1>9
<1>11. g[s] = f[x] + g[s \ {x}]
  BY <1>4, <1>5, <1>6 DEF SumsFit
<1>12. k[s] = f[x] + k[s \ {x}]
  BY <1>4, <1>5, <1>6 DEF SumsFit
<1> QED BY <1>1, <1>3, <1>10, <1>11, <1>12

(* On a finite set there is such a function: otherwise there is a smallest  *)
(* set without one, and the function of that set without an element can be  *)
(* extended.                                                                *)
LEMMA SumsExist ==
    ASSUME NEW f, NEW S, IsFiniteSet(S)
    PROVE  SumsFit(f, S, Sums(f, S))
<1> SUFFICES ASSUME ~ SumsFit(f, S, Sums(f, S))
             PROVE  FALSE
  OBVIOUS
<1>1. PICK F : F = {s \in SUBSET S : ~ SumsFit(f, s, Sums(f, s))}
  OBVIOUS
<1>2. S \in F /\ \A s \in F : IsFiniteSet(s)
  BY <1>1, FS_Subset
<1>3. PICK s \in F : \A t \in F : Cardinality(s) <= Cardinality(t)
  BY <1>2, Smallest
<1>4. IsFiniteSet(s) /\ s \subseteq S
  BY <1>1, <1>2, <1>3
<1>5. ASSUME NEW t \in SUBSET s, t # s
      PROVE  IsFiniteSet(t) /\ SumsFit(f, t, Sums(f, t))
  <2>1. IsFiniteSet(t) /\ Cardinality(t) <= Cardinality(s) /\ Cardinality(t) # Cardinality(s)
    BY <1>4, <1>5, FS_Subset
  <2>2. Cardinality(s) \in Nat /\ Cardinality(t) \in Nat
    BY <2>1, <1>4, FS_CardinalityType
  <2>3. t \notin F
    BY <1>3, <2>1, <2>2
  <2> QED BY <1>1, <1>4, <2>1, <2>3
<1>6. PICK g : g = [t \in SUBSET s |->
        IF t = {} THEN 0 ELSE f[One(t)] + Sums(f, t \ {One(t)})[t \ {One(t)}]]
  OBVIOUS
<1>7. ASSUME NEW t \in SUBSET s, t # s
      PROVE  g[t] = Sums(f, t)[t]
  <2>1. SumsFit(f, t, Sums(f, t)) /\ IsFiniteSet(t)
    BY <1>5, <1>7
  <2>2. CASE t = {}
    BY <1>6, <2>1, <2>2 DEF SumsFit
  <2>3. CASE t # {}
    <3>1. PICK u : u = t \ {One(t)}
      OBVIOUS
    <3>2. u \in SUBSET t /\ u # s
      BY <3>1, <1>7, <2>3, Picked
    <3>3. SumsFit(f, u, Sums(f, u))
      BY <3>2, <1>5
    <3>4. Sums(f, t)[u] = Sums(f, u)[u]
      BY <2>1, <3>2, <3>3, SumsAgree
    <3>5. Sums(f, t)[t] = f[One(t)] + Sums(f, t)[u]
      BY <2>1, <2>3, <3>1 DEF SumsFit
    <3>6. g[t] = f[One(t)] + Sums(f, u)[u]
      BY <1>6, <2>3, <3>1
    <3> QED BY <3>4, <3>5, <3>6
  <2> QED BY <2>2, <2>3
<1>8. ASSUME NEW t \in SUBSET s, t # {}
      PROVE  g[t] = f[One(t)] + g[t \ {One(t)}]
  <2>1. One(t) \in t
    BY <1>8, Picked
  <2>2. t \ {One(t)} \in SUBSET s /\ t \ {One(t)} # s
    BY <2>1
  <2> QED BY <1>6, <1>7, <1>8, <2>2
<1>9. g = [t \in SUBSET s |-> IF t = {} THEN 0 ELSE f[One(t)] + g[t \ {One(t)}]]
  BY <1>6, <1>8
<1>10. SumsFit(f, s, g)
  BY <1>9 DEF SumsFit
<1>11. SumsFit(f, s, Sums(f, s))
  BY <1>10, SumsChosen
<1> QED BY <1>1, <1>3, <1>11

(* The sum over no element is 0, and the sum over some is the value of the  *)
(* one that is chosen and the sum over the rest.                            *)
LEMMA SumOfNone ==
    ASSUME NEW f
    PROVE  SumOver(f, {}) = 0
<1>1. SumsFit(f, {}, Sums(f, {}))
  BY SumsExist, FS_EmptySet
<1> QED BY <1>1, SumDefined DEF SumsFit

(* A sum is that of the element taken first and of the rest.                *)
LEMMA SumOfChosen ==
    ASSUME NEW f, NEW S, IsFiniteSet(S), S # {}
    PROVE  SumOver(f, S) = f[One(S)] + SumOver(f, S \ {One(S)})
<1>1. PICK U : U = S \ {One(S)}
  OBVIOUS
<1>2. U \subseteq S /\ IsFiniteSet(U)
  BY <1>1, FS_Subset
<1>3. SumsFit(f, S, Sums(f, S)) /\ SumsFit(f, U, Sums(f, U))
  BY <1>2, SumsExist
<1>4. Sums(f, S)[U] = Sums(f, U)[U]
  BY <1>2, <1>3, SumsAgree
<1>5. Sums(f, S)[S] = f[One(S)] + Sums(f, S)[U]
  BY <1>1, <1>3 DEF SumsFit
<1>6. SumOver(f, S) = Sums(f, S)[S] /\ SumOver(f, U) = Sums(f, U)[U]
  BY SumDefined
<1> QED BY <1>1, <1>4, <1>5, <1>6

(* A sum of natural numbers is one.                                         *)
LEMMA SumNat ==
    ASSUME NEW f, NEW S, IsFiniteSet(S), \A x \in S : f[x] \in Nat
    PROVE  SumOver(f, S) \in Nat
<1> SUFFICES ASSUME SumOver(f, S) \notin Nat
             PROVE  FALSE
  OBVIOUS
<1>1. PICK F : F = {s \in SUBSET S : SumOver(f, s) \notin Nat}
  OBVIOUS
<1>2. F # {} /\ \A s \in F : IsFiniteSet(s)
  BY <1>1, FS_Subset
<1>3. PICK s \in F : \A t \in F : Cardinality(s) <= Cardinality(t)
  BY <1>2, Smallest
<1>4. IsFiniteSet(s) /\ s \in SUBSET S /\ s # {}
  BY <1>1, <1>2, <1>3, SumOfNone
<1>5. PICK x \in s : x = One(s)
  BY <1>4, Picked
<1>6. Cardinality(s \ {x}) = Cardinality(s) - 1 /\ Cardinality(s) \in Nat
  BY <1>4, <1>5, FS_RemoveElement, FS_CardinalityType
<1>7. SumOver(f, s \ {x}) \in Nat
  BY <1>1, <1>3, <1>4, <1>6
<1>8. SumOver(f, s) = f[x] + SumOver(f, s \ {x})
  BY <1>4, <1>5, SumOfChosen
<1>9. f[x] \in Nat
  BY <1>4, <1>5
<1> QED BY <1>1, <1>7, <1>8, <1>9

(* Any element can be taken out.                                            *)
LEMMA SumWithout ==
    ASSUME NEW f, NEW S, IsFiniteSet(S), \A x \in S : f[x] \in Nat,
           NEW y \in S
    PROVE  SumOver(f, S) = f[y] + SumOver(f, S \ {y})
<1> DEFINE Holds(s) == \A z \in s : SumOver(f, s) = f[z] + SumOver(f, s \ {z})
<1> SUFFICES ASSUME ~ Holds(S)
             PROVE  FALSE
  OBVIOUS
<1>1. PICK F : F = {s \in SUBSET S : ~ Holds(s)}
  OBVIOUS
<1>2. F # {} /\ \A s \in F : IsFiniteSet(s)
  BY <1>1, FS_Subset
<1>3. PICK s \in F : \A t \in F : Cardinality(s) <= Cardinality(t)
  BY <1>2, Smallest
<1>4. IsFiniteSet(s) /\ s \in SUBSET S /\ ~ Holds(s)
  BY <1>1, <1>2, <1>3
<1>5. PICK z \in s : SumOver(f, s) # f[z] + SumOver(f, s \ {z})
  BY <1>4
<1> HIDE DEF Holds
<1>6. PICK x \in s : x = One(s)
  BY <1>5, Picked
<1>7. SumOver(f, s) = f[x] + SumOver(f, s \ {x})
  BY <1>4, <1>6, SumOfChosen
<1>8. x # z
  BY <1>5, <1>7
<1>9. PICK t : t = s \ {x}
  OBVIOUS
<1>10. PICK u : u = s \ {z}
  OBVIOUS
<1>11. \A v \in {t, u} : v \in SUBSET S /\ IsFiniteSet(v) /\ v \notin F
  <2>1. Cardinality(t) = Cardinality(s) - 1 /\ Cardinality(u) = Cardinality(s) - 1
    BY <1>4, <1>5, <1>6, <1>9, <1>10, FS_RemoveElement
  <2>2. Cardinality(s) \in Nat
    BY <1>4, FS_CardinalityType
  <2>3. IsFiniteSet(t) /\ IsFiniteSet(u)
    BY <1>4, <1>9, <1>10, FS_Subset
  <2>4. t \notin F /\ u \notin F
    BY <2>1, <2>2, <1>3
  <2> QED BY <2>3, <2>4, <1>4, <1>9, <1>10
<1>12. SumOver(f, t) = f[z] + SumOver(f, t \ {z})
  BY <1>1, <1>8, <1>9, <1>11, <1>5 DEF Holds
<1>13. SumOver(f, u) = f[x] + SumOver(f, u \ {x})
  BY <1>1, <1>8, <1>10, <1>11, <1>6 DEF Holds
<1>14. t \ {z} = u \ {x}
  BY <1>9, <1>10
<1>15. SumOver(f, t \ {z}) \in Nat
  <2>1. IsFiniteSet(t \ {z}) /\ t \ {z} \subseteq S
    BY <1>11, FS_Subset
  <2> QED BY <2>1, SumNat
<1>16. f[x] \in Nat /\ f[z] \in Nat
  BY <1>4, <1>5, <1>6
<1>17. PICK n \in Nat : n = SumOver(f, t \ {z})
  BY <1>15
<1>18. SumOver(f, s) = f[x] + (f[z] + n)
  BY <1>7, <1>9, <1>12, <1>17
<1>19. SumOver(f, s \ {z}) = f[x] + n
  BY <1>10, <1>13, <1>14, <1>17
<1>20. f[x] + (f[z] + n) = f[z] + (f[x] + n)
  BY <1>16
<1> QED BY <1>5, <1>18, <1>19, <1>20

\* Those of A whose g is k.
OfKind(A, g, k) == {a \in A : g[a] = k}

(* Each part of a disjoint union counts once.                               *)
LEMMA SumOfCounts ==
    ASSUME NEW f, NEW K, IsFiniteSet(K), NEW A, IsFiniteSet(A), NEW g,
           \A a \in A : g[a] \in K,
           \A k \in K : f[k] = Cardinality(OfKind(A, g, k))
    PROVE  SumOver(f, K) = Cardinality(A)
<1> DEFINE Of(s) == {a \in A : g[a] \in s}
<1>0. \A k \in K : f[k] \in Nat
  <2> SUFFICES ASSUME NEW k \in K PROVE f[k] \in Nat
    OBVIOUS
  <2>1. IsFiniteSet(OfKind(A, g, k))
    BY FS_Subset DEF OfKind
  <2> QED BY <2>1, FS_CardinalityType
<1>a. \A k \in K : f[k] = Cardinality({a \in A : g[a] = k})
  BY DEF OfKind
<1>b. Of(K) = A
  OBVIOUS
<1> SUFFICES ASSUME SumOver(f, K) # Cardinality(Of(K))
             PROVE  FALSE
  BY <1>b
<1>1. PICK F : F = {s \in SUBSET K : SumOver(f, s) # Cardinality(Of(s))}
  OBVIOUS
<1>2. F # {} /\ \A s \in F : IsFiniteSet(s)
  BY <1>1, FS_Subset
<1>3. PICK s \in F : \A t \in F : Cardinality(s) <= Cardinality(t)
  BY <1>2, Smallest
<1>4. IsFiniteSet(s) /\ s \in SUBSET K /\ SumOver(f, s) # Cardinality(Of(s))
  BY <1>1, <1>2, <1>3
<1>5. s # {}
  <2>1. Of({}) = {}
    OBVIOUS
  <2> QED BY <2>1, <1>4, SumOfNone, FS_EmptySet
<1>6. PICK x \in s : x = One(s)
  BY <1>5, Picked
<1>7. PICK t : t = s \ {x}
  OBVIOUS
<1>8. IsFiniteSet(t) /\ t \in SUBSET K /\ t \notin F
  <2>1. IsFiniteSet(t) /\ Cardinality(t) = Cardinality(s) - 1 /\ Cardinality(s) \in Nat
    BY <1>4, <1>6, <1>7, FS_RemoveElement, FS_CardinalityType
  <2> QED BY <2>1, <1>3, <1>4, <1>7
<1>9. SumOver(f, t) = Cardinality(Of(t))
  BY <1>1, <1>8
<1>10. SumOver(f, s) = f[x] + SumOver(f, t)
  BY <1>4, <1>5, <1>6, <1>7, SumOfChosen
<1>11. PICK B : B = {a \in A : g[a] = x}
  OBVIOUS
<1>12. IsFiniteSet(B) /\ IsFiniteSet(Of(t))
  BY <1>11, FS_Subset
<1>13. Of(s) = B \cup Of(t) /\ B \cap Of(t) = {}
  BY <1>6, <1>7, <1>11
<1>14. Cardinality(B \cup Of(t)) = Cardinality(B) + Cardinality(Of(t)) - Cardinality(B \cap Of(t))
  BY <1>12, FS_Union
<1>15. Cardinality(Of(s)) = Cardinality(B) + Cardinality(Of(t))
  <2>1. Cardinality(B \cap Of(t)) = 0
    BY <1>13, FS_EmptySet
  <2>2. Cardinality(B) \in Nat /\ Cardinality(Of(t)) \in Nat
    BY <1>12, FS_CardinalityType
  <2> HIDE DEF Of
  <2> QED BY <2>1, <2>2, <1>13, <1>14
<1>16. f[x] = Cardinality(B)
  BY <1>4, <1>6, <1>11, <1>a
<1> HIDE DEF Of
<1> QED BY <1>4, <1>9, <1>10, <1>15, <1>16

(* A sum of at least as many and at least as great numbers is not less.     *)
LEMMA SumMonotone ==
    ASSUME NEW S, NEW T, IsFiniteSet(T), S \subseteq T, NEW f, NEW g,
           \A x \in T : g[x] \in Nat,
           \A x \in S : f[x] \in Nat /\ f[x] <= g[x]
    PROVE  SumOver(f, S) <= SumOver(g, T)
<1> DEFINE Holds(t) == SumOver(f, t \cap S) <= SumOver(g, t)
<1>0. T \cap S = S
  OBVIOUS
<1> SUFFICES ASSUME ~ Holds(T)
             PROVE  FALSE
  BY <1>0
<1>1. PICK F : F = {t \in SUBSET T : ~ Holds(t)}
  OBVIOUS
<1>2. F # {} /\ \A t \in F : IsFiniteSet(t)
  BY <1>1, FS_Subset
<1>3. PICK t \in F : \A s \in F : Cardinality(t) <= Cardinality(s)
  BY <1>2, Smallest
<1>4. IsFiniteSet(t) /\ t \in SUBSET T /\ ~ Holds(t)
  BY <1>1, <1>2, <1>3
<1>5. t # {}
  <2>1. {} \cap S = {} /\ SumOver(f, {}) = 0 /\ SumOver(g, {}) = 0
    BY SumOfNone
  <2> QED BY <2>1, <1>4
<1>6. PICK x \in t : x = One(t)
  BY <1>5, Picked
<1>7. PICK u : u = t \ {x}
  OBVIOUS
<1>8. IsFiniteSet(u) /\ u \in SUBSET T /\ u \notin F
  <2>1. IsFiniteSet(u) /\ Cardinality(u) = Cardinality(t) - 1 /\ Cardinality(t) \in Nat
    BY <1>4, <1>6, <1>7, FS_RemoveElement, FS_CardinalityType
  <2> QED BY <2>1, <1>3, <1>4, <1>7
<1>9. SumOver(f, u \cap S) <= SumOver(g, u)
  BY <1>1, <1>8
<1>10. SumOver(g, t) = g[x] + SumOver(g, u)
  BY <1>4, <1>5, <1>6, <1>7, SumOfChosen
<1>11. IsFiniteSet(t \cap S) /\ IsFiniteSet(u \cap S)
  BY <1>4, <1>8, FS_Subset
<1>12. SumOver(g, u) \in Nat /\ g[x] \in Nat
  BY <1>4, <1>6, <1>8, SumNat
<1>13. SumOver(f, u \cap S) \in Nat
  BY <1>11, SumNat
<1>14. CASE x \in S
  <2>1. (t \cap S) \ {x} = u \cap S /\ x \in t \cap S
    BY <1>7, <1>6, <1>14
  <2>2. SumOver(f, t \cap S) = f[x] + SumOver(f, (t \cap S) \ {x})
    BY <2>1, <1>11, SumWithout
  <2>3. f[x] \in Nat /\ f[x] <= g[x]
    BY <1>14
  <2>4. SumOver(f, t \cap S) = f[x] + SumOver(f, u \cap S)
    BY <2>1, <2>2
  <2>5. PICK a \in Nat : a = SumOver(f, u \cap S)
    BY <1>13
  <2>6. PICK b \in Nat : b = SumOver(g, u)
    BY <1>12
  <2>7. a <= b
    BY <2>5, <2>6, <1>9
  <2>8. SumOver(f, t \cap S) = f[x] + a /\ SumOver(g, t) = g[x] + b
    BY <2>4, <2>5, <2>6, <1>10
  <2>9. f[x] + a <= g[x] + b
    BY <2>3, <2>7, <1>12
  <2> QED BY <2>8, <2>9, <1>4
<1>15. CASE x \notin S
  <2>1. t \cap S = u \cap S
    BY <1>7, <1>15
  <2>2. SumOver(f, t \cap S) = SumOver(f, u \cap S)
    BY <2>1
  <2>3. SumOver(f, t \cap S) <= g[x] + SumOver(g, u)
    BY <2>2, <1>9, <1>12, <1>13
  <2> QED BY <2>3, <1>10, <1>4
<1> QED BY <1>14, <1>15

\* What h makes of the elements of S.
ImageOf(h, S) == {h[x] : x \in S}

(* Elements may be counted under other names.                               *)
LEMMA SumReindexed ==
    ASSUME NEW S, IsFiniteSet(S), NEW h, NEW f, NEW g,
           \A x, y \in S : h[x] = h[y] => x = y,
           \A x \in S : f[x] \in Nat /\ f[x] = g[h[x]]
    PROVE  SumOver(f, S) = SumOver(g, ImageOf(h, S))
<1> DEFINE Holds(s) == SumOver(f, s) = SumOver(g, ImageOf(h, s))
<1> SUFFICES ASSUME ~ Holds(S)
             PROVE  FALSE
  OBVIOUS
<1>1. PICK F : F = {s \in SUBSET S : ~ Holds(s)}
  OBVIOUS
<1>2. F # {} /\ \A s \in F : IsFiniteSet(s)
  BY <1>1, FS_Subset
<1>3. PICK s \in F : \A t \in F : Cardinality(s) <= Cardinality(t)
  BY <1>2, Smallest
<1>4. IsFiniteSet(s) /\ s \in SUBSET S /\ ~ Holds(s)
  BY <1>1, <1>2, <1>3
<1>5. s # {}
  <2>1. ImageOf(h, {}) = {}
    BY DEF ImageOf
  <2>2. SumOver(f, {}) = 0 /\ SumOver(g, {}) = 0
    BY SumOfNone
  <2> QED BY <2>1, <2>2, <1>4
<1>6. PICK x \in s : x = One(s)
  BY <1>5, Picked
<1>7. PICK t : t = s \ {x}
  OBVIOUS
<1>8. IsFiniteSet(t) /\ t \in SUBSET S /\ t \notin F
  <2>1. IsFiniteSet(t) /\ Cardinality(t) = Cardinality(s) - 1 /\ Cardinality(s) \in Nat
    BY <1>4, <1>6, <1>7, FS_RemoveElement, FS_CardinalityType
  <2> QED BY <2>1, <1>3, <1>4, <1>7
<1>9. SumOver(f, t) = SumOver(g, ImageOf(h, t))
  BY <1>1, <1>8
<1>10. SumOver(f, s) = f[x] + SumOver(f, t)
  BY <1>4, <1>5, <1>6, <1>7, SumOfChosen
<1>11. PICK I : I = ImageOf(h, s)
  OBVIOUS
<1>12. h[x] \in I /\ I \ {h[x]} = ImageOf(h, t)
  BY <1>4, <1>6, <1>7, <1>11 DEF ImageOf
<1>13. IsFiniteSet(I)
  <2>1. PICK k : k = [y \in s |-> h[y]]
    OBVIOUS
  <2>2. k \in Surjection(s, I)
    BY <2>1, <1>11 DEF Surjection, ImageOf
  <2> QED BY <2>2, <1>4, FS_Surjection
<1>14. \A y \in I : g[y] \in Nat
  BY <1>4, <1>11 DEF ImageOf
<1>15. SumOver(g, I) = g[h[x]] + SumOver(g, I \ {h[x]})
  BY <1>12, <1>13, <1>14, SumWithout
<1>16. f[x] = g[h[x]]
  BY <1>4, <1>6
<1>17. SumOver(g, I) = f[x] + SumOver(f, t)
  BY <1>9, <1>12, <1>15, <1>16
<1> QED BY <1>4, <1>10, <1>11, <1>17

----------------------------------------------------------------------------
\* Orders.

\* The elements of S have numbers of their own.
Numbered(S, number) ==
    /\ \A x \in S : number[x] \in Nat
    /\ \A x, y \in S : number[x] = number[y] => x = y

\* rows lists S by these numbers.
IsOrder(S, number, rows) ==
    /\ rows \in [1..Cardinality(S) -> S]
    /\ \A i, j \in DOMAIN rows : i < j => number[rows[i]] < number[rows[j]]

(* Of finitely many elements one comes last.                                *)
LEMMA LastOne ==
    ASSUME NEW S, IsFiniteSet(S), S # {}, NEW number, Numbered(S, number)
    PROVE  \E p \in S : \A o \in S : o # p => number[o] < number[p]
<1> DEFINE HasLast(s) == \E p \in s : \A o \in s : o # p => number[o] < number[p]
<1> SUFFICES ASSUME ~ HasLast(S)
             PROVE  FALSE
  OBVIOUS
<1>1. PICK F : F = {s \in SUBSET S : s # {} /\ ~ HasLast(s)}
  OBVIOUS
<1>2. F # {} /\ \A s \in F : IsFiniteSet(s)
  BY <1>1, FS_Subset
<1>3. PICK s \in F : \A t \in F : Cardinality(s) <= Cardinality(t)
  BY <1>2, Smallest
<1>4. IsFiniteSet(s) /\ s \in SUBSET S /\ s # {} /\ ~ HasLast(s)
  BY <1>1, <1>2, <1>3
<1>5. PICK x : x \in s
  BY <1>4
<1>6. PICK t : t = s \ {x}
  OBVIOUS
<1>7. t \in SUBSET S /\ t \notin F
  <2>1. Cardinality(t) = Cardinality(s) - 1 /\ Cardinality(s) \in Nat
    BY <1>4, <1>5, <1>6, FS_RemoveElement, FS_CardinalityType
  <2> QED BY <2>1, <1>3, <1>4, <1>6
<1>8. \A y \in s : number[y] \in Nat
  BY <1>4 DEF Numbered
<1>9. t # {}
  BY <1>4, <1>5, <1>6
<1>10. PICK p \in t : \A o \in t : o # p => number[o] < number[p]
  BY <1>1, <1>7, <1>9
<1>11. number[x] # number[p]
  BY <1>4, <1>5, <1>6, <1>10 DEF Numbered
<1>12. CASE number[x] < number[p]
  <2>1. \A o \in s : o # p => number[o] < number[p]
    BY <1>6, <1>10, <1>12
  <2> QED BY <2>1, <1>4, <1>6, <1>10
<1>13. CASE number[p] < number[x]
  <2>1. ASSUME NEW o \in s, o # x
        PROVE  number[o] < number[x]
    <3>1. o = p \/ number[o] < number[p]
      BY <2>1, <1>6, <1>10
    <3> QED BY <3>1, <1>5, <1>6, <1>8, <1>10, <1>13
  <2> QED BY <2>1, <1>4, <1>5
<1> QED BY <1>5, <1>6, <1>8, <1>10, <1>11, <1>12, <1>13

(* Finitely many elements can be listed in their order.                     *)
LEMMA OrderExists ==
    ASSUME NEW S, IsFiniteSet(S), NEW number, Numbered(S, number)
    PROVE  \E rows : IsOrder(S, number, rows)
<1> DEFINE Listed(s) == \E rows : IsOrder(s, number, rows)
<1> SUFFICES ASSUME ~ Listed(S)
             PROVE  FALSE
  OBVIOUS
<1>1. PICK F : F = {s \in SUBSET S : ~ Listed(s)}
  OBVIOUS
<1>2. F # {} /\ \A s \in F : IsFiniteSet(s)
  BY <1>1, FS_Subset
<1>3. PICK s \in F : \A t \in F : Cardinality(s) <= Cardinality(t)
  BY <1>2, Smallest
<1>4. IsFiniteSet(s) /\ s \subseteq S /\ ~ Listed(s)
  BY <1>1, <1>2, <1>3
<1>5. s # {}
  <2>1. PICK rows : rows = [i \in 1..0 |-> {}]
    OBVIOUS
  <2>2. IsOrder({}, number, rows)
    BY <2>1, FS_EmptySet DEF IsOrder
  <2> QED BY <2>2, <1>4
<1>6. PICK p \in s : \A o \in s : o # p => number[o] < number[p]
  <2>1. Numbered(s, number)
    BY <1>4 DEF Numbered
  <2> QED BY <2>1, <1>4, <1>5, LastOne
<1>7. PICK t : t = s \ {p}
  OBVIOUS
<1>8. PICK n \in Nat : n = Cardinality(t) /\ Cardinality(s) = n + 1
  <2>1. Cardinality(s) \in Nat /\ IsFiniteSet(t) /\ Cardinality(t) = Cardinality(s) - 1
    BY <1>4, <1>6, <1>7, FS_RemoveElement, FS_CardinalityType
  <2>2. Cardinality(t) \in Nat
    BY <2>1, FS_CardinalityType
  <2> QED BY <2>1, <2>2
<1>9. t \notin F /\ t \subseteq S
  <2>1. t \subseteq S /\ ~ (Cardinality(s) <= Cardinality(t))
    BY <1>4, <1>7, <1>8
  <2> QED BY <2>1, <1>3
<1>10. PICK rows : IsOrder(t, number, rows)
  BY <1>1, <1>9
<1>11. PICK more : more = [i \in 1..(n + 1) |-> IF i = n + 1 THEN p ELSE rows[i]]
  OBVIOUS
<1>12. rows \in [1..n -> t]
  BY <1>8, <1>10 DEF IsOrder
<1>13. more \in [1..(n + 1) -> s]
  BY <1>7, <1>11, <1>12
<1>14. ASSUME NEW i \in 1..(n + 1), NEW j \in 1..(n + 1), i < j
       PROVE  number[more[i]] < number[more[j]]
  <2>1. CASE j = n + 1
    <3>1. i \in 1..n
      BY <1>14, <2>1
    <3>2. more[i] = rows[i] /\ more[j] = p /\ rows[i] \in t
      BY <3>1, <2>1, <1>11, <1>12, <1>8
    <3> QED BY <3>2, <1>6, <1>7
  <2>2. CASE j # n + 1
    <3>1. i \in 1..n /\ j \in 1..n
      BY <1>14, <2>2
    <3>2. more[i] = rows[i] /\ more[j] = rows[j]
      BY <3>1, <1>8, <1>11
    <3>3. number[rows[i]] < number[rows[j]]
      BY <3>1, <1>10, <1>12, <1>14 DEF IsOrder
    <3> QED BY <3>2, <3>3
  <2> QED BY <2>1, <2>2
<1>15. IsOrder(s, number, more)
  BY <1>8, <1>13, <1>14 DEF IsOrder
<1> QED BY <1>4, <1>15

(* How many numbers there are from one to another.                          *)
LEMMA IntervalCount ==
    ASSUME NEW a \in Int, NEW b \in Int, a <= b + 1
    PROVE  IsFiniteSet(a..b) /\ Cardinality(a..b) = b - a + 1
<1>1. Cardinality(a..b) = IF a > b THEN 0 ELSE b - a + 1
  BY FS_Interval
<1>2. IsFiniteSet(a..b)
  BY FS_Interval
<1> QED BY <1>1, <1>2

\* The elements before x, and those behind it.
Before(S, number, x) == {o \in S : number[o] < number[x]}
Behind(S, number, x) == {o \in S : number[o] > number[x]}

(* A list in order has everybody, once, with as many before and behind them *)
(* as it has rows there.                                                    *)
LEMMA OrderPlaces ==
    ASSUME NEW S, IsFiniteSet(S), NEW number, Numbered(S, number),
           NEW rows, IsOrder(S, number, rows), NEW n \in Nat, n = Cardinality(S)
    PROVE  /\ \A j, k \in 1..n : number[rows[j]] < number[rows[k]] <=> j < k
           /\ \A p \in S : \E i \in 1..n : rows[i] = p
           /\ \A i \in 1..n :
                 /\ Cardinality(Before(S, number, rows[i])) = i - 1
                 /\ Cardinality(Behind(S, number, rows[i])) = n - i
<1>1. rows \in [1..n -> S] /\ \A i, j \in 1..n : i < j => number[rows[i]] < number[rows[j]]
  BY DEF IsOrder
<1>2. \A p \in S : number[p] \in Nat
  BY DEF Numbered
<1>3. ASSUME NEW j \in 1..n, NEW k \in 1..n
      PROVE  /\ number[rows[j]] < number[rows[k]] <=> j < k
             /\ rows[j] = rows[k] => j = k
  <2>1. number[rows[j]] \in Nat /\ number[rows[k]] \in Nat
    BY <1>1, <1>2
  <2>2. j < k => number[rows[j]] < number[rows[k]]
    BY <1>1
  <2>3. k < j => number[rows[k]] < number[rows[j]]
    BY <1>1
  <2>4. k = j => number[rows[k]] = number[rows[j]]
    OBVIOUS
  <2> QED BY <2>1, <2>2, <2>3, <2>4
<1>4. \A p \in S : \E i \in 1..n : rows[i] = p
  <2>1. rows \in Injection(1..n, S)
    BY <1>1, <1>3 DEF Injection, IsInjective
  <2>2. Cardinality(1..n) = n
    BY FS_Interval
  <2>3. rows \in Surjection(1..n, S)
    BY <2>1, <2>2, FS_Injection
  <2> QED BY <2>3 DEF Surjection
<1>5. ASSUME NEW i \in 1..n
      PROVE  Cardinality(Before(S, number, rows[i])) = i - 1
  <2>1. PICK B : B = {o \in S : number[o] < number[rows[i]]}
    OBVIOUS
  <2>2. PICK f : f = [j \in 1..(i - 1) |-> rows[j]]
    OBVIOUS
  <2>3. \A j \in 1..(i - 1) : j \in 1..n /\ rows[j] \in B
    BY <1>1, <1>3, <1>5, <2>1
  <2>4. \A o \in B : \E j \in 1..(i - 1) : rows[j] = o
    <3> SUFFICES ASSUME NEW o \in B
                 PROVE  \E j \in 1..(i - 1) : rows[j] = o
      OBVIOUS
    <3>1. PICK j \in 1..n : rows[j] = o
      BY <1>4, <2>1
    <3>2. j < i
      BY <3>1, <2>1, <1>5, <1>3
    <3> QED BY <3>1, <3>2, <1>5
  <2>5. \A j, k \in 1..(i - 1) : rows[j] = rows[k] => j = k
    BY <1>3, <2>3
  <2>6. f \in Bijection(1..(i - 1), B)
    BY <2>2, <2>3, <2>4, <2>5 DEF Bijection, Injection, Surjection, IsInjective
  <2>7. IsFiniteSet(1..(i - 1)) /\ Cardinality(1..(i - 1)) = i - 1
    <3>1. PICK k \in Nat : k = i - 1
      BY <1>5
    <3>2. IsFiniteSet(1..k)
      BY FS_Interval
    <3>3. Cardinality(1..k) = k
      BY FS_Interval
    <3> QED BY <3>1, <3>2, <3>3
  <2>8. Cardinality(B) = i - 1
    BY <2>6, <2>7, FS_Bijection DEF ExistsBijection
  <2> QED BY <2>1, <2>8 DEF Before
<1>6. ASSUME NEW i \in 1..n
      PROVE  Cardinality(Behind(S, number, rows[i])) = n - i
  <2>1. PICK B : B = {o \in S : number[o] > number[rows[i]]}
    OBVIOUS
  <2>2. PICK f : f = [j \in (i + 1)..n |-> rows[j]]
    OBVIOUS
  <2>3. \A j \in (i + 1)..n : j \in 1..n /\ rows[j] \in B
    <3> SUFFICES ASSUME NEW j \in (i + 1)..n
                 PROVE  j \in 1..n /\ rows[j] \in B
      OBVIOUS
    <3>1. j \in 1..n /\ i < j
      BY <1>6
    <3>2. number[rows[i]] < number[rows[j]]
      BY <3>1, <1>1, <1>6
    <3>3. number[rows[i]] \in Nat /\ number[rows[j]] \in Nat /\ rows[j] \in S
      BY <3>1, <1>1, <1>2, <1>6
    <3> QED BY <3>1, <3>2, <3>3, <2>1
  <2>4. \A o \in B : \E j \in (i + 1)..n : rows[j] = o
    <3> SUFFICES ASSUME NEW o \in B
                 PROVE  \E j \in (i + 1)..n : rows[j] = o
      OBVIOUS
    <3>1. PICK j \in 1..n : rows[j] = o
      BY <1>4, <2>1
    <3>2. number[rows[i]] < number[rows[j]]
      BY <3>1, <2>1, <1>1, <1>2, <1>6
    <3>3. i < j
      BY <3>2, <1>6, <1>3
    <3> QED BY <3>1, <3>3, <1>6
  <2>5. \A j, k \in (i + 1)..n : rows[j] = rows[k] => j = k
    BY <1>3, <2>3
  <2>6. f \in Bijection((i + 1)..n, B)
    BY <2>2, <2>3, <2>4, <2>5 DEF Bijection, Injection, Surjection, IsInjective
  <2>7. IsFiniteSet((i + 1)..n) /\ Cardinality((i + 1)..n) = n - i
    <3>1. PICK k \in 1..(n + 1) : k = i + 1
      BY <1>6
    <3>2. IsFiniteSet(k..n)
      BY FS_Interval
    <3>3. Cardinality(k..n) = n - k + 1
      BY FS_Interval
    <3> QED BY <3>1, <3>2, <3>3, <1>6
  <2>8. Cardinality(B) = n - i
    BY <2>6, <2>7, FS_Bijection DEF ExistsBijection
  <2> QED BY <2>1, <2>8 DEF Behind
<1> QED BY <1>3, <1>4, <1>5, <1>6

(* InOrder is such a list.                                                  *)
LEMMA InOrderLists ==
    ASSUME NEW S, IsFiniteSet(S), NEW number, Numbered(S, number)
    PROVE  IsOrder(S, number, InOrder(S, number))
<1>1. PICK n \in Nat : n = Cardinality(S)
  BY FS_CardinalityType
<1>2. PICK rows : IsOrder(S, number, rows)
  BY OrderExists
<1>3. rows \in [1..n -> S]
  BY <1>1, <1>2 DEF IsOrder
<1>4. \A i \in 1..n : Cardinality(Before(S, number, rows[i])) = i - 1
  BY <1>1, <1>2, OrderPlaces
<1>5. \A p \in S : \E i \in 1..n : rows[i] = p
  BY <1>1, <1>2, OrderPlaces
<1>6. ASSUME NEW i \in 1..n
      PROVE  rows[i] = CHOOSE x \in S : Cardinality(Before(S, number, x)) = i - 1
  <2>1. ASSUME NEW x \in S, Cardinality(Before(S, number, x)) = i - 1
        PROVE  x = rows[i]
    <3>1. PICK k \in 1..n : rows[k] = x
      BY <1>5
    <3>2. k - 1 = i - 1
      BY <3>1, <2>1, <1>4
    <3> QED BY <3>1, <3>2
  <2>2. rows[i] \in S
    BY <1>3
  <2> QED BY <2>1, <2>2, <1>4
<1>7. InOrder(S, number) = [i \in 1..n |-> rows[i]]
  <2>1. InOrder(S, number) =
            [i \in 1..n |-> CHOOSE x \in S : Cardinality(Before(S, number, x)) = i - 1]
    BY <1>1 DEF InOrder, Before
  <2> QED BY <2>1, <1>6
<1>8. rows = [i \in 1..n |-> rows[i]]
  BY <1>3
<1> QED BY <1>2, <1>7, <1>8

(* The numbers from a to b in their order.                                  *)
LEMMA AscendingInterval ==
    ASSUME NEW a \in Nat, NEW b \in Int, a <= b + 1
    PROVE  Ascending(a..b) = [i \in 1..(b - a + 1) |-> a + i - 1]
<1>1. PICK S : S = a..b
  OBVIOUS
<1>2. IsFiniteSet(S) /\ Cardinality(S) = b - a + 1
  BY <1>1, IntervalCount
<1>3. PICK n \in Nat : n = b - a + 1
  OBVIOUS
<1>4. PICK number : number = [k \in S |-> k]
  OBVIOUS
<1>5. Numbered(S, number)
  BY <1>1, <1>4 DEF Numbered
<1>6. PICK rows : rows = InOrder(S, number)
  OBVIOUS
<1>7. IsOrder(S, number, rows)
  BY <1>2, <1>5, <1>6, InOrderLists
<1>8. rows \in [1..n -> S]
  BY <1>2, <1>3, <1>7 DEF IsOrder
<1>9. ASSUME NEW i \in 1..n
      PROVE  rows[i] = a + i - 1
  <2>1. PICK x \in S : x = rows[i]
    BY <1>8
  <2>2. Cardinality(Before(S, number, x)) = i - 1
    BY <1>2, <1>3, <1>5, <1>7, <2>1, OrderPlaces
  <2>3. Before(S, number, x) = a..(x - 1)
    BY <1>1, <1>4, <2>1 DEF Before
  <2>4. x \in Int /\ a <= x
    BY <1>1, <2>1
  <2>5. PICK y \in Int : y = x - 1 /\ a <= y + 1
    BY <2>4
  <2>6. Cardinality(a..y) = y - a + 1
    BY <2>5, IntervalCount
  <2>7. Cardinality(a..(x - 1)) = x - a
    BY <2>4, <2>5, <2>6
  <2>8. x - a = i - 1
    BY <2>2, <2>3, <2>7
  <2> QED BY <2>1, <2>4, <2>8
<1>10. rows = [i \in 1..n |-> a + i - 1]
  BY <1>8, <1>9
<1>11. Ascending(a..b) = rows
  BY <1>1, <1>4, <1>6 DEF Ascending
<1> QED BY <1>3, <1>10, <1>11

(* A finite set of numbers has a greatest one.                              *)
LEMMA Greatest ==
    ASSUME NEW S, IsFiniteSet(S), S # {}, S \subseteq Nat
    PROVE  \E m \in S : \A k \in S : m >= k
<1>1. PICK number : number = [k \in S |-> k]
  OBVIOUS
<1>2. Numbered(S, number)
  BY <1>1 DEF Numbered
<1>3. PICK m \in S : \A k \in S : k # m => number[k] < number[m]
  BY <1>2, LastOne
<1>4. \A k \in S : m >= k
  BY <1>1, <1>3
<1> QED BY <1>4

----------------------------------------------------------------------------
\* Loops.

\* it[n] is the value after n turns of a loop.
IsLoop(it, N, V, base, next) ==
    /\ it \in [0..N -> V]
    /\ it[0] = base
    /\ \A n \in 1..N : it[n] = next[n][it[n - 1]]

(* A loop that goes from one value in V to the next has a value after each  *)
(* of its turns.                                                            *)
LEMMA LoopExists ==
    ASSUME NEW N \in Nat, NEW V, NEW base \in V, NEW next \in [1..N -> [V -> V]]
    PROVE  \E it : IsLoop(it, N, V, base, next)
<1> DEFINE Fits(it, m) ==
               it \in [0..m -> V] /\ it[0] = base /\ \A n \in 1..m : it[n] = next[n][it[n - 1]]
<1> SUFFICES ASSUME ~ \E it : Fits(it, N)
             PROVE  FALSE
  BY DEF IsLoop
<1>1. PICK F : F = {m \in 0..N : ~ \E it : Fits(it, m)}
  OBVIOUS
<1>2. F \subseteq Nat /\ N \in F
  BY <1>1
<1>3. PICK m \in F : \A k \in F : m <= k
  BY <1>2, Least
<1>4. m \in 0..N /\ ~ \E it : Fits(it, m)
  BY <1>1, <1>3
<1>5. m # 0
  <2>1. PICK it : it = [n \in 0..0 |-> base]
    OBVIOUS
  <2>2. Fits(it, 0)
    BY <2>1
  <2> QED BY <2>2, <1>4
<1>6. m - 1 \in 0..N /\ m - 1 \notin F
  BY <1>3, <1>4, <1>5
<1>7. PICK it : Fits(it, m - 1)
  BY <1>1, <1>6
<1>8. PICK last : last = next[m][it[m - 1]]
  OBVIOUS
<1>a. m \in Nat /\ m >= 1
  BY <1>4, <1>5
<1>b. /\ it \in [0..(m - 1) -> V] /\ it[0] = base
      /\ \A n \in 1..(m - 1) : it[n] = next[n][it[n - 1]]
  BY <1>7 DEF Fits
<1>9. it[m - 1] \in V
  BY <1>a, <1>b
<1> HIDE DEF Fits
<1>10. last \in V
  BY <1>a, <1>4, <1>8, <1>9
<1>11. PICK more : more = [n \in 0..m |-> IF n = m THEN last ELSE it[n]]
  OBVIOUS
<1>12. \A n \in 0..(m - 1) : more[n] = it[n]
  BY <1>a, <1>11
<1>13. more \in [0..m -> V]
  <2>1. \A n \in 0..m : more[n] \in V
    <3> SUFFICES ASSUME NEW n \in 0..m PROVE more[n] \in V
      OBVIOUS
    <3>1. CASE n = m
      BY <3>1, <1>10, <1>11
    <3>2. CASE n # m
      BY <3>2, <1>a, <1>b, <1>11
    <3> QED BY <3>1, <3>2
  <2> QED BY <2>1, <1>11
<1>14. more[0] = base
  BY <1>a, <1>b, <1>12
<1>15. ASSUME NEW n \in 1..m
       PROVE  more[n] = next[n][more[n - 1]]
  <2>1. more[n - 1] = it[n - 1]
    BY <1>a, <1>12, <1>15
  <2>2. CASE n = m
    BY <2>1, <2>2, <1>8, <1>11
  <2>3. CASE n # m
    <3>1. n \in 1..(m - 1)
      BY <2>3, <1>a, <1>15
    <3>2. it[n] = next[n][it[n - 1]] /\ more[n] = it[n]
      BY <3>1, <1>b, <1>12
    <3> QED BY <3>2, <2>1
  <2> QED BY <2>2, <2>3
<1>16. Fits(more, m)
  BY <1>13, <1>14, <1>15 DEF Fits
<1> QED BY <1>4, <1>16

----------------------------------------------------------------------------
\* Quotients.

(* Quotient and remainder.                                                  *)
LEMMA Division ==
    ASSUME NEW a \in Nat, NEW k \in Nat, k >= 1
    PROVE  a \div k \in Nat /\ a % k \in 0..(k - 1) /\ a = k * (a \div k) + (a % k)
  OBVIOUS

(* They are unique.                                                         *)
LEMMA Quotient ==
    ASSUME NEW k \in Nat, k >= 1, NEW q \in Nat, NEW r \in 0..(k - 1),
           NEW a \in Nat, a = q * k + r
    PROVE  a \div k = q /\ a % k = r
  OBVIOUS
=============================================================================
