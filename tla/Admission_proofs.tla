--------------------------- MODULE Admission_proofs ---------------------------
(***************************************************************************)
(* Proofs about what a deployment passes before it is queued.               *)
(*                                                                         *)
(* Capacity, for every set of deployments and projects, every size and every*)
(* limit: the types, that the memory and the disk of a VPS are never        *)
(* promised beyond the reserve, and that an owner never has more active     *)
(* projects than the limit.  The sums are folds over finite sets; what they *)
(* give is proved from a smallest counterexample among the subsets, which   *)
(* exists because strict inclusion is well-founded on a finite set.         *)
(*                                                                         *)
(* WebhookPush, for every number of pushes and deliveries and every choice  *)
(* of faults: the types with the ownership of the lock, that a push starts  *)
(* at most one deployment, and that the last commit goes live.              *)
(***************************************************************************)
EXTENDS Capacity, WebhookPush, FiniteSetTheorems, WellFoundedInduction, TLAPS

------------------------------------------------------------------------------
(* Sums over finite sets: what a fold of addition gives.                   *)

Any(s) == CHOOSE x \in s : TRUE

(* The recursion behind the sum of f over the subsets of S. *)
Adds(f, S, g) == g = [s \in SUBSET S |-> IF s = {} THEN 0 ELSE f[Any(s)] + g[s \ {Any(s)}]]

Sum(f, S) == (CHOOSE g : Adds(f, S, g))[S]

(* A set of subsets of a finite set has a smallest member. *)
LEMMA SmallestSubset ==
  ASSUME NEW D, IsFiniteSet(D), NEW T \in SUBSET SUBSET D, T # {}
  PROVE  \E s \in T : \A t \in T : t \subseteq s => t = s
  <1>1. IsWellFoundedOn(StrictSubsetOrdering(D), SUBSET D)
    BY FS_StrictSubsetOrderingWellFounded, FS_FiniteSubsetsOfFinite
  <1>2. \E s \in T : \A t \in T : ~(<<t, s>> \in StrictSubsetOrdering(D))
    BY <1>1, WFMin
  <1> QED
    BY <1>2 DEF StrictSubsetOrdering

(* The element the fold takes first. *)
LEMMA AnyIsMember == ASSUME NEW s, s # {} PROVE Any(s) \in s
  BY DEF Any

(* One step of the recursion. *)
LEMMA AddsStep ==
  ASSUME NEW f, NEW S, NEW g, Adds(f, S, g), NEW s \in SUBSET S
  PROVE  /\ s = {} => g[s] = 0
         /\ s # {} => g[s] = f[Any(s)] + g[s \ {Any(s)}]
  <1> DEFINE h == [t \in SUBSET S |-> IF t = {} THEN 0 ELSE f[Any(t)] + g[t \ {Any(t)}]]
  <1>1. h[s] = IF s = {} THEN 0 ELSE f[Any(s)] + g[s \ {Any(s)}]
    OBVIOUS
  <1>2. g = h
    BY DEF Adds
  <1> QED
    BY <1>1, <1>2

(* There is one such recursion .. *)
LEMMA AddsAgree ==
  ASSUME NEW f, NEW S, NEW T, IsFiniteSet(S), T \subseteq S, NEW g, Adds(f, S, g), NEW h, Adds(f, T, h)
  PROVE  g[T] = h[T]
  <1> DEFINE Bad == {t \in SUBSET T : g[t] # h[t]}
  <1> SUFFICES ASSUME Bad # {} PROVE FALSE
    OBVIOUS
  <1>1. PICK s \in Bad : \A t \in Bad : t \subseteq s => t = s
    <2>1. Bad \in SUBSET SUBSET T /\ IsFiniteSet(T)
      BY FS_Subset
    <2> HIDE DEF Bad
    <2> QED
      BY <2>1, SmallestSubset
  <1>2. s \subseteq T /\ s \subseteq S
    OBVIOUS
  <1>3. s # {}
    BY <1>2, AddsStep
  <1>4. Any(s) \in s
    BY <1>3, AnyIsMember
  <1>5. g[s \ {Any(s)}] = h[s \ {Any(s)}]
    BY <1>1, <1>2, <1>4
  <1>6. g[s] = f[Any(s)] + g[s \ {Any(s)}] /\ h[s] = f[Any(s)] + h[s \ {Any(s)}]
    BY <1>2, <1>3, AddsStep
  <1> QED
    BY <1>5, <1>6

(* .. and, over a finite set, there is one. *)
LEMMA AddsExists ==
  ASSUME NEW f, NEW D, IsFiniteSet(D)
  PROVE  \E g : Adds(f, D, g)
  <1> DEFINE Bad == {s \in SUBSET D : ~\E g : Adds(f, s, g)}
  <1> SUFFICES ASSUME Bad # {} PROVE FALSE
    OBVIOUS
  <1>1. PICK s \in Bad : \A t \in Bad : t \subseteq s => t = s
    <2>1. Bad \in SUBSET SUBSET D
      OBVIOUS
    <2> HIDE DEF Bad
    <2> QED
      BY <2>1, SmallestSubset
  <1>2. s \subseteq D /\ IsFiniteSet(s) /\ ~\E g : Adds(f, s, g)
    BY FS_Subset
  <1>3. ASSUME NEW t \in SUBSET s, t # s
        PROVE  /\ \E g : Adds(f, t, g)
               /\ t = {} => Sum(f, t) = 0
               /\ t # {} => Sum(f, t) = f[Any(t)] + Sum(f, t \ {Any(t)})
    <2>1. \A u \in SUBSET t : \E g : Adds(f, u, g)
      BY <1>1, <1>2, <1>3
    <2> DEFINE G(u) == CHOOSE g : Adds(f, u, g)
    <2>2. \A u \in SUBSET t : Adds(f, u, G(u)) /\ Sum(f, u) = G(u)[u]
      BY <2>1 DEF Sum
    <2> HIDE DEF G
    <2>3. \A u \in SUBSET t : G(t)[u] = G(u)[u]
      BY <1>2, <1>3, <2>2, AddsAgree, FS_Subset
    <2>4. t # {} => Any(t) \in t
      BY AnyIsMember
    <2>5. /\ t = {} => G(t)[t] = 0
          /\ t # {} => G(t)[t] = f[Any(t)] + G(t)[t \ {Any(t)}]
      BY <2>2, AddsStep
    <2> QED
      BY <2>1, <2>2, <2>3, <2>4, <2>5
  <1> DEFINE Top == IF s = {} THEN 0 ELSE f[Any(s)] + Sum(f, s \ {Any(s)})
  <1> DEFINE h == [t \in SUBSET s |-> IF t = s THEN Top ELSE Sum(f, t)]
  <1>4. ASSUME NEW t \in SUBSET s
        PROVE  h[t] = IF t = {} THEN 0 ELSE f[Any(t)] + h[t \ {Any(t)}]
    <2>1. t # {} => Any(t) \in t /\ t \ {Any(t)} # s /\ t \ {Any(t)} \in SUBSET s
      BY AnyIsMember
    <2>2. t # {} => h[t \ {Any(t)}] = Sum(f, t \ {Any(t)})
      BY <2>1
    <2>3. CASE t = s
      BY <2>2, <2>3
    <2>4. CASE t # s
      <3>1. h[t] = Sum(f, t)
        BY <2>4
      <3> HIDE DEF h
      <3> QED
        BY <1>3, <2>2, <2>4, <3>1
    <2> QED
      BY <2>3, <2>4
  <1>5. Adds(f, s, h)
    <2>1. h = [t \in SUBSET s |-> h[t]]
      OBVIOUS
    <2> HIDE DEF h
    <2>2. h = [t \in SUBSET s |-> IF t = {} THEN 0 ELSE f[Any(t)] + h[t \ {Any(t)}]]
      BY <1>4, <2>1
    <2> QED
      BY <2>2 DEF Adds
  <1> HIDE DEF h
  <1> QED
    BY <1>2, <1>5

(* The sum over no element is zero, and each element adds its share, starting with
   the one that the fold chooses.                                          *)
LEMMA SumUnfolds ==
  ASSUME NEW f, NEW S, IsFiniteSet(S)
  PROVE  /\ S = {} => Sum(f, S) = 0
         /\ S # {} => Any(S) \in S /\ Sum(f, S) = f[Any(S)] + Sum(f, S \ {Any(S)})
  <1> DEFINE G(u) == CHOOSE g : Adds(f, u, g)
  <1>1. \A u \in SUBSET S : Adds(f, u, G(u)) /\ Sum(f, u) = G(u)[u]
    BY AddsExists, FS_Subset DEF Sum
  <1> HIDE DEF G
  <1>2. \A u \in SUBSET S : G(S)[u] = Sum(f, u)
    BY <1>1, AddsAgree
  <1>3. S # {} => Any(S) \in S
    BY AnyIsMember
  <1>4. /\ S = {} => G(S)[S] = 0
        /\ S # {} => G(S)[S] = f[Any(S)] + G(S)[S \ {Any(S)}]
    BY <1>1, AddsStep
  <1> QED
    BY <1>2, <1>3, <1>4

(* A sum of natural numbers is one. *)
LEMMA SumType ==
  ASSUME NEW f, NEW S, IsFiniteSet(S), \A x \in S : f[x] \in Nat
  PROVE  Sum(f, S) \in Nat
  <1> DEFINE Bad == {s \in SUBSET S : Sum(f, s) \notin Nat}
  <1> SUFFICES ASSUME Bad # {} PROVE FALSE
    OBVIOUS
  <1>1. PICK s \in Bad : \A t \in Bad : t \subseteq s => t = s
    <2>1. Bad \in SUBSET SUBSET S
      OBVIOUS
    <2> HIDE DEF Bad
    <2> QED
      BY <2>1, SmallestSubset
  <1>2. s \subseteq S /\ IsFiniteSet(s) /\ Sum(f, s) \notin Nat
    BY FS_Subset
  <1>3. s # {}
    <2>1. s = {} => Sum(f, s) = 0
      BY <1>2, SumUnfolds
    <2> QED
      BY <1>2, <2>1
  <1>4. Any(s) \in s /\ Sum(f, s) = f[Any(s)] + Sum(f, s \ {Any(s)})
    BY <1>2, <1>3, SumUnfolds
  <1>5. Sum(f, s \ {Any(s)}) \in Nat
    BY <1>1, <1>2, <1>4
  <1>6. f[Any(s)] \in Nat
    BY <1>2, <1>4
  <1> QED
    BY <1>2, <1>4, <1>5, <1>6

(* It does not matter which element is added first. *)
LEMMA SumOfOne ==
  ASSUME NEW f, NEW S, IsFiniteSet(S), \A x \in S : f[x] \in Nat, NEW x \in S
  PROVE  Sum(f, S) = f[x] + Sum(f, S \ {x})
  <1> DEFINE Bad == {s \in SUBSET S : \E y \in s : Sum(f, s) # f[y] + Sum(f, s \ {y})}
  <1> SUFFICES ASSUME Bad # {} PROVE FALSE
    OBVIOUS
  <1>1. PICK s \in Bad : \A t \in Bad : t \subseteq s => t = s
    <2>1. Bad \in SUBSET SUBSET S
      OBVIOUS
    <2> HIDE DEF Bad
    <2> QED
      BY <2>1, SmallestSubset
  <1>2. PICK y \in s : Sum(f, s) # f[y] + Sum(f, s \ {y})
    OBVIOUS
  <1> DEFINE a == Any(s)
  <1>3. IsFiniteSet(s) /\ s \subseteq S /\ a \in s /\ Sum(f, s) = f[a] + Sum(f, s \ {a})
    BY FS_Subset, SumUnfolds, <1>2
  <1>4. a # y
    BY <1>2, <1>3
  <1> DEFINE r == s \ {a, y}
  <1>5. (s \ {a}) \ {y} = r /\ (s \ {y}) \ {a} = r /\ y \in s \ {a} /\ a \in s \ {y}
    BY <1>2, <1>3, <1>4
  <1>6. s \ {a} \notin Bad /\ s \ {y} \notin Bad /\ s \ {a} \in SUBSET S /\ s \ {y} \in SUBSET S
    BY <1>1, <1>2, <1>3
  <1>7. Sum(f, s \ {a}) = f[y] + Sum(f, r) /\ Sum(f, s \ {y}) = f[a] + Sum(f, r)
    BY <1>5, <1>6
  <1>8. Sum(f, r) \in Nat /\ f[a] \in Nat /\ f[y] \in Nat
    <2>1. IsFiniteSet(r) /\ \A z \in r : f[z] \in Nat
      BY <1>3, FS_Subset
    <2> QED
      BY <1>2, <1>3, <2>1, SumType
  <1> HIDE DEF a, r
  <1> QED
    BY <1>2, <1>3, <1>7, <1>8

(* A new element adds its share. *)
LEMMA SumAdds ==
  ASSUME NEW f, NEW S, IsFiniteSet(S), NEW x, x \notin S, f[x] \in Nat, \A y \in S : f[y] \in Nat
  PROVE  Sum(f, S \cup {x}) = f[x] + Sum(f, S)
  <1>1. IsFiniteSet(S \cup {x}) /\ (S \cup {x}) \ {x} = S /\ x \in S \cup {x}
    BY FS_AddElement
  <1>2. \A y \in S \cup {x} : f[y] \in Nat
    OBVIOUS
  <1> QED
    BY <1>1, <1>2, SumOfOne

(* Fewer elements with smaller shares add up to less. *)
LEMMA SumGrows ==
  ASSUME NEW f, NEW g, NEW T, NEW S, IsFiniteSet(S), T \subseteq S,
         \A x \in S : f[x] \in Nat /\ g[x] \in Nat, \A x \in T : f[x] <= g[x]
  PROVE  Sum(f, T) <= Sum(g, S)
  <1> DEFINE Bad == {s \in SUBSET S : ~(Sum(f, s \cap T) <= Sum(g, s))}
  <1>0. S \cap T = T
    OBVIOUS
  <1> SUFFICES ASSUME Bad # {} PROVE FALSE
    BY <1>0
  <1>1. PICK s \in Bad : \A t \in Bad : t \subseteq s => t = s
    <2>1. Bad \in SUBSET SUBSET S
      OBVIOUS
    <2> HIDE DEF Bad
    <2> QED
      BY <2>1, SmallestSubset
  <1>2. /\ s \subseteq S /\ IsFiniteSet(s) /\ ~(Sum(f, s \cap T) <= Sum(g, s))
        /\ s \cap T \subseteq S /\ IsFiniteSet(s \cap T)
    BY FS_Subset
  <1>3. s # {}
    <2>1. ASSUME s = {} PROVE FALSE
      <3>1. s \cap T = {} /\ Sum(f, s \cap T) = 0 /\ Sum(g, s) = 0
        BY <1>2, <2>1, SumUnfolds
      <3> QED
        BY <1>2, <3>1
    <2> QED
      BY <2>1
  <1>4. PICK x \in s : TRUE
    BY <1>3
  <1> DEFINE r == s \ {x}
  <1>5. Sum(f, r \cap T) <= Sum(g, r)
    BY <1>1, <1>2, <1>4
  <1>6. Sum(g, s) = g[x] + Sum(g, r)
    BY <1>2, <1>4, SumOfOne
  <1>7. /\ Sum(g, r) \in Nat /\ Sum(f, r \cap T) \in Nat /\ g[x] \in Nat /\ f[x] \in Nat
    <2>1. IsFiniteSet(r) /\ IsFiniteSet(r \cap T) /\ r \subseteq S /\ r \cap T \subseteq S
      BY <1>2, FS_Subset
    <2> HIDE DEF r
    <2> QED
      BY <1>2, <1>4, <2>1, SumType
  <1>8. CASE x \in T
    <2>1. x \in s \cap T /\ (s \cap T) \ {x} = r \cap T
      BY <1>4, <1>8
    <2>2. Sum(f, s \cap T) = f[x] + Sum(f, r \cap T)
      BY <1>2, <2>1, SumOfOne
    <2>3. f[x] <= g[x]
      BY <1>8
    <2> HIDE DEF r
    <2> QED
      BY <1>2, <1>5, <1>6, <1>7, <2>2, <2>3
  <1>9. CASE x \notin T
    <2>1. s \cap T = r \cap T
      BY <1>9
    <2> HIDE DEF r
    <2>2. Sum(f, s \cap T) = Sum(f, r \cap T)
      BY <2>1
    <2>3. Sum(f, r \cap T) <= Sum(g, s)
      BY <1>5, <1>6, <1>7
    <2> QED
      BY <1>2, <2>2, <2>3
  <1> QED
    BY <1>8, <1>9

(* A union adds up to no more than its parts. *)
LEMMA SumOfUnion ==
  ASSUME NEW f, NEW S, IsFiniteSet(S), NEW T, IsFiniteSet(T), \A x \in S \cup T : f[x] \in Nat
  PROVE  Sum(f, S \cup T) <= Sum(f, S) + Sum(f, T)
  <1> DEFINE Bad == {t \in SUBSET T : ~(Sum(f, S \cup t) <= Sum(f, S) + Sum(f, t))}
  <1> SUFFICES ASSUME Bad # {} PROVE FALSE
    OBVIOUS
  <1>1. PICK t \in Bad : \A u \in Bad : u \subseteq t => u = t
    <2>1. Bad \in SUBSET SUBSET T
      OBVIOUS
    <2> HIDE DEF Bad
    <2> QED
      BY <2>1, SmallestSubset
  <1>2. t \subseteq T /\ IsFiniteSet(t) /\ ~(Sum(f, S \cup t) <= Sum(f, S) + Sum(f, t))
    BY FS_Subset
  <1>3. Sum(f, S) \in Nat
    BY SumType
  <1>4. t # {}
    <2>1. ASSUME t = {} PROVE FALSE
      <3>1. S \cup t = S /\ Sum(f, t) = 0
        BY <1>2, <2>1, SumUnfolds
      <3>2. Sum(f, S \cup t) = Sum(f, S)
        BY <3>1
      <3>3. Sum(f, S) <= Sum(f, S) + 0
        BY <1>3
      <3> QED
        BY <1>2, <3>1, <3>2, <3>3
    <2> QED
      BY <2>1
  <1>5. PICK x \in t : TRUE
    BY <1>4
  <1> DEFINE r == t \ {x}
  <1>6. Sum(f, S \cup r) <= Sum(f, S) + Sum(f, r)
    BY <1>1, <1>2, <1>5
  <1>7. Sum(f, t) = f[x] + Sum(f, r) /\ f[x] \in Nat
    BY <1>2, <1>5, SumOfOne
  <1>8. IsFiniteSet(r) /\ IsFiniteSet(S \cup r) /\ r \subseteq T /\ x \in T
    BY <1>2, <1>5, FS_Subset, FS_Union
  <1>9. Sum(f, r) \in Nat /\ Sum(f, S \cup r) \in Nat
    <2> HIDE DEF r
    <2> QED
      BY <1>8, SumType
  <1>10. S \cup t = (S \cup r) \cup {x}
    BY <1>5
  <1>11. CASE x \in S \cup r
    <2>1. S \cup t = S \cup r
      BY <1>10, <1>11
    <2> HIDE DEF r
    <2>2. Sum(f, S \cup t) = Sum(f, S \cup r)
      BY <2>1
    <2>3. Sum(f, S \cup r) <= Sum(f, S) + Sum(f, t)
      BY <1>3, <1>6, <1>7, <1>9
    <2> QED
      BY <1>2, <2>2, <2>3
  <1>12. CASE x \notin S \cup r
    <2>1. Sum(f, S \cup t) = f[x] + Sum(f, S \cup r)
      <3> HIDE DEF r
      <3> QED
        BY <1>7, <1>8, <1>10, <1>12, SumAdds
    <2> HIDE DEF r
    <2>2. f[x] + Sum(f, S \cup r) <= Sum(f, S) + Sum(f, t)
      BY <1>3, <1>6, <1>7, <1>9
    <2> QED
      BY <1>2, <2>1, <2>2
  <1> QED
    BY <1>11, <1>12

(* Sums of functions that agree on the set are equal. *)
LEMMA SumAgrees ==
  ASSUME NEW f, NEW g, NEW S, IsFiniteSet(S), \A x \in S : f[x] \in Nat /\ g[x] = f[x]
  PROVE  Sum(f, S) = Sum(g, S)
  <1>1. Sum(f, S) <= Sum(g, S) /\ Sum(g, S) <= Sum(f, S)
    BY SumGrows
  <1> QED
    BY <1>1, SumType

(* Elements without a share add up to nothing. *)
LEMMA SumOfZeros ==
  ASSUME NEW f, NEW S, IsFiniteSet(S), \A x \in S : f[x] = 0
  PROVE  Sum(f, S) = 0
  <1> DEFINE Bad == {s \in SUBSET S : Sum(f, s) # 0}
  <1> SUFFICES ASSUME Bad # {} PROVE FALSE
    OBVIOUS
  <1>1. PICK s \in Bad : \A t \in Bad : t \subseteq s => t = s
    <2>1. Bad \in SUBSET SUBSET S
      OBVIOUS
    <2> HIDE DEF Bad
    <2> QED
      BY <2>1, SmallestSubset
  <1>2. s \subseteq S /\ IsFiniteSet(s) /\ Sum(f, s) # 0
    BY FS_Subset
  <1>3. s # {} /\ Any(s) \in s /\ Sum(f, s) = f[Any(s)] + Sum(f, s \ {Any(s)})
    BY <1>2, SumUnfolds
  <1>4. Sum(f, s \ {Any(s)}) = 0 /\ f[Any(s)] = 0
    BY <1>1, <1>2, <1>3
  <1> QED
    BY <1>2, <1>3, <1>4

(* The largest of finitely many natural numbers. *)
LEMMA MaxIsLargest ==
  ASSUME NEW S, IsFiniteSet(S), S \subseteq Nat, S # {}
  PROVE  Max(S) \in S /\ \A y \in S : y <= Max(S)
  <1> DEFINE Bad == {s \in SUBSET S : s # {} /\ ~\E x \in s : \A y \in s : x >= y}
  <1>0. \A t \in SUBSET S : t \in Bad <=> t # {} /\ ~\E x \in t : \A y \in t : x >= y
    OBVIOUS
  <1>1. Bad \in SUBSET SUBSET S
    OBVIOUS
  <1> HIDE DEF Bad
  <1>2. ASSUME Bad # {} PROVE FALSE
    <2>1. PICK s \in Bad : \A t \in Bad : t \subseteq s => t = s
      <3>1. IsFiniteSet(S) /\ Bad \in SUBSET SUBSET S /\ Bad # {}
        BY <1>1, <1>2
      <3> QED
        BY ONLY <3>1, SmallestSubset
    <2>2. s \in SUBSET S /\ s # {} /\ ~\E x \in s : \A y \in s : x >= y
      BY <1>0, <1>1
    <2>3. PICK x \in s : TRUE
      BY <2>2
    <2> DEFINE r == s \ {x}
    <2>4. r \in SUBSET S /\ r # s /\ r \subseteq s
      BY <2>2
    <2>5. r = {} => \A y \in s : x >= y
      <3>1. x \in Nat /\ (r = {} => \A y \in s : y = x)
        BY <2>2
      <3> QED
        BY <3>1
    <2>6. PICK m \in r : \A y \in r : m >= y
      BY <1>0, <2>1, <2>2, <2>4, <2>5
    <2>7. m \in Nat /\ x \in Nat /\ m \in s /\ \A y \in s : y \in r \/ y = x
      BY <2>2
    <2>8. CASE m >= x
      BY <2>2, <2>6, <2>7, <2>8
    <2>9. CASE ~(m >= x)
      <3>1. \A y \in s : x >= y
        BY <2>2, <2>6, <2>7, <2>9
      <3> QED
        BY <2>2, <3>1
    <2> QED
      BY <2>8, <2>9
  <1>3. \E x \in S : \A y \in S : x >= y
    BY <1>0, <1>2
  <1> QED
    BY <1>3 DEF Max

------------------------------------------------------------------------------
(* What deployments use together.                                          *)

Best(T) == [p \in CapProject |-> ProjectStorage(T, p)]

(* Sums and maxima of the model are those above. *)
LEMMA SumOfProjects ==
  ASSUME NEW T, NEW P \in SUBSET CapProject
  PROVE  MapThenSumSet(LAMBDA p : ProjectStorage(T, p), P) = Sum(Best(T), P)
  <1> DEFINE Step(g) == g = [s \in SUBSET P |-> IF s = {} THEN 0
                                                ELSE ProjectStorage(T, Any(s)) + g[s \ {Any(s)}]]
  <1>1. MapThenSumSet(LAMBDA p : ProjectStorage(T, p), P) = (CHOOSE g : Step(g))[P]
    BY DEF MapThenSumSet, MapThenFoldSet, Any
  <1>2. IsFiniteSet(P)
    BY CapFiniteAssumption, FS_Subset
  <1>3. \A s \in SUBSET P : s # {} => Any(s) \in CapProject /\ Best(T)[Any(s)] = ProjectStorage(T, Any(s))
    BY AnyIsMember DEF Best
  <1>4. ASSUME NEW g
        PROVE  Step(g) <=> Adds(Best(T), P, g)
    <2>1. [s \in SUBSET P |-> IF s = {} THEN 0 ELSE ProjectStorage(T, Any(s)) + g[s \ {Any(s)}]]
            = [s \in SUBSET P |-> IF s = {} THEN 0 ELSE Best(T)[Any(s)] + g[s \ {Any(s)}]]
      BY <1>3
    <2> QED
      BY <2>1 DEF Adds
  <1> HIDE DEF Step
  <1>5. PICK h : Adds(Best(T), P, h)
    BY <1>2, AddsExists
  <1>6. Step(CHOOSE g : Step(g))
    BY <1>4, <1>5
  <1>7. Adds(Best(T), P, CHOOSE g : Step(g))
    BY <1>4, <1>6
  <1>8. Adds(Best(T), P, CHOOSE g : Adds(Best(T), P, g))
    BY <1>5
  <1>9. (CHOOSE g : Step(g))[P] = (CHOOSE g : Adds(Best(T), P, g))[P]
    BY <1>2, <1>7, <1>8, AddsAgree
  <1> QED
    BY <1>1, <1>9 DEF Sum

(* A set of deployments uses a finite amount of memory. *)
LEMMA MemorySum ==
  ASSUME NEW S \in SUBSET CapDeployment
  PROVE  /\ IsFiniteSet(S) /\ Sum(CapMemory, S) \in Nat
         /\ \A x \in S : CapMemory[x] \in Nat
  <1>1. IsFiniteSet(S) /\ \A x \in S : CapMemory[x] \in Nat
    BY CapFiniteAssumption, CapSizeAssumption, FS_Subset
  <1> QED
    BY <1>1, SumType

(* What the deployments of one project in T ask for. *)
Shares(T, p) == {0} \cup {CapStorage[e] : e \in {f \in T : CapProjectOf[f] = p}}

(* They are finitely many amounts, and the project counts with the largest. *)
LEMMA SharesFinite ==
  ASSUME NEW T \in SUBSET CapDeployment, NEW p
  PROVE  /\ Shares(T, p) \subseteq Nat /\ IsFiniteSet(Shares(T, p)) /\ Shares(T, p) # {}
         /\ ProjectStorage(T, p) = Max(Shares(T, p))
  <1> DEFINE F == {f \in T : CapProjectOf[f] = p}
  <1>1. F \subseteq CapDeployment /\ IsFiniteSet(F)
    <2>1. F \subseteq CapDeployment
      OBVIOUS
    <2> HIDE DEF F
    <2> QED
      BY <2>1, CapFiniteAssumption, FS_Subset
  <1>2. IsFiniteSet({CapStorage[e] : e \in F})
    <2> DEFINE g == [e \in F |-> CapStorage[e]]
    <2>1. g \in Surjection(F, {CapStorage[e] : e \in F})
      BY DEF Surjection
    <2> HIDE DEF F, g
    <2> QED
      BY <1>1, <2>1, FS_Surjection
  <1>3. IsFiniteSet({0} \cup {CapStorage[e] : e \in F})
    BY <1>2, FS_Singleton, FS_Union
  <1>4. Shares(T, p) = {0} \cup {CapStorage[e] : e \in F}
    BY DEF Shares
  <1> QED
    BY <1>1, <1>3, <1>4, CapSizeAssumption DEF Shares, ProjectStorage

(* The share of a project is a number .. *)
LEMMA StorageType ==
  ASSUME NEW T \in SUBSET CapDeployment, NEW p
  PROVE  ProjectStorage(T, p) \in Nat
  BY SharesFinite, MaxIsLargest

(* .. grows with its deployments .. *)
LEMMA StorageGrows ==
  ASSUME NEW T \in SUBSET CapDeployment, NEW R \in SUBSET T, NEW p
  PROVE  ProjectStorage(R, p) <= ProjectStorage(T, p)
  <1>1. Shares(R, p) \subseteq Shares(T, p)
    BY DEF Shares
  <1>2. Max(Shares(R, p)) \in Shares(R, p)
    BY SharesFinite, MaxIsLargest
  <1>3. Max(Shares(R, p)) <= Max(Shares(T, p))
    BY <1>1, <1>2, SharesFinite, MaxIsLargest
  <1> QED
    BY <1>3, SharesFinite

(* .. is with one more deployment what that one asks for, or what it was .. *)
LEMMA StorageAdds ==
  ASSUME NEW T \in SUBSET CapDeployment, NEW d \in CapDeployment
  PROVE  \/ ProjectStorage(T \cup {d}, CapProjectOf[d]) = CapStorage[d]
         \/ ProjectStorage(T \cup {d}, CapProjectOf[d]) = ProjectStorage(T, CapProjectOf[d])
  <1> DEFINE p == CapProjectOf[d]
             new == Max(Shares(T \cup {d}, p))
             old == Max(Shares(T, p))
  <1>1. Shares(T \cup {d}, p) = Shares(T, p) \cup {CapStorage[d]}
    BY DEF Shares
  <1>2. new \in Shares(T, p) \cup {CapStorage[d]} /\ new \in Nat
    BY <1>1, SharesFinite, MaxIsLargest
  <1>3. old \in Nat /\ old \in Shares(T \cup {d}, p) /\ \A x \in Shares(T, p) : x <= old
    BY <1>1, SharesFinite, MaxIsLargest
  <1>4. old <= new
    BY <1>3, SharesFinite, MaxIsLargest
  <1>5. ProjectStorage(T \cup {d}, p) = new /\ ProjectStorage(T, p) = old
    BY SharesFinite
  <1> HIDE DEF new, old
  <1>6. new \in Shares(T, p) => new = old
    BY <1>2, <1>3, <1>4
  <1> QED
    BY <1>2, <1>5, <1>6

(* .. and does not depend on the deployments of other projects. *)
LEMMA StorageElsewhere ==
  ASSUME NEW T, NEW R, NEW p, \A e : CapProjectOf[e] = p => (e \in T <=> e \in R)
  PROVE  ProjectStorage(T, p) = ProjectStorage(R, p)
  <1>1. {f \in T : CapProjectOf[f] = p} = {f \in R : CapProjectOf[f] = p}
    OBVIOUS
  <1> QED
    BY <1>1 DEF ProjectStorage

(* So the sum over projects is a number .. *)
LEMMA BestType ==
  ASSUME NEW T \in SUBSET CapDeployment, NEW P \in SUBSET CapProject
  PROVE  /\ IsFiniteSet(P) /\ \A p \in P : Best(T)[p] = ProjectStorage(T, p) /\ Best(T)[p] \in Nat
         /\ Sum(Best(T), P) \in Nat
  <1>1. IsFiniteSet(P) /\ \A p \in P : Best(T)[p] = ProjectStorage(T, p) /\ Best(T)[p] \in Nat
    BY CapFiniteAssumption, FS_Subset, StorageType DEF Best
  <1> QED
    BY <1>1, SumType

(* .. that grows with the deployments. *)
LEMMA BestGrows ==
  ASSUME NEW T \in SUBSET CapDeployment, NEW R \in SUBSET T, NEW P \in SUBSET CapProject
  PROVE  Sum(Best(R), P) <= Sum(Best(T), P)
  <1>1. R \in SUBSET CapDeployment
    OBVIOUS
  <1>2. \A p \in P : /\ Best(R)[p] \in Nat /\ Best(T)[p] \in Nat
                     /\ Best(R)[p] = ProjectStorage(R, p) /\ Best(T)[p] = ProjectStorage(T, p)
    BY <1>1, BestType
  <1>3. \A p \in P : Best(R)[p] <= Best(T)[p]
    BY <1>2, StorageGrows
  <1>4. IsFiniteSet(P)
    BY BestType
  <1> QED
    BY <1>2, <1>3, <1>4, SumGrows

------------------------------------------------------------------------------
(* Measurements and commitments.                                           *)

Others(T, p) == Sum(Best(T), CapProject \ {p})

CapHolder ==
  \A d \in CapDeployment : Phase(d) \in {"measuring", "committing"} => capLock = d

SeenAt(d) ==
  Phase(d) = "committing" =>
    /\ Sum(CapMemory, Share \ {d}) <= capSeen[d].memory
    /\ Others(Share, CapProjectOf[d]) <= capSeen[d].storage

ShareFits ==
  /\ Sum(CapMemory, Share) <= MemoryLimit
  /\ Sum(Best(Share), CapProject) <= DiskLimit

Reads == CapHolder /\ \A d \in CapDeployment : SeenAt(d)

(* What committed() reads, as sums. *)
LEMMA ReadMemory ==
  ASSUME NEW d
  PROVE  CommittedMemory(d) = Sum(CapMemory, Released) + Sum(CapMemory, capReserved \ {d})
  <1>1. MapThenSumSet(LAMBDA e : CapMemory[e], Released) = Sum(CapMemory, Released)
    BY DEF MapThenSumSet, MapThenFoldSet, Sum, Adds, Any
  <1>2. MapThenSumSet(LAMBDA e : CapMemory[e], capReserved \ {d}) = Sum(CapMemory, capReserved \ {d})
    BY DEF MapThenSumSet, MapThenFoldSet, Sum, Adds, Any
  <1> QED
    BY <1>1, <1>2 DEF CommittedMemory

(* .. of the largest share of each other project .. *)
LEMMA ReadStorage ==
  ASSUME NEW d
  PROVE  CommittedStorage(d) = Others(Released \cup (capReserved \ {d}), CapProjectOf[d])
  <1> DEFINE T == Released \cup (capReserved \ {d})
             P == CapProject \ {CapProjectOf[d]}
  <1>1. MapThenSumSet(LAMBDA p : ProjectStorage(T, p), P) = Sum(Best(T), P)
    BY SumOfProjects
  <1> QED
    BY <1>1 DEF CommittedStorage, Others

(* .. and the property, in the same terms. *)
LEMMA FitsAreSums == CapacityFits <=> (Measured => ShareFits)
  <1>1. MapThenSumSet(LAMBDA d : CapMemory[d], Share) = Sum(CapMemory, Share)
    BY DEF MapThenSumSet, MapThenFoldSet, Sum, Adds, Any
  <1>2. MapThenSumSet(LAMBDA p : ProjectStorage(Share, p), CapProject) = Sum(Best(Share), CapProject)
    BY SumOfProjects
  <1> QED
    BY <1>1, <1>2 DEF CapacityFits, ShareFits

------------------------------------------------------------------------------
(* Types.                                                                  *)

DepType == [pc : CapPhase, by : {"create", "approve", "build"}]

ReservedAt(e) ==
  e \in capReserved =>
    \/ capDep[e].pc \in {"reserved", "queued", "building", "live"}
    \/ capDep[e].pc \in {"asking", "measuring", "committing"} /\ capDep[e].by = "build"

(* A job that builds reserves for itself: why its reservation is still its own when
   it asks again.                                                          *)
Builds == \A d \in CapDeployment : capDep[d].pc = "building" => capDep[d].by = "build"

(* The type invariant, by its parts. *)
LEMMA CapTypeParts ==
  CapTypeOK <=> /\ capDep \in [CapDeployment -> DepType]
                /\ capReserved \subseteq CapDeployment /\ \A e \in CapDeployment : ReservedAt(e)
                /\ capSeen \in [CapDeployment -> [memory : Nat, storage : Nat]]
                /\ capLock \in CapDeployment \cup {NoHolder}
                /\ capFaults \in CapFaultSets
  BY DEF CapTypeOK, DepType, ReservedAt

(* What is used belongs to deployments. *)
LEMMA ShareType ==
  ASSUME CapTypeOK
  PROVE  /\ Released \in SUBSET CapDeployment /\ capReserved \in SUBSET CapDeployment
         /\ Share \in SUBSET CapDeployment
  BY DEF CapTypeOK, Released, Share

(* What is read as committed is an amount. *)
LEMMA CommittedType ==
  ASSUME CapTypeOK, NEW d \in CapDeployment
  PROVE  CommittedMemory(d) \in Nat /\ CommittedStorage(d) \in Nat
  <1>1. /\ Released \in SUBSET CapDeployment /\ capReserved \ {d} \in SUBSET CapDeployment
        /\ Released \cup (capReserved \ {d}) \in SUBSET CapDeployment
        /\ CapProject \ {CapProjectOf[d]} \in SUBSET CapProject
    BY ShareType
  <1>2. Sum(CapMemory, Released) \in Nat /\ Sum(CapMemory, capReserved \ {d}) \in Nat
    BY <1>1, MemorySum
  <1>3. CommittedStorage(d) \in Nat
    BY <1>1, BestType, ReadStorage DEF Others
  <1> QED
    BY <1>2, <1>3, ReadMemory

(* Every step keeps the types of the deployments. *)
LEMMA DepTypes ==
  ASSUME capDep \in [CapDeployment -> DepType], [CapNext]_capVars
  PROVE  capDep' \in [CapDeployment -> DepType] /\ capFaults' = capFaults
  <1> USE DEF DepType, CapPhase, CapGoto, Refuse, Phase
  <1>1. ASSUME NEW d \in CapDeployment, CapCreate(d) \/ CapApprove(d) \/ CapBuild(d)
        PROVE  capDep' \in [CapDeployment -> DepType] /\ capFaults' = capFaults
    BY <1>1 DEF CapCreate, CapApprove, CapBuild
  <1>2. ASSUME NEW d \in CapDeployment, CheckLimit(d) \/ TakeLock(d) \/ Measure(d)
        PROVE  capDep' \in [CapDeployment -> DepType] /\ capFaults' = capFaults
    BY <1>2 DEF CheckLimit, TakeLock, Measure
  <1>3. ASSUME NEW d \in CapDeployment, Commit(d)
        PROVE  capDep' \in [CapDeployment -> DepType] /\ capFaults' = capFaults
    BY <1>3 DEF Commit
  <1>4. ASSUME NEW d \in CapDeployment,
               CapPend(d) \/ CapGate(d) \/ CapFail(d) \/ CapStop(d) \/ CapStart(d) \/ CapRollback(d) \/ CapExpire(d)
        PROVE  capDep' \in [CapDeployment -> DepType] /\ capFaults' = capFaults
    BY <1>4 DEF CapPend, CapGate, CapFail, CapStop, CapStart, CapRollback, CapExpire
  <1>5. ASSUME NEW d \in CapDeployment, CapActivate(d)
        PROVE  capDep' \in [CapDeployment -> DepType] /\ capFaults' = capFaults
    BY <1>5 DEF CapActivate
  <1>6. CASE CapLapse \/ UNCHANGED capVars
    BY <1>6 DEF CapLapse, capVars
  <1> QED
    BY <1>1, <1>2, <1>3, <1>4, <1>5, <1>6 DEF CapNext

(* Only a run begins to build. *)
LEMMA BuildsKept ==
  ASSUME capDep \in [CapDeployment -> DepType], Builds, [CapNext]_capVars
  PROVE  Builds'
  <1> USE DEF Builds, DepType, CapGoto, Refuse, Phase
  <1>1. ASSUME NEW d \in CapDeployment, CapCreate(d) \/ CapApprove(d) \/ CapBuild(d)
        PROVE  Builds'
    BY <1>1 DEF CapCreate, CapApprove, CapBuild
  <1>2. ASSUME NEW d \in CapDeployment, CheckLimit(d) \/ TakeLock(d) \/ Measure(d)
        PROVE  Builds'
    BY <1>2 DEF CheckLimit, TakeLock, Measure
  <1>3. ASSUME NEW d \in CapDeployment, Commit(d)
        PROVE  Builds'
    BY <1>3 DEF Commit
  <1>4. ASSUME NEW d \in CapDeployment,
               CapPend(d) \/ CapGate(d) \/ CapFail(d) \/ CapStop(d) \/ CapStart(d) \/ CapRollback(d) \/ CapExpire(d)
        PROVE  Builds'
    BY <1>4 DEF CapPend, CapGate, CapFail, CapStop, CapStart, CapRollback, CapExpire
  <1>5. ASSUME NEW d \in CapDeployment, CapActivate(d)
        PROVE  Builds'
    BY <1>5 DEF CapActivate
  <1>6. CASE CapLapse \/ UNCHANGED capVars
    BY <1>6 DEF CapLapse, capVars
  <1> QED
    BY <1>1, <1>2, <1>3, <1>4, <1>5, <1>6 DEF CapNext

(* A step keeps the rest of the types. *)
LEMMA CapTypes ==
  ASSUME CapTypeOK, Builds, [CapNext]_capVars
  PROVE  CapTypeOK'
  <1>0. /\ capDep \in [CapDeployment -> DepType] /\ capDep' \in [CapDeployment -> DepType]
        /\ capFaults' = capFaults
    BY DepTypes, CapTypeParts
  <1> DEFINE Rest == /\ capReserved' \subseteq CapDeployment /\ \A e \in CapDeployment : ReservedAt(e)'
                     /\ capSeen' \in [CapDeployment -> [memory : Nat, storage : Nat]]
                     /\ capLock' \in CapDeployment \cup {NoHolder}
  <1> SUFFICES Rest
    BY <1>0, CapTypeParts DEF CapTypeOK, DepType, ReservedAt
  <1>1. /\ capReserved \subseteq CapDeployment /\ \A e \in CapDeployment : ReservedAt(e)
        /\ capSeen \in [CapDeployment -> [memory : Nat, storage : Nat]]
        /\ capLock \in CapDeployment \cup {NoHolder}
    BY CapTypeParts
  <1>2. ASSUME NEW d \in CapDeployment,
               CapCreate(d) \/ CapApprove(d) \/ CapBuild(d) \/ CapPend(d) \/ CapStop(d) \/ CapStart(d) \/ CapRollback(d)
        PROVE  Rest
    <2>1. UNCHANGED <<capReserved, capSeen, capLock>>
      BY <1>2 DEF CapCreate, CapApprove, CapBuild, CapPend, CapStop, CapStart, CapRollback
    <2>2. ASSUME NEW e \in CapDeployment PROVE ReservedAt(e)'
      <3>1. ReservedAt(e)
        BY <1>1
      <3>2. CASE CapCreate(d) \/ CapApprove(d) \/ CapBuild(d)
        BY <1>0, <2>1, <3>1, <3>2 DEF CapCreate, CapApprove, CapBuild, ReservedAt, Phase, DepType
      <3>3. CASE CapPend(d) \/ CapStop(d) \/ CapStart(d) \/ CapRollback(d)
        BY <1>0, <2>1, <3>1, <3>3 DEF CapPend, CapStop, CapStart, CapRollback, ReservedAt, Phase, CapGoto, DepType
      <3> QED
        BY <1>2, <3>2, <3>3
    <2> QED
      BY <1>1, <2>1, <2>2
  <1>3. ASSUME NEW d \in CapDeployment, CheckLimit(d) \/ TakeLock(d)
        PROVE  Rest
    <2>1. capReserved' \subseteq capReserved /\ capSeen' = capSeen
      BY <1>3 DEF CheckLimit, TakeLock, Refuse
    <2>2. capLock' \in CapDeployment \cup {NoHolder}
      BY <1>1, <1>3 DEF CheckLimit, TakeLock
    <2>3. ASSUME NEW e \in CapDeployment PROVE ReservedAt(e)'
      <3>1. ReservedAt(e)
        BY <1>1
      <3>2. CASE e = d
        <4>1. CASE CheckLimit(d)
          <5>1. /\ capDep[d].pc \in {"created", "building"}
                /\ Refuse(d) \/ (CapGoto(d, "asking") /\ UNCHANGED capReserved)
            BY <4>1 DEF CheckLimit, Phase
          <5>2. capDep[d].pc = "building" => capDep[d].by = "build"
            BY DEF Builds
          <5> QED
            BY <1>0, <3>1, <3>2, <5>1, <5>2 DEF Refuse, ReservedAt, CapGoto, DepType
        <4>2. CASE TakeLock(d)
          BY <1>0, <3>1, <3>2, <4>2 DEF TakeLock, Refuse, ReservedAt, Phase, CapGoto, DepType
        <4> QED
          BY <1>3, <4>1, <4>2
      <3>3. CASE e # d
        <4>1. capDep'[e] = capDep[e]
          BY <1>0, <1>3, <3>3 DEF CheckLimit, TakeLock, Refuse, CapGoto
        <4> QED
          BY <2>1, <3>1, <4>1 DEF ReservedAt
      <3> QED
        BY <3>2, <3>3
    <2> QED
      BY <1>1, <2>1, <2>2, <2>3
  <1>4. ASSUME NEW d \in CapDeployment, Measure(d)
        PROVE  Rest
    <2>1. CommittedMemory(d) \in Nat /\ CommittedStorage(d) \in Nat
      BY CommittedType
    <2>2. capSeen' \in [CapDeployment -> [memory : Nat, storage : Nat]]
      BY <1>1, <1>4, <2>1 DEF Measure
    <2>3. ASSUME NEW e \in CapDeployment PROVE ReservedAt(e)'
      BY <1>0, <1>1, <1>4 DEF Measure, ReservedAt, Phase, CapGoto, DepType
    <2>4. UNCHANGED <<capReserved, capLock>>
      BY <1>4 DEF Measure
    <2> QED
      BY <1>1, <2>2, <2>3, <2>4
  <1>5. ASSUME NEW d \in CapDeployment, Commit(d)
        PROVE  Rest
    <2>1. /\ capSeen' \in [CapDeployment -> [memory : Nat, storage : Nat]]
          /\ capLock' \in CapDeployment \cup {NoHolder}
      BY <1>1, <1>5 DEF Commit, GiveBack
    <2>2. capReserved' \subseteq capReserved \cup {d}
      BY <1>5 DEF Commit, Refuse
    <2>3. ASSUME NEW e \in CapDeployment PROVE ReservedAt(e)'
      <3>1. ReservedAt(e)
        BY <1>1
      <3>2. CASE e = d
        <4>1. CASE /\ capReserved' = capReserved \cup {d}
                   /\ CapGoto(d, CASE capDep[d].by = "create" -> "queued"
                                    [] capDep[d].by = "approve" -> "reserved"
                                    [] OTHER -> "live")
          BY <1>0, <3>2, <4>1 DEF ReservedAt, CapGoto, DepType
        <4>2. CASE Refuse(d)
          BY <1>0, <1>5, <3>1, <3>2, <4>2 DEF Commit, Refuse, ReservedAt, Phase, CapGoto, DepType
        <4> QED
          BY <1>5, <4>1, <4>2 DEF Commit
      <3>3. CASE e # d
        <4>1. capDep'[e] = capDep[e]
          BY <1>0, <1>5, <3>3 DEF Commit, Refuse, CapGoto
        <4> QED
          BY <2>2, <3>1, <3>3, <4>1 DEF ReservedAt
      <3> QED
        BY <3>2, <3>3
    <2> QED
      BY <1>1, <2>1, <2>2, <2>3
  <1>6. ASSUME NEW d \in CapDeployment, CapGate(d) \/ CapFail(d) \/ CapExpire(d)
        PROVE  Rest
    <2>1. capReserved' = capReserved \ {d} /\ UNCHANGED <<capSeen, capLock>>
      BY <1>6 DEF CapGate, CapFail, CapExpire
    <2>2. ASSUME NEW e \in CapDeployment, e # d PROVE capDep'[e] = capDep[e]
      BY <1>0, <1>6, <2>2 DEF CapGate, CapFail, CapExpire, CapGoto
    <2>3. ASSUME NEW e \in CapDeployment PROVE ReservedAt(e)'
      BY <1>1, <2>1, <2>2 DEF ReservedAt
    <2> QED
      BY <1>1, <2>1, <2>3
  <1>7. ASSUME NEW d \in CapDeployment, CapActivate(d)
        PROVE  Rest
    <2>1. capReserved' = capReserved \ {d} /\ UNCHANGED <<capSeen, capLock>>
      BY <1>7 DEF CapActivate
    <2>2. ASSUME NEW e \in CapDeployment, e \in capReserved PROVE capDep'[e] = capDep[e]
      BY <1>0, <1>7, <2>2 DEF CapActivate
    <2>3. ASSUME NEW e \in CapDeployment PROVE ReservedAt(e)'
      BY <1>1, <2>1, <2>2 DEF ReservedAt
    <2> QED
      BY <1>1, <2>1, <2>3
  <1>8. CASE CapLapse \/ UNCHANGED capVars
    BY <1>1, <1>8 DEF CapLapse, capVars, ReservedAt
  <1> QED
    BY <1>2, <1>3, <1>4, <1>5, <1>6, <1>7, <1>8 DEF CapNext

------------------------------------------------------------------------------
(* The invariant of the capacity.                                          *)

FitInv == CapTypeOK /\ Builds /\ (Measured => Reads /\ ShareFits)

(* The reserve is a part of the machine: what is left is not negative. *)
LEMMA LimitTypes == /\ MemoryLimit \in Nat /\ DiskLimit \in Nat
  <1>1. \A n \in Nat : /\ (n * 20) \div 100 \in Nat /\ (n * 20) \div 100 <= n
                       /\ (n * 15) \div 100 \in Nat /\ (n * 15) \div 100 <= n
    OBVIOUS
  <1> QED
    BY <1>1, CapSizeAssumption DEF MemoryLimit, DiskLimit

(* As long as nothing more is used, what was read as committed still bounds it. *)
LEMMA SmallerFits ==
  ASSUME CapTypeOK, CapTypeOK', Share' \subseteq Share, ShareFits
  PROVE  ShareFits'
  <1>1. /\ Share \in SUBSET CapDeployment /\ Share' \in SUBSET CapDeployment /\ Share' \in SUBSET Share
    BY ShareType
  <1>2. /\ Sum(CapMemory, Share') <= Sum(CapMemory, Share)
        /\ Sum(CapMemory, Share') \in Nat /\ Sum(CapMemory, Share) \in Nat
    BY <1>1, MemorySum, SumGrows
  <1>3. /\ Sum(Best(Share'), CapProject) <= Sum(Best(Share), CapProject)
        /\ Sum(Best(Share'), CapProject) \in Nat /\ Sum(Best(Share), CapProject) \in Nat
    BY <1>1, BestGrows, BestType
  <1>4. Sum(CapMemory, Share') <= MemoryLimit
    BY <1>2, LimitTypes DEF ShareFits
  <1>5. Sum(Best(Share'), CapProject) <= DiskLimit
    BY <1>3, LimitTypes DEF ShareFits
  <1>6. ShareFits' <=> Sum(CapMemory, Share') <= MemoryLimit /\ Sum(Best(Share'), CapProject) <= DiskLimit
    BY DEF ShareFits, MemoryLimit, DiskLimit, Best, ProjectStorage
  <1> QED
    BY <1>4, <1>5, <1>6

(* .. also for a request that has read it. *)
LEMMA SmallerSeen ==
  ASSUME CapTypeOK, CapTypeOK', Share' \subseteq Share, NEW d \in CapDeployment, SeenAt(d),
         Phase(d)' = "committing" => Phase(d) = "committing" /\ capSeen'[d] = capSeen[d]
  PROVE  SeenAt(d)'
  <1> SUFFICES ASSUME Phase(d)' = "committing"
               PROVE  /\ Sum(CapMemory, Share' \ {d}) <= capSeen[d].memory
                      /\ Others(Share', CapProjectOf[d]) <= capSeen[d].storage
    BY DEF SeenAt
  <1> DEFINE P == CapProject \ {CapProjectOf[d]}
  <1>1. /\ Share \in SUBSET CapDeployment /\ Share' \in SUBSET Share /\ P \in SUBSET CapProject
        /\ Share' \in SUBSET CapDeployment
        /\ Share \ {d} \in SUBSET CapDeployment /\ Share' \ {d} \in SUBSET (Share \ {d})
        /\ Share' \ {d} \in SUBSET CapDeployment
    BY ShareType
  <1>2. capSeen[d].memory \in Nat /\ capSeen[d].storage \in Nat
    BY DEF CapTypeOK
  <1>3. /\ Sum(CapMemory, Share' \ {d}) <= Sum(CapMemory, Share \ {d})
        /\ Sum(CapMemory, Share' \ {d}) \in Nat /\ Sum(CapMemory, Share \ {d}) \in Nat
    BY <1>1, MemorySum, SumGrows
  <1>4. /\ Others(Share', CapProjectOf[d]) <= Others(Share, CapProjectOf[d])
        /\ Others(Share', CapProjectOf[d]) \in Nat /\ Others(Share, CapProjectOf[d]) \in Nat
    BY <1>1, BestGrows, BestType DEF Others
  <1>5. /\ Sum(CapMemory, Share \ {d}) <= capSeen[d].memory
        /\ Others(Share, CapProjectOf[d]) <= capSeen[d].storage
    BY DEF SeenAt
  <1>6. Sum(CapMemory, Share' \ {d}) <= capSeen[d].memory
    BY <1>2, <1>3, <1>5
  <1>7. Others(Share', CapProjectOf[d]) <= capSeen[d].storage
    BY <1>2, <1>4, <1>5
  <1> QED
    BY <1>6, <1>7

(* Reading: what is committed covers every other deployment. *)
LEMMA MeasureReads ==
  ASSUME CapTypeOK, NEW d \in CapDeployment, Phase(d) = "measuring"
  PROVE  /\ Sum(CapMemory, Share \ {d}) <= CommittedMemory(d)
         /\ Others(Share, CapProjectOf[d]) <= CommittedStorage(d)
  <1> DEFINE R == capReserved \ {d}
             T == Released \cup R
             P == CapProject \ {CapProjectOf[d]}
  <1>1. /\ Released \in SUBSET CapDeployment /\ R \in SUBSET CapDeployment /\ T \in SUBSET CapDeployment
        /\ Share \in SUBSET CapDeployment /\ P \in SUBSET CapProject
    BY ShareType
  <1>2. Share \ {d} = T
    BY DEF Share, Released
  <1>3. Sum(CapMemory, T) <= CommittedMemory(d)
    <2>1. IsFiniteSet(Released) /\ IsFiniteSet(R) /\ \A x \in Released \cup R : CapMemory[x] \in Nat
      BY <1>1, MemorySum
    <2> HIDE DEF R
    <2>2. Sum(CapMemory, T) <= Sum(CapMemory, Released) + Sum(CapMemory, R)
      BY <2>1, SumOfUnion
    <2> QED
      BY <2>2, ReadMemory DEF R
  <1>4. ASSUME NEW p \in P
        PROVE  Best(Share)[p] = Best(T)[p] /\ Best(Share)[p] \in Nat
    <2>1. \A e : CapProjectOf[e] = p => (e \in Share <=> e \in T)
      BY <1>2
    <2>2. ProjectStorage(Share, p) = ProjectStorage(T, p)
      <3> HIDE DEF T
      <3> QED
        BY <2>1, StorageElsewhere
    <2>3. Best(Share)[p] = ProjectStorage(Share, p) /\ Best(T)[p] = ProjectStorage(T, p)
      BY DEF Best
    <2> QED
      BY <1>1, <2>2, <2>3, StorageType
  <1>5. Sum(Best(Share), P) = Sum(Best(T), P) /\ Sum(Best(T), P) \in Nat
    <2>1. IsFiniteSet(P) /\ Sum(Best(T), P) \in Nat
      BY <1>1, BestType
    <2> HIDE DEF T, P
    <2> QED
      BY <1>4, <2>1, SumAgrees
  <1>6. CommittedStorage(d) = Sum(Best(T), P)
    BY ReadStorage DEF Others
  <1>7. Others(Share, CapProjectOf[d]) = Sum(Best(Share), P)
    BY DEF Others
  <1>8. Sum(CapMemory, Share \ {d}) <= CommittedMemory(d)
    BY <1>2, <1>3
  <1>9. Others(Share, CapProjectOf[d]) <= CommittedStorage(d)
    <2> HIDE DEF T, P
    <2> QED
      BY <1>5, <1>6, <1>7
  <1> QED
    BY <1>8, <1>9

(* Committing: with one more deployment it still fits. *)
LEMMA CommitFits ==
  ASSUME CapTypeOK, NEW d \in CapDeployment, Phase(d) = "committing", SeenAt(d), ShareFits, Fits(capSeen[d], d)
  PROVE  /\ Sum(CapMemory, Share \cup {d}) <= MemoryLimit
         /\ Sum(Best(Share \cup {d}), CapProject) <= DiskLimit
  <1> DEFINE U == Share \cup {d}
             R == Share \ {d}
             p == CapProjectOf[d]
             P == CapProject \ {p}
  <1>1. /\ Share \in SUBSET CapDeployment /\ U \in SUBSET CapDeployment /\ R \in SUBSET CapDeployment
        /\ P \in SUBSET CapProject /\ p \in CapProject
        /\ capSeen[d].memory \in Nat /\ capSeen[d].storage \in Nat
        /\ CapMemory[d] \in Nat /\ CapStorage[d] \in Nat
    BY ShareType, CapProjectAssumption, CapSizeAssumption DEF CapTypeOK
  <1>2. /\ Sum(CapMemory, R) <= capSeen[d].memory /\ Sum(Best(Share), P) <= capSeen[d].storage
        /\ capSeen[d].memory + CapMemory[d] <= MemoryLimit
        /\ capSeen[d].storage + CapStorage[d] <= DiskLimit
        /\ Sum(Best(Share), CapProject) <= DiskLimit
    BY DEF SeenAt, Fits, ShareFits, Others
  <1>3. Sum(CapMemory, U) = CapMemory[d] + Sum(CapMemory, R) /\ Sum(CapMemory, R) \in Nat
    <2>1. /\ IsFiniteSet(U) /\ d \in U /\ U \ {d} = R /\ Sum(CapMemory, R) \in Nat
          /\ \A x \in U : CapMemory[x] \in Nat
      BY <1>1, MemorySum
    <2> HIDE DEF U, R
    <2> QED
      BY <2>1, SumOfOne
  <1>4. Sum(Best(U), CapProject) = ProjectStorage(U, p) + Sum(Best(U), P)
    <2>1. IsFiniteSet(CapProject) /\ \A q \in CapProject : Best(U)[q] = ProjectStorage(U, q) /\ Best(U)[q] \in Nat
      BY <1>1, BestType
    <2> HIDE DEF U, p
    <2> QED
      BY <1>1, <2>1, SumOfOne
  <1>5. Sum(Best(Share), CapProject) = ProjectStorage(Share, p) + Sum(Best(Share), P)
    <2>1. /\ IsFiniteSet(CapProject)
          /\ \A q \in CapProject : Best(Share)[q] = ProjectStorage(Share, q) /\ Best(Share)[q] \in Nat
      BY <1>1, BestType
    <2> HIDE DEF p
    <2> QED
      BY <1>1, <2>1, SumOfOne
  <1>6. Sum(Best(U), P) = Sum(Best(Share), P) /\ Sum(Best(Share), P) \in Nat
    <2>1. ASSUME NEW q \in P PROVE Best(U)[q] = Best(Share)[q] /\ Best(Share)[q] \in Nat
      <3>1. \A e : CapProjectOf[e] = q => (e \in U <=> e \in Share)
        OBVIOUS
      <3>2. ProjectStorage(U, q) = ProjectStorage(Share, q)
        <4> HIDE DEF U
        <4> QED
          BY <3>1, StorageElsewhere
      <3>3. Best(U)[q] = ProjectStorage(U, q) /\ Best(Share)[q] = ProjectStorage(Share, q)
        BY DEF Best
      <3> QED
        BY <1>1, <3>2, <3>3, StorageType
    <2>2. IsFiniteSet(P) /\ Sum(Best(Share), P) \in Nat
      BY <1>1, BestType
    <2> HIDE DEF U, P
    <2> QED
      BY <2>1, <2>2, SumAgrees
  <1>7. ProjectStorage(U, p) = CapStorage[d] \/ ProjectStorage(U, p) = ProjectStorage(Share, p)
    BY <1>1, StorageAdds
  <1>8. ProjectStorage(Share, p) \in Nat
    BY <1>1, StorageType
  <1> HIDE DEF U, R, p, P
  <1>9. Sum(CapMemory, U) <= MemoryLimit
    BY <1>1, <1>2, <1>3, LimitTypes
  <1>10. Sum(Best(U), CapProject) <= DiskLimit
    <2>1. CASE ProjectStorage(U, p) = CapStorage[d]
      BY <1>1, <1>2, <1>4, <1>6, <2>1, LimitTypes
    <2>2. CASE ProjectStorage(U, p) = ProjectStorage(Share, p)
      BY <1>2, <1>4, <1>5, <1>6, <1>8, <2>2, LimitTypes
    <2> QED
      BY <1>7, <2>1, <2>2
  <1> QED
    BY <1>9, <1>10 DEF U

------------------------------------------------------------------------------
(* The steps.                                                              *)

(* Without a lapse, whoever measures or commits holds the lock of the VPS. *)
LEMMA HolderKept ==
  ASSUME CapTypeOK, Measured, CapHolder, [CapNext]_capVars
  PROVE  CapHolder'
  <1>0. capDep \in [CapDeployment -> DepType]
    BY CapTypeParts
  <1> USE <1>0 DEF CapHolder, DepType, CapGoto, Refuse, Phase
  <1>1. ASSUME NEW d \in CapDeployment, CapCreate(d) \/ CapApprove(d) \/ CapBuild(d)
        PROVE  CapHolder'
    BY <1>1 DEF CapCreate, CapApprove, CapBuild
  <1>2. ASSUME NEW d \in CapDeployment, CheckLimit(d)
        PROVE  CapHolder'
    BY <1>2 DEF CheckLimit
  <1>3. ASSUME NEW d \in CapDeployment, TakeLock(d)
        PROVE  CapHolder'
    BY <1>3, CapHolderAssumption DEF TakeLock
  <1>4. ASSUME NEW d \in CapDeployment, Measure(d)
        PROVE  CapHolder'
    BY <1>4 DEF Measure
  <1>5. ASSUME NEW d \in CapDeployment, Commit(d)
        PROVE  CapHolder'
    BY <1>5 DEF Commit, GiveBack
  <1>6. ASSUME NEW d \in CapDeployment,
               CapPend(d) \/ CapGate(d) \/ CapFail(d) \/ CapStop(d) \/ CapStart(d) \/ CapRollback(d) \/ CapExpire(d)
        PROVE  CapHolder'
    BY <1>6 DEF CapPend, CapGate, CapFail, CapStop, CapStart, CapRollback, CapExpire
  <1>7. ASSUME NEW d \in CapDeployment, CapActivate(d)
        PROVE  CapHolder'
    BY <1>7 DEF CapActivate
  <1>8. CASE CapLapse \/ UNCHANGED capVars
    BY <1>8 DEF CapLapse, capVars, Measured
  <1> QED
    BY <1>1, <1>2, <1>3, <1>4, <1>5, <1>6, <1>7, <1>8 DEF CapNext

(* What a deployment uses after a step, it used before; and what a request holds as
   read, it held before.                                                   *)
NoMore(e) ==
  /\ Phase(e)' \in {"live", "stopped"} => Phase(e) \in {"live", "stopped"}
  /\ e \in capReserved' => e \in capReserved
  /\ Phase(e)' = "committing" => Phase(e) = "committing" /\ capSeen'[e] = capSeen[e]

(* A step after which nobody uses or has read anything new. *)
LEMMA NoMoreKeeps ==
  ASSUME FitInv, CapTypeOK', Builds', capFaults' = capFaults, Measured => CapHolder',
         Measured => \A e \in CapDeployment : NoMore(e)
  PROVE  FitInv'
  <1> SUFFICES ASSUME Measured PROVE Reads' /\ ShareFits'
    BY DEF FitInv, Measured
  <1>1. CapTypeOK /\ Reads /\ ShareFits /\ \A e \in CapDeployment : NoMore(e)
    BY DEF FitInv
  <1>2. Share' \subseteq Share
    <2>1. capReserved' \subseteq CapDeployment
      BY DEF CapTypeOK
    <2> QED
      BY <1>1, <2>1 DEF Share, Released, NoMore
  <1>3. ShareFits'
    BY <1>1, <1>2, SmallerFits
  <1>4. ASSUME NEW d \in CapDeployment PROVE SeenAt(d)'
    BY <1>1, <1>2, SmallerSeen DEF Reads, NoMore
  <1> QED
    BY <1>3, <1>4 DEF Reads

(* Steps of the lifecycle promise nothing. *)
LEMMA LifeIsNoMore ==
  ASSUME FitInv, Measured, [CapNext]_capVars, NEW e \in CapDeployment,
         \A d \in CapDeployment : ~Measure(d) /\ ~Commit(d)
  PROVE  NoMore(e)
  <1>0. capDep \in [CapDeployment -> DepType]
    BY CapTypeParts DEF FitInv
  <1> USE <1>0 DEF NoMore, DepType, CapGoto, Refuse, Phase
  <1>1. ASSUME NEW d \in CapDeployment, CapCreate(d) \/ CapApprove(d) \/ CapBuild(d)
        PROVE  NoMore(e)
    BY <1>1 DEF CapCreate, CapApprove, CapBuild
  <1>2. ASSUME NEW d \in CapDeployment, CheckLimit(d)
        PROVE  NoMore(e)
    BY <1>2 DEF CheckLimit
  <1>3. ASSUME NEW d \in CapDeployment, TakeLock(d)
        PROVE  NoMore(e)
    BY <1>3 DEF TakeLock
  <1>4. ASSUME NEW d \in CapDeployment,
               CapPend(d) \/ CapGate(d) \/ CapFail(d) \/ CapStop(d) \/ CapStart(d) \/ CapExpire(d)
        PROVE  NoMore(e)
    BY <1>4 DEF CapPend, CapGate, CapFail, CapStop, CapStart, CapExpire
  <1>5. ASSUME NEW d \in CapDeployment, CapActivate(d)
        PROVE  NoMore(e)
    BY <1>5 DEF CapActivate
  <1>6. ASSUME NEW d \in CapDeployment, CapRollback(d)
        PROVE  NoMore(e)
    BY <1>6 DEF CapRollback, Measured
  <1>7. CASE CapLapse \/ UNCHANGED capVars
    BY <1>7 DEF CapLapse, capVars
  <1> QED
    BY <1>1, <1>2, <1>3, <1>4, <1>5, <1>6, <1>7 DEF CapNext

(* A measurement takes what is committed into account. *)
LEMMA MeasureKeeps ==
  ASSUME FitInv, CapTypeOK', Builds', capFaults' = capFaults, Measured => CapHolder',
         NEW d \in CapDeployment, Measure(d)
  PROVE  FitInv'
  <1> SUFFICES ASSUME Measured PROVE Reads' /\ ShareFits'
    BY DEF FitInv, Measured
  <1>0. capDep \in [CapDeployment -> DepType] /\ CapTypeOK /\ Reads /\ ShareFits
    BY CapTypeParts DEF FitInv
  <1>1. /\ Phase(d) = "measuring" /\ UNCHANGED <<capReserved, capLock, capFaults>>
        /\ capDep' = [capDep EXCEPT ![d].pc = "committing"]
        /\ capSeen' = [capSeen EXCEPT ![d] = [memory |-> CommittedMemory(d), storage |-> CommittedStorage(d)]]
    BY DEF Measure, CapGoto
  <1>2. Share' = Share
    BY <1>0, <1>1 DEF Share, Released, Phase, DepType
  <1>3. ShareFits'
    BY <1>0, <1>2, SmallerFits
  <1>4. ASSUME NEW e \in CapDeployment PROVE SeenAt(e)'
    <2>1. CASE e = d
      <3>1. /\ Sum(CapMemory, Share \ {d}) <= CommittedMemory(d)
            /\ Others(Share, CapProjectOf[d]) <= CommittedStorage(d)
        BY <1>0, <1>1, MeasureReads
      <3>2. capSeen'[d] = [memory |-> CommittedMemory(d), storage |-> CommittedStorage(d)]
        BY <1>0, <1>1 DEF CapTypeOK
      <3>3. capSeen'[d].memory = CommittedMemory(d) /\ capSeen'[d].storage = CommittedStorage(d)
        BY <3>2
      <3>4. /\ Sum(CapMemory, Share' \ {d}) <= capSeen'[d].memory
            /\ Others(Share', CapProjectOf[d]) <= capSeen'[d].storage
        BY <1>2, <3>1, <3>3
      <3> QED
        BY <2>1, <3>4 DEF SeenAt, Others, Best, ProjectStorage
    <2>2. CASE e # d
      <3>1. Phase(e)' = Phase(e) /\ capSeen'[e] = capSeen[e]
        BY <1>0, <1>1, <2>2 DEF Phase, CapTypeOK
      <3> QED
        BY <1>0, <1>2, <3>1, SmallerSeen DEF Reads
    <2> QED
      BY <2>1, <2>2
  <1> QED
    BY <1>3, <1>4 DEF Reads

(* A commitment by the holder of the lock still fits; a refusal promises nothing. *)
LEMMA CommitKeeps ==
  ASSUME FitInv, CapTypeOK', Builds', capFaults' = capFaults, Measured => CapHolder',
         NEW d \in CapDeployment, Commit(d)
  PROVE  FitInv'
  <1> SUFFICES ASSUME Measured PROVE FitInv'
    BY DEF FitInv, Measured
  <1>0. capDep \in [CapDeployment -> DepType] /\ CapTypeOK /\ Reads /\ ShareFits
    BY CapTypeParts DEF FitInv
  <1>1. /\ Phase(d) = "committing"
        /\ capSeen' = [capSeen EXCEPT ![d] = [memory |-> 0, storage |-> 0]]
    BY DEF Commit
  <1>2. CASE Refuse(d)
    <2>1. \A e \in CapDeployment : NoMore(e)
      BY <1>0, <1>1, <1>2 DEF NoMore, Refuse, CapGoto, Phase, DepType
    <2> QED
      BY <2>1, NoMoreKeeps
  <1>3. CASE /\ Fits(capSeen[d], d)
             /\ capReserved' = capReserved \cup {d}
             /\ CapGoto(d, CASE capDep[d].by = "create" -> "queued"
                             [] capDep[d].by = "approve" -> "reserved"
                             [] OTHER -> "live")
    <2>1. \A e \in CapDeployment : /\ e # d => capDep'[e] = capDep[e]
                                   /\ Phase(e)' = "committing" => e # d /\ Phase(e) = "committing"
      BY <1>0, <1>3 DEF CapGoto, Phase, DepType
    <2>2. \A e \in CapDeployment : Phase(e)' # "committing"
      <3>1. \A e \in CapDeployment : Phase(e) = "committing" => e = d
        BY <1>0, <1>1 DEF Reads, CapHolder
      <3> QED
        BY <2>1, <3>1
    <2>3. Share' \subseteq Share \cup {d}
      BY <1>3, <2>1 DEF Share, Released, Phase
    <2>4. /\ Sum(CapMemory, Share \cup {d}) <= MemoryLimit
          /\ Sum(Best(Share \cup {d}), CapProject) <= DiskLimit
      BY <1>0, <1>1, <1>3, CommitFits DEF Reads
    <2> DEFINE U == Share \cup {d}
    <2>5. /\ U \in SUBSET CapDeployment /\ Share' \in SUBSET U /\ Share' \in SUBSET CapDeployment
          /\ CapProject \in SUBSET CapProject
      BY <1>0, <2>3, ShareType
    <2> HIDE DEF U
    <2>6. /\ Sum(CapMemory, Share') <= Sum(CapMemory, U)
          /\ Sum(CapMemory, Share') \in Nat /\ Sum(CapMemory, U) \in Nat
      BY <2>5, MemorySum, SumGrows
    <2>7. /\ Sum(Best(Share'), CapProject) <= Sum(Best(U), CapProject)
          /\ Sum(Best(Share'), CapProject) \in Nat /\ Sum(Best(U), CapProject) \in Nat
      BY <2>5, BestGrows, BestType
    <2>8. Sum(CapMemory, U) <= MemoryLimit /\ Sum(Best(U), CapProject) <= DiskLimit
      BY <2>4 DEF U
    <2>9. Sum(CapMemory, Share') <= MemoryLimit
      BY <2>6, <2>8, LimitTypes
    <2>10. Sum(Best(Share'), CapProject) <= DiskLimit
      BY <2>7, <2>8, LimitTypes
    <2>11. ShareFits'
      BY <2>9, <2>10 DEF ShareFits, MemoryLimit, DiskLimit, Best, ProjectStorage
    <2>12. \A e \in CapDeployment : SeenAt(e)'
      BY <2>2 DEF SeenAt
    <2> QED
      BY <2>11, <2>12 DEF FitInv, Reads
  <1> QED
    BY <1>2, <1>3 DEF Commit

(* In the initial state nothing is used. *)
LEMMA FitInit == CapInit => FitInv
  <1> SUFFICES ASSUME CapInit PROVE FitInv
    OBVIOUS
  <1>1. CapTypeOK /\ Builds
    BY DEF CapInit, CapTypeOK, CapPhase, Builds
  <1>2. Reads
    BY DEF CapInit, Reads, CapHolder, SeenAt, Phase
  <1>3. Share = {}
    BY DEF CapInit, Share, Released, Phase
  <1>4. Sum(CapMemory, Share) = 0
    BY <1>3, SumUnfolds, FS_EmptySet
  <1>5. Sum(Best(Share), CapProject) = 0
    <2>1. \A p \in CapProject : ProjectStorage(Share, p) = 0
      <3> TAKE p \in CapProject
      <3>1. Shares({}, p) = {0} /\ {} \in SUBSET CapDeployment
        BY DEF Shares
      <3>2. ProjectStorage({}, p) = 0
        BY <3>1, SharesFinite, MaxIsLargest
      <3> QED
        BY <1>3, <3>2
    <2>2. IsFiniteSet(CapProject) /\ \A p \in CapProject : Best(Share)[p] = 0
      BY <2>1, CapFiniteAssumption DEF Best
    <2> QED
      BY <2>2, SumOfZeros
  <1> QED
    BY <1>1, <1>2, <1>4, <1>5, LimitTypes DEF FitInv, ShareFits

(* Every step keeps what fits. *)
LEMMA FitStep == FitInv /\ [CapNext]_capVars => FitInv'
  <1> SUFFICES ASSUME FitInv, [CapNext]_capVars PROVE FitInv'
    OBVIOUS
  <1>1. CapTypeOK' /\ Builds' /\ capFaults' = capFaults
    BY CapTypeParts, CapTypes, BuildsKept, DepTypes DEF FitInv
  <1>2. Measured => CapHolder'
    BY HolderKept DEF FitInv, Reads
  <1>3. ASSUME NEW d \in CapDeployment, Measure(d) \/ Commit(d) PROVE FitInv'
    BY <1>1, <1>2, <1>3, MeasureKeeps, CommitKeeps
  <1>4. CASE \A d \in CapDeployment : ~Measure(d) /\ ~Commit(d)
    <2>1. Measured => \A e \in CapDeployment : NoMore(e)
      BY <1>4, LifeIsNoMore
    <2> QED
      BY <1>1, <1>2, <2>1, NoMoreKeeps
  <1> QED
    BY <1>3, <1>4

(* The invariant is inductive. *)
THEOREM FitInductive == CapSpec => []FitInv
  BY FitStep, FitInit, PTL DEF CapSpec

(* A reservation belongs to a request or a job under way, in every state
   (ResourcePolicyService.reserve).                                        *)
THEOREM CapacityTypes == CapSpec => []CapTypeOK
  <1>1. FitInv => CapTypeOK
    BY DEF FitInv
  <1> QED
    BY <1>1, FitInductive, PTL

(* What releases and reservations use together leaves the reserve of the VPS free,
   as long as the lock does not run out during a measurement and no superseded
   release comes back (ResourcePolicyService.reserve, under its lock of the VPS). *)
THEOREM CapacityIsKept == CapSpec => []CapacityFits
  <1>1. FitInv => CapacityFits
    BY FitsAreSums DEF FitInv
  <1> QED
    BY <1>1, FitInductive, PTL

------------------------------------------------------------------------------
(* The limit of projects.                                                 *)

(* A deployment that has passed the check of the limit, and one whose approval
   is under way.                                                           *)
Passed(d) == CountsAsActive(d) /\ Phase(d) # "created"
Approves(d) == Phase(d) \in Requesting /\ capDep[d].by = "approve"

Limited == capFaults \cap {"race", "start", "rollback"} = {}

LimitInv ==
  /\ capDep \in [CapDeployment -> DepType]
  /\ Limited =>
       /\ Cardinality(Admitted) <= ProjectLimit
       /\ \A d \in CapDeployment : Approves(d) => Cardinality(Admitted \ {CapProjectOf[d]}) < ProjectLimit
       /\ \A d, e \in CapDeployment : Approves(d) /\ Approves(e) => d = e

------------------------------------------------------------------------------
(* Sets of projects.                                                       *)

(* The admitted projects are finitely many, and fewer deployments that have
   passed admit no more projects.                                          *)
LEMMA AdmittedFinite == Admitted \subseteq CapProject /\ IsFiniteSet(Admitted)
  <1>1. Admitted \subseteq CapProject
    BY CapProjectAssumption DEF Admitted
  <1> QED
    BY <1>1, CapFiniteAssumption, FS_Subset

LEMMA AdmittedShrinks ==
  ASSUME \A d \in CapDeployment : Passed(d)' => Passed(d)
  PROVE  Admitted' \subseteq Admitted
  BY DEF Admitted, Passed

(* A smaller set of admitted projects keeps every bound. *)
LEMMA BoundsShrink ==
  ASSUME NEW S, NEW T, IsFiniteSet(S), T \subseteq S, NEW p
  PROVE  Cardinality(T) <= Cardinality(S) /\ Cardinality(T \ {p}) <= Cardinality(S \ {p})
  <1>1. IsFiniteSet(S \ {p}) /\ T \ {p} \subseteq S \ {p}
    BY FS_Subset
  <1> QED
    BY <1>1, FS_Subset

(* One more project fits under the limit. *)
LEMMA OneMore ==
  ASSUME NEW S, IsFiniteSet(S), NEW p, Cardinality(S \ {p}) < ProjectLimit
  PROVE  Cardinality(S \cup {p}) <= ProjectLimit
  <1> DEFINE R == S \ {p}
  <1>1. IsFiniteSet(R) /\ p \notin R /\ S \cup {p} = R \cup {p}
    BY FS_Subset
  <1> HIDE DEF R
  <1>2. Cardinality(R \cup {p}) = Cardinality(R) + 1 /\ Cardinality(R) \in Nat
    BY <1>1, FS_AddElement, FS_CardinalityType
  <1>3. Cardinality(R) < ProjectLimit
    BY DEF R
  <1> QED
    BY <1>1, <1>2, <1>3, CapSizeAssumption

(* A step after which no deployment has newly passed and none newly approves. *)
LEMMA LimitShrinks ==
  ASSUME LimitInv, capDep' \in [CapDeployment -> DepType], capFaults' = capFaults,
         \A d \in CapDeployment : Limited /\ Passed(d)' => Passed(d),
         \A d \in CapDeployment : Limited /\ Approves(d)' => Approves(d)
  PROVE  LimitInv'
  <1> SUFFICES ASSUME Limited
               PROVE  /\ Cardinality(Admitted') <= ProjectLimit
                      /\ \A d \in CapDeployment : Approves(d)' => Cardinality(Admitted' \ {CapProjectOf[d]}) < ProjectLimit
                      /\ \A d, e \in CapDeployment : Approves(d)' /\ Approves(e)' => d = e
    BY DEF LimitInv, Limited
  <1>1. Admitted' \subseteq Admitted /\ IsFiniteSet(Admitted) /\ IsFiniteSet(Admitted')
    <2>1. Admitted' \subseteq Admitted
      BY AdmittedShrinks
    <2> QED
      BY <2>1, AdmittedFinite, FS_Subset
  <1>2. \A p : Cardinality(Admitted') <= Cardinality(Admitted)
               /\ Cardinality(Admitted' \ {p}) <= Cardinality(Admitted \ {p})
    BY <1>1, BoundsShrink
  <1>3. \A p : /\ Cardinality(Admitted) \in Nat /\ Cardinality(Admitted \ {p}) \in Nat
               /\ Cardinality(Admitted') \in Nat /\ Cardinality(Admitted' \ {p}) \in Nat
    <2>1. \A p : IsFiniteSet(Admitted \ {p}) /\ IsFiniteSet(Admitted' \ {p})
      BY <1>1, FS_Subset
    <2> QED
      BY <1>1, <2>1, FS_CardinalityType
  <1>4. Cardinality(Admitted') <= ProjectLimit
    <2>1. Cardinality(Admitted) <= ProjectLimit
      BY DEF LimitInv
    <2>2. Cardinality(Admitted') <= Cardinality(Admitted)
      BY <1>2
    <2>3. Cardinality(Admitted) \in Nat /\ Cardinality(Admitted') \in Nat
      BY <1>3
    <2> QED
      BY <2>1, <2>2, <2>3, CapSizeAssumption
  <1>5. ASSUME NEW d \in CapDeployment, Approves(d)'
        PROVE  Cardinality(Admitted' \ {CapProjectOf[d]}) < ProjectLimit
    <2> DEFINE p == CapProjectOf[d]
    <2>1. Cardinality(Admitted \ {p}) < ProjectLimit
      BY <1>5 DEF LimitInv
    <2> HIDE DEF p
    <2>2. Cardinality(Admitted' \ {p}) <= Cardinality(Admitted \ {p})
      BY <1>2
    <2>3. Cardinality(Admitted \ {p}) \in Nat /\ Cardinality(Admitted' \ {p}) \in Nat
      BY <1>3
    <2>4. Cardinality(Admitted' \ {p}) < ProjectLimit
      BY <2>1, <2>2, <2>3, CapSizeAssumption
    <2> QED
      BY <2>4 DEF p
  <1>6. \A d, e \in CapDeployment : Approves(d)' /\ Approves(e)' => d = e
    BY DEF LimitInv
  <1> QED
    BY <1>4, <1>5, <1>6

------------------------------------------------------------------------------
(* The steps.                                                              *)

(* Most steps admit nobody. *)
LEMMA NobodyNew ==
  ASSUME LimitInv, [CapNext]_capVars,
         \A d \in CapDeployment : ~CapApprove(d) /\ ~CheckLimit(d) /\ ~CapPend(d)
  PROVE  \A e \in CapDeployment :
           /\ Limited /\ Passed(e)' => Passed(e)
           /\ Limited /\ Approves(e)' => Approves(e)
  <1> TAKE e \in CapDeployment
  <1> DEFINE Old == /\ Limited /\ Passed(e)' => Passed(e)
                    /\ Limited /\ Approves(e)' => Approves(e)
  <1> USE DEF LimitInv, Limited, DepType, CapGoto, Refuse, Phase, Passed, Approves, CountsAsActive, Requesting
  <1>1. ASSUME NEW d \in CapDeployment, CapCreate(d) \/ CapBuild(d) PROVE Old
    BY <1>1 DEF CapCreate, CapBuild
  <1>2. ASSUME NEW d \in CapDeployment, TakeLock(d) PROVE Old
    BY <1>2 DEF TakeLock
  <1>3. ASSUME NEW d \in CapDeployment, Measure(d) PROVE Old
    BY <1>3 DEF Measure
  <1>4. ASSUME NEW d \in CapDeployment, Commit(d) PROVE Old
    BY <1>4 DEF Commit
  <1>5. ASSUME NEW d \in CapDeployment, CapGate(d) \/ CapFail(d) \/ CapStop(d) \/ CapExpire(d) PROVE Old
    BY <1>5 DEF CapGate, CapFail, CapStop, CapExpire
  <1>6. ASSUME NEW d \in CapDeployment, CapStart(d) \/ CapRollback(d) PROVE Old
    BY <1>6 DEF CapStart, CapRollback
  <1>7. ASSUME NEW d \in CapDeployment, CapActivate(d) PROVE Old
    BY <1>7 DEF CapActivate
  <1>8. CASE CapLapse \/ UNCHANGED capVars
    BY <1>8 DEF CapLapse, capVars
  <1> QED
    BY <1>1, <1>2, <1>3, <1>4, <1>5, <1>6, <1>7, <1>8 DEF CapNext

(* The admitted projects but one are among the active ones the check counts. *)
LEMMA CheckCounts ==
  ASSUME NEW p, Cardinality(OtherActiveProjects(p)) < ProjectLimit
  PROVE  Cardinality(Admitted \ {p}) < ProjectLimit
  <1>1. OtherActiveProjects(p) \subseteq CapProject /\ IsFiniteSet(OtherActiveProjects(p))
    <2>1. OtherActiveProjects(p) \subseteq CapProject
      BY CapProjectAssumption DEF OtherActiveProjects
    <2> QED
      BY <2>1, CapFiniteAssumption, FS_Subset
  <1>2. Admitted \ {p} \subseteq OtherActiveProjects(p)
    BY DEF Admitted, OtherActiveProjects
  <1>3. /\ IsFiniteSet(Admitted \ {p})
        /\ Cardinality(Admitted \ {p}) <= Cardinality(OtherActiveProjects(p))
    BY <1>1, <1>2, FS_Subset
  <1>4. Cardinality(Admitted \ {p}) \in Nat /\ Cardinality(OtherActiveProjects(p)) \in Nat
    BY <1>1, <1>3, FS_CardinalityType
  <1> QED
    BY <1>3, <1>4, CapSizeAssumption

(* The check lets a deployment pass, or refuses it. *)
LEMMA CheckKeeps ==
  ASSUME LimitInv, capDep' \in [CapDeployment -> DepType], capFaults' = capFaults,
         NEW d \in CapDeployment, CheckLimit(d)
  PROVE  LimitInv'
  <1> DEFINE p == CapProjectOf[d]
  <1> USE DEF DepType, CapGoto, Refuse, Phase, Passed, Approves, CountsAsActive, Requesting
  <1>1. CASE Cardinality(OtherActiveProjects(p)) >= ProjectLimit
    <2>1. \A e \in CapDeployment : (Passed(e)' => Passed(e)) /\ (Approves(e)' => Approves(e))
      BY <1>1 DEF CheckLimit, LimitInv
    <2> QED
      BY <2>1, LimitShrinks
  <1>2. CASE ~(Cardinality(OtherActiveProjects(p)) >= ProjectLimit)
    <2>1. Cardinality(OtherActiveProjects(p)) < ProjectLimit
      <3>1. OtherActiveProjects(p) \subseteq CapProject
        BY CapProjectAssumption DEF OtherActiveProjects
      <3>2. Cardinality(OtherActiveProjects(p)) \in Nat
        BY <3>1, CapFiniteAssumption, FS_Subset, FS_CardinalityType
      <3> QED
        BY <1>2, <3>2, CapSizeAssumption
    <2>2. Phase(d) \in {"created", "building"} /\ capDep' = [capDep EXCEPT ![d].pc = "asking"]
      BY <1>2 DEF CheckLimit
    <2> SUFFICES ASSUME Limited PROVE LimitInv'
      BY DEF LimitInv, Limited
    <2>3. \A e \in CapDeployment : Passed(e)' => Passed(e) \/ e = d
      BY <2>2 DEF LimitInv
    <2>4. Admitted' \subseteq Admitted \cup {p}
      BY <2>3 DEF Admitted
    <2>5. Cardinality(Admitted \cup {p}) <= ProjectLimit /\ IsFiniteSet(Admitted \cup {p})
      BY <2>1, CheckCounts, OneMore, AdmittedFinite, FS_AddElement
    <2>6. Cardinality(Admitted') <= ProjectLimit
      <3>1. Cardinality(Admitted') <= Cardinality(Admitted \cup {p}) /\ IsFiniteSet(Admitted')
        BY <2>4, <2>5, FS_Subset
      <3> QED
        BY <2>5, <3>1, FS_CardinalityType, CapSizeAssumption
    <2>7. \A e \in CapDeployment : ~Approves(e)
      BY DEF CheckLimit, Approving, Limited
    <2>8. \A e \in CapDeployment : Approves(e)' => e = d /\ capDep[d].by = "approve"
      BY <2>2, <2>7 DEF LimitInv
    <2>9. \A e \in CapDeployment : Approves(e)' => Cardinality(Admitted' \ {CapProjectOf[e]}) < ProjectLimit
      <3>1. Admitted' \ {p} \subseteq Admitted \ {p}
        BY <2>4
      <3>2. IsFiniteSet(Admitted \ {p}) /\ Cardinality(Admitted \ {p}) < ProjectLimit
        BY <2>1, CheckCounts, AdmittedFinite, FS_Subset
      <3>3. IsFiniteSet(Admitted' \ {p}) /\ Cardinality(Admitted' \ {p}) <= Cardinality(Admitted \ {p})
        BY <3>1, <3>2, FS_Subset
      <3>4. Cardinality(Admitted' \ {p}) < ProjectLimit
        BY <3>2, <3>3, FS_CardinalityType, CapSizeAssumption
      <3> QED
        BY <2>8, <3>4
    <2> QED
      BY <2>6, <2>8, <2>9 DEF LimitInv
  <1> QED
    BY <1>1, <1>2

(* An approval begins when no other is under way. *)
LEMMA ApproveKeeps ==
  ASSUME LimitInv, capDep' \in [CapDeployment -> DepType], capFaults' = capFaults,
         NEW d \in CapDeployment, CapApprove(d)
  PROVE  LimitInv'
  <1> DEFINE p == CapProjectOf[d]
  <1> USE DEF DepType, Phase, Passed, Approves, CountsAsActive, Requesting
  <1> SUFFICES ASSUME Limited PROVE LimitInv'
    BY DEF LimitInv, Limited
  <1>1. /\ Phase(d) = "gate" /\ Cardinality(OtherActiveProjects(p)) < ProjectLimit
        /\ capDep' = [capDep EXCEPT ![d] = [pc |-> "asking", by |-> "approve"]]
        /\ \A e \in CapDeployment : ~Approves(e)
    BY DEF CapApprove, Approving, Limited
  <1>2. \A e \in CapDeployment : (Passed(e)' <=> Passed(e)) /\ (Approves(e)' => e = d)
    BY <1>1 DEF LimitInv
  <1>3. Admitted' = Admitted
    BY <1>2 DEF Admitted
  <1>4. Cardinality(Admitted \ {p}) < ProjectLimit
    BY <1>1, CheckCounts
  <1> QED
    BY <1>2, <1>3, <1>4 DEF LimitInv

(* The approval is done: its project is admitted. *)
LEMMA PendKeeps ==
  ASSUME LimitInv, capDep' \in [CapDeployment -> DepType], capFaults' = capFaults,
         NEW d \in CapDeployment, CapPend(d)
  PROVE  LimitInv'
  <1> DEFINE p == CapProjectOf[d]
  <1> USE DEF DepType, CapGoto, Phase, Passed, Approves, CountsAsActive, Requesting
  <1>1. Phase(d) = "reserved" /\ capDep' = [capDep EXCEPT ![d].pc = "queued"]
    BY DEF CapPend
  <1>2. CASE ~Approves(d)
    <2>1. \A e \in CapDeployment : (Passed(e)' => Passed(e)) /\ (Approves(e)' => Approves(e))
      BY <1>1, <1>2 DEF LimitInv
    <2> QED
      BY <2>1, LimitShrinks
  <1>3. CASE Approves(d)
    <2> SUFFICES ASSUME Limited PROVE LimitInv'
      BY DEF LimitInv, Limited
    <2>1. \A e \in CapDeployment : (Passed(e)' => Passed(e) \/ e = d) /\ ~Approves(e)'
      BY <1>1, <1>3 DEF LimitInv
    <2>2. Admitted' \subseteq Admitted \cup {p}
      BY <2>1 DEF Admitted
    <2>3. Cardinality(Admitted \cup {p}) <= ProjectLimit /\ IsFiniteSet(Admitted \cup {p})
      BY <1>3, OneMore, AdmittedFinite, FS_AddElement DEF LimitInv
    <2>4. Cardinality(Admitted') <= ProjectLimit
      <3>1. Cardinality(Admitted') <= Cardinality(Admitted \cup {p}) /\ IsFiniteSet(Admitted')
        BY <2>2, <2>3, FS_Subset
      <3> QED
        BY <2>3, <3>1, FS_CardinalityType, CapSizeAssumption
    <2> QED
      BY <2>1, <2>4 DEF LimitInv
  <1> QED
    BY <1>2, <1>3

------------------------------------------------------------------------------
(* In the initial state nothing is admitted. *)
LEMMA LimitInit == CapInit => LimitInv
  <1> SUFFICES ASSUME CapInit PROVE LimitInv
    OBVIOUS
  <1>1. capDep \in [CapDeployment -> DepType]
    BY DEF CapInit, DepType, CapPhase
  <1>2. \A d \in CapDeployment : ~Passed(d) /\ ~Approves(d)
    BY DEF CapInit, Passed, Approves, CountsAsActive, Phase, Requesting
  <1>3. Admitted = {}
    BY <1>2 DEF Admitted, Passed
  <1>4. Cardinality(Admitted) <= ProjectLimit
    BY <1>3, FS_EmptySet, CapSizeAssumption
  <1> QED
    BY <1>1, <1>2, <1>4 DEF LimitInv

(* Every step keeps the limit. *)
LEMMA LimitStep == LimitInv /\ [CapNext]_capVars => LimitInv'
  <1> SUFFICES ASSUME LimitInv, [CapNext]_capVars PROVE LimitInv'
    OBVIOUS
  <1>1. capDep' \in [CapDeployment -> DepType] /\ capFaults' = capFaults
    BY DepTypes DEF LimitInv
  <1>2. ASSUME NEW d \in CapDeployment, CapApprove(d) \/ CheckLimit(d) \/ CapPend(d) PROVE LimitInv'
    BY <1>1, <1>2, ApproveKeeps, CheckKeeps, PendKeeps
  <1>3. CASE \A d \in CapDeployment : ~CapApprove(d) /\ ~CheckLimit(d) /\ ~CapPend(d)
    <2>1. \A e \in CapDeployment :
            /\ Limited /\ Passed(e)' => Passed(e)
            /\ Limited /\ Approves(e)' => Approves(e)
      BY <1>3, NobodyNew
    <2> QED
      BY <1>1, <2>1, LimitShrinks
  <1> QED
    BY <1>2, <1>3

(* The invariant is inductive. *)
THEOREM LimitInductive == CapSpec => []LimitInv
  BY LimitInit, LimitStep, PTL DEF CapSpec

(* An owner never has more active projects than the limit, also when several
   projects are deployed at once (ResourcePolicyService.enforceActiveProjectLimit). *)
THEOREM LimitHolds == CapSpec => []ProjectLimitKept
  <1>1. LimitInv => ProjectLimitKept
    BY DEF LimitInv, ProjectLimitKept, Limited
  <1> QED
    BY <1>1, LimitInductive, PTL

------------------------------------------------------------------------------
(* The pushes of a repository.                                             *)

Open(i) == hookCall[i].pc \in {"recorded", "queueing", "queued"}

(* What one request knows of its push: the row is there and nobody else
   answers it, and whether the push has been queued.                       *)
CallInv ==
  \A i \in Delivery :
    /\ hookCall[i].pc # "idle" => hookCall[i].push \in Push
    /\ Open(i) => hookRow[hookCall[i].push] = "RECEIVED"
    /\ hookCall[i].pc \in {"recorded", "queueing"} => hookStarted[hookCall[i].push] = 0
    /\ hookCall[i].pc = "queued" => hookStarted[hookCall[i].push] = 1

OneAnswers ==
  \A i, j \in Delivery : Open(i) /\ Open(j) /\ hookCall[i].push = hookCall[j].push => i = j

StartedInv == \A p \in Push : hookRow[p] = "none" => hookStarted[p] = 0

HookIInv == HookTypeOK /\ CallInv /\ OneAnswers /\ StartedInv /\ OnePerPush

------------------------------------------------------------------------------
(* In the initial state no request has been made and no row exists.        *)
LEMMA InitHook == HookInit => HookIInv
  <1> SUFFICES ASSUME HookInit PROVE HookIInv
    OBVIOUS
  <1> USE HookBounds, HookFaultAssumption DEF HookInit, Push, Delivery, NoDelivery
  <1>1. HookTypeOK
    BY DEF HookTypeOK
  <1>2. CallInv /\ OneAnswers
    BY DEF CallInv, OneAnswers, Open
  <1>3. StartedInv /\ OnePerPush
    BY DEF StartedInv, OnePerPush
  <1> QED
    BY <1>1, <1>2, <1>3 DEF HookIInv

(* Taking a delivery: a new row for a push nobody has recorded, or a 409.   *)
LEMMA ReceiveKeeps ==
  ASSUME HookIInv, NEW i \in Delivery, NEW p \in Push, Receive(i, p)
  PROVE  HookIInv'
  <1> USE HookBounds DEF Push, Delivery, NoDelivery
  <1>1. HookTypeOK'
    <2>1. \E c \in {[pc |-> "recorded", push |-> p], [pc |-> "answered", push |-> p]} :
            hookCall' = [hookCall EXCEPT ![i] = c]
      BY DEF Receive
    <2>2. /\ hookCall' \in [Delivery -> [pc : {"idle", "recorded", "queueing", "queued", "answered"}, push : 0..MaxPush]]
          /\ \A j \in Delivery \ {i} : hookCall'[j] = hookCall[j]
      BY <2>1 DEF HookIInv, HookTypeOK
    <2>3. hookRow' \in [Push -> {"none", "RECEIVED", "PROCESSED", "FAILED"}]
      BY DEF HookIInv, HookTypeOK, Receive
    <2>4. /\ hookCall[i].pc = "idle"
          /\ UNCHANGED <<hookHead, hookLock, hookStarted, hookQueued, hookRun, hookLive, hookFaults>>
      BY DEF Receive
    <2>5. hookLock' \in {NoDelivery} \cup {j \in Delivery : "die" \in hookFaults' \/ hookCall'[j].pc = "queueing"}
      BY <2>2, <2>4 DEF HookIInv, HookTypeOK
    <2> QED
      BY <2>2, <2>3, <2>4, <2>5 DEF HookIInv, HookTypeOK
  <1>2. CASE hookRow[p] = "none"
    <2>1. /\ hookRow' = [hookRow EXCEPT ![p] = "RECEIVED"]
          /\ hookCall' = [hookCall EXCEPT ![i] = [pc |-> "recorded", push |-> p]]
          /\ hookStarted' = hookStarted
          /\ hookCall[i].pc = "idle"
      BY <1>2 DEF Receive
    <2>2. \A j \in Delivery : Open(j) => hookCall[j].push # p
      BY <1>2 DEF HookIInv, CallInv
    <2>3. hookStarted[p] = 0
      BY <1>2 DEF HookIInv, StartedInv
    <2>4. CallInv'
      BY <2>1, <2>2, <2>3 DEF HookIInv, HookTypeOK, CallInv, Open
    <2>5. OneAnswers'
      BY <2>1, <2>2 DEF HookIInv, HookTypeOK, OneAnswers, Open
    <2>6. StartedInv' /\ OnePerPush'
      BY <2>1 DEF HookIInv, HookTypeOK, StartedInv, OnePerPush
    <2> QED
      BY <1>1, <2>4, <2>5, <2>6 DEF HookIInv
  <1>3. CASE hookRow[p] # "none"
    <2>1. /\ hookCall' = [hookCall EXCEPT ![i] = [pc |-> "answered", push |-> p]]
          /\ hookRow' = hookRow /\ hookStarted' = hookStarted
      BY <1>3 DEF Receive
    <2>2. CallInv' /\ OneAnswers'
      BY <2>1 DEF HookIInv, HookTypeOK, CallInv, OneAnswers, Open
    <2>3. StartedInv' /\ OnePerPush'
      BY <2>1 DEF HookIInv, StartedInv, OnePerPush
    <2> QED
      BY <1>1, <2>2, <2>3 DEF HookIInv
  <1> QED
    BY <1>2, <1>3

(* An answer ends the request i and settles the row of its push.            *)
LEMMA AnswerKeeps ==
  ASSUME HookIInv, NEW i \in Delivery, Open(i), NEW status \in {"PROCESSED", "FAILED"},
         status = "PROCESSED" => hookCall[i].pc = "queued",
         HookAnswers(i, status), UNCHANGED hookStarted
  PROVE  /\ hookRow' \in [Push -> {"none", "RECEIVED", "PROCESSED", "FAILED"}]
         /\ hookCall' \in [Delivery -> [pc : {"idle", "recorded", "queueing", "queued", "answered"}, push : 0..MaxPush]]
         /\ \A j \in Delivery \ {i} : hookCall'[j] = hookCall[j]
         /\ (CallInv /\ OneAnswers /\ StartedInv /\ OnePerPush)'
  <1> DEFINE p == hookCall[i].push
  <1> USE HookBounds DEF Push, Delivery
  <1>1. p \in Push /\ hookRow[p] = "RECEIVED"
    BY DEF HookIInv, CallInv, Open
  <1>2. /\ hookRow' = [hookRow EXCEPT ![p] = status]
        /\ hookCall' = [hookCall EXCEPT ![i].pc = "answered"]
        /\ hookStarted' = hookStarted
    BY DEF HookAnswers, HookGoes
  <1>3. /\ hookRow' \in [Push -> {"none", "RECEIVED", "PROCESSED", "FAILED"}]
        /\ hookCall' \in [Delivery -> [pc : {"idle", "recorded", "queueing", "queued", "answered"}, push : 0..MaxPush]]
        /\ \A j \in Delivery \ {i} : hookCall'[j] = hookCall[j]
        /\ hookCall'[i].pc = "answered" /\ hookCall'[i].push = p
    BY <1>1, <1>2 DEF HookIInv, HookTypeOK
  <1>4. \A j \in Delivery \ {i} : Open(j) => hookCall[j].push # p
    BY DEF HookIInv, OneAnswers
  <1>5. CallInv'
    BY <1>1, <1>2, <1>3, <1>4 DEF HookIInv, HookTypeOK, CallInv, Open
  <1>6. OneAnswers'
    BY <1>3 DEF HookIInv, OneAnswers, Open
  <1>7. StartedInv'
    BY <1>1, <1>2 DEF HookIInv, HookTypeOK, StartedInv
  <1>8. OnePerPush'
    BY <1>1, <1>2 DEF HookIInv, HookTypeOK, CallInv, OnePerPush
  <1> QED
    BY <1>3, <1>5, <1>6, <1>7, <1>8

(* deployProject takes the lock of the project, or refuses.                *)
LEMMA LockKeeps ==
  ASSUME HookIInv, NEW i \in Delivery, Lock(i) PROVE HookIInv'
  <1> USE HookBounds DEF Delivery, NoDelivery
  <1>0. hookCall[i].pc = "recorded" /\ Open(i)
    BY DEF Lock, Open
  <1>1. CASE hookLock = NoDelivery
    <2>1. /\ hookLock' = i /\ hookCall' = [hookCall EXCEPT ![i].pc = "queueing"]
          /\ hookRow' = hookRow /\ hookStarted' = hookStarted
      BY <1>1 DEF Lock, HookGoes
    <2>2. HookTypeOK'
      BY <1>1, <2>1 DEF HookIInv, HookTypeOK, Lock
    <2>3. CallInv' /\ OneAnswers'
      BY <1>0, <2>1 DEF HookIInv, HookTypeOK, CallInv, OneAnswers, Open
    <2>4. StartedInv' /\ OnePerPush'
      BY <2>1 DEF HookIInv, StartedInv, OnePerPush
    <2> QED
      BY <2>2, <2>3, <2>4 DEF HookIInv
  <1>2. CASE hookLock # NoDelivery
    <2>1. HookAnswers(i, "FAILED") /\ UNCHANGED <<hookLock, hookStarted>>
      BY <1>2 DEF Lock
    <2>2. /\ hookRow' \in [Push -> {"none", "RECEIVED", "PROCESSED", "FAILED"}]
          /\ hookCall' \in [Delivery -> [pc : {"idle", "recorded", "queueing", "queued", "answered"}, push : 0..MaxPush]]
          /\ \A j \in Delivery \ {i} : hookCall'[j] = hookCall[j]
          /\ (CallInv /\ OneAnswers /\ StartedInv /\ OnePerPush)'
      BY <1>0, <2>1, AnswerKeeps
    <2>3. HookTypeOK'
      BY <1>0, <2>1, <2>2 DEF HookIInv, HookTypeOK, Lock
    <2> QED
      BY <2>2, <2>3 DEF HookIInv
  <1> QED
    BY <1>1, <1>2

(* The deployment of the push is queued: for the first time, because only one
   request answers the push and it has not started one.                    *)
LEMMA QueueKeeps ==
  ASSUME HookIInv, NEW i \in Delivery, Queue(i) PROVE HookIInv'
  <1> DEFINE p == hookCall[i].push
  <1> USE HookBounds DEF Push, Delivery, NoDelivery
  <1>1. /\ hookCall[i].pc = "queueing" /\ Open(i)
        /\ p \in Push /\ hookRow[p] = "RECEIVED" /\ hookStarted[p] = 0
    BY DEF HookIInv, CallInv, Queue, Open
  <1>2. /\ hookStarted' = [hookStarted EXCEPT ![p] = 1]
        /\ hookCall' = [hookCall EXCEPT ![i].pc = "queued"]
        /\ hookRow' = hookRow
    BY <1>1 DEF Queue, HookGoes, HookIInv, HookTypeOK
  <1>3. \A j \in Delivery \ {i} : Open(j) => hookCall[j].push # p
    BY <1>1 DEF HookIInv, OneAnswers
  <1>4. HookTypeOK'
    BY <1>1, <1>2 DEF HookIInv, HookTypeOK, Queue
  <1>5. CallInv' /\ OneAnswers'
    BY <1>1, <1>2, <1>3 DEF HookIInv, HookTypeOK, CallInv, OneAnswers, Open
  <1>6. StartedInv' /\ OnePerPush'
    BY <1>1, <1>2 DEF HookIInv, HookTypeOK, StartedInv, OnePerPush
  <1> QED
    BY <1>4, <1>5, <1>6 DEF HookIInv

(* Queueing fails: the lock is given back and the delivery answered FAILED. *)
LEMMA QueueFailsKeeps ==
  ASSUME HookIInv, NEW i \in Delivery, QueueFails(i) PROVE HookIInv'
  <1>1. Open(i) /\ HookAnswers(i, "FAILED") /\ UNCHANGED hookStarted
    BY DEF QueueFails, Open
  <1>2. /\ hookRow' \in [Push -> {"none", "RECEIVED", "PROCESSED", "FAILED"}]
        /\ hookCall' \in [Delivery -> [pc : {"idle", "recorded", "queueing", "queued", "answered"}, push : 0..MaxPush]]
        /\ (CallInv /\ OneAnswers /\ StartedInv /\ OnePerPush)'
    BY <1>1, AnswerKeeps
  <1>3. HookTypeOK'
    BY <1>2 DEF HookIInv, HookTypeOK, QueueFails
  <1> QED
    BY <1>2, <1>3 DEF HookIInv

(* The delivery is shown as PROCESSED by the request that has queued it.    *)
LEMMA ProcessedKeeps ==
  ASSUME HookIInv, NEW i \in Delivery, Processed(i) PROVE HookIInv'
  <1>1. Open(i) /\ hookCall[i].pc = "queued" /\ HookAnswers(i, "PROCESSED") /\ UNCHANGED hookStarted
    BY DEF Processed, Open
  <1>2. /\ hookRow' \in [Push -> {"none", "RECEIVED", "PROCESSED", "FAILED"}]
        /\ hookCall' \in [Delivery -> [pc : {"idle", "recorded", "queueing", "queued", "answered"}, push : 0..MaxPush]]
        /\ \A j \in Delivery \ {i} : hookCall'[j] = hookCall[j]
        /\ (CallInv /\ OneAnswers /\ StartedInv /\ OnePerPush)'
    BY <1>1, AnswerKeeps
  <1>3. HookTypeOK'
    BY <1>1, <1>2 DEF HookIInv, HookTypeOK, Processed
  <1> QED
    BY <1>2, <1>3 DEF HookIInv

(* A request that dies leaves row, lock and deployment as they are.         *)
LEMMA DiesKeeps ==
  ASSUME HookIInv, NEW i \in Delivery, HookDies(i) PROVE HookIInv'
  <1> USE HookBounds DEF Push, Delivery, NoDelivery
  <1>1. /\ hookCall' = [hookCall EXCEPT ![i].pc = "answered"]
        /\ hookRow' = hookRow /\ hookStarted' = hookStarted
        /\ hookCall[i].pc # "idle"
    BY DEF HookDies, HookGoes
  <1>2. HookTypeOK'
    BY <1>1 DEF HookIInv, HookTypeOK, HookDies
  <1>3. CallInv' /\ OneAnswers'
    BY <1>1 DEF HookIInv, HookTypeOK, CallInv, OneAnswers, Open
  <1>4. StartedInv' /\ OnePerPush'
    BY <1>1 DEF HookIInv, StartedInv, OnePerPush
  <1> QED
    BY <1>2, <1>3, <1>4 DEF HookIInv

(* The branch, the runs and the lapse of the lock touch no request.         *)
LEMMA RunsKeep ==
  ASSUME HookIInv,
         \/ HookPush \/ HookLapse \/ HookClone \/ HookGoesLive \/ HookRunFails
         \/ \E p \in Push : HookStart(p)
         \/ UNCHANGED hookVars
  PROVE  HookIInv'
  <1>1. hookCall' = hookCall /\ hookRow' = hookRow /\ hookStarted' = hookStarted
    BY DEF HookPush, HookLapse, HookClone, HookGoesLive, HookRunFails, HookStart, hookVars
  <1>2. (CallInv /\ OneAnswers /\ StartedInv /\ OnePerPush)'
    BY <1>1 DEF HookIInv, CallInv, OneAnswers, StartedInv, OnePerPush, Open
  <1>3. HookTypeOK'
    <2> USE HookBounds DEF HookIInv, HookTypeOK, Push, Delivery, NoDelivery
    <2>1. ASSUME HookPush PROVE HookTypeOK'
      BY <2>1 DEF HookPush
    <2>2. ASSUME HookLapse PROVE HookTypeOK'
      BY <2>2 DEF HookLapse
    <2>3. ASSUME HookClone PROVE HookTypeOK'
      BY <2>3 DEF HookClone, Cloned
    <2>4. ASSUME HookGoesLive PROVE HookTypeOK'
      BY <2>4 DEF HookGoesLive, HookIdle
    <2>5. ASSUME HookRunFails PROVE HookTypeOK'
      BY <2>5 DEF HookRunFails, HookIdle
    <2>6. ASSUME NEW p \in Push, HookStart(p) PROVE HookTypeOK'
      BY <2>6 DEF HookStart
    <2>7. ASSUME UNCHANGED hookVars PROVE HookTypeOK'
      BY <2>7 DEF hookVars
    <2> QED
      BY <2>1, <2>2, <2>3, <2>4, <2>5, <2>6, <2>7
  <1> QED
    BY <1>2, <1>3 DEF HookIInv

------------------------------------------------------------------------------
(* Every step keeps what the deliveries share. *)
LEMMA HookStep == HookIInv /\ [HookNext]_hookVars => HookIInv'
  <1> SUFFICES ASSUME HookIInv, [HookNext]_hookVars PROVE HookIInv'
    OBVIOUS
  <1>1. ASSUME NEW i \in Delivery, NEW p \in Push, Receive(i, p) PROVE HookIInv'
    BY <1>1, ReceiveKeeps
  <1>2. ASSUME NEW i \in Delivery, Lock(i) \/ Queue(i) \/ QueueFails(i) \/ Processed(i) \/ HookDies(i)
        PROVE HookIInv'
    BY <1>2, LockKeeps, QueueKeeps, QueueFailsKeeps, ProcessedKeeps, DiesKeeps
  <1> QED
    BY <1>1, <1>2, RunsKeep DEF HookNext

(* The invariant is inductive.                                             *)
THEOREM HookInductive == HookSpec => []HookIInv
  <1>1. HookInit => HookIInv
    BY InitHook
  <1> QED
    BY <1>1, HookStep, PTL DEF HookSpec

(* Types, and the lock of the project is held by a request that is queueing
   unless a process has died.                                              *)
THEOREM HookTypes == HookSpec => []HookTypeOK
  <1>1. HookIInv => HookTypeOK
    BY DEF HookIInv
  <1> QED
    BY <1>1, HookInductive, PTL

(* A push starts at most one deployment however often it is delivered, and a
   delivery shown as PROCESSED has started it (webhookRoutes).             *)
THEOREM PushStartsOnce == HookSpec => []OnePerPush
  <1>1. HookIInv => OnePerPush
    BY DEF HookIInv
  <1> QED
    BY <1>1, HookInductive, PTL

------------------------------------------------------------------------------
(* The head of the branch.                                                 *)

(* The last commit, once its push has started a deployment, is live, or it is what
   a run has cloned, or some run that has not cloned yet will find it: the one that
   is running, or the one that waits.  Nothing newer than the head exists.  *)
HeadInv ==
  /\ \A p \in Push : hookRow[p] # "none" => p <= hookHead
  /\ hookLive <= hookHead /\ hookRun.commit <= hookHead
  /\ "fail" \notin hookFaults /\ hookHead \in Push /\ hookStarted[hookHead] = 1 =>
       \/ hookHead \in hookQueued \/ hookRun.pc = "running"
       \/ hookRun.pc = "cloned" /\ hookRun.commit = hookHead
       \/ hookRun.pc = "idle" /\ hookLive = hookHead

(* Deliveries: the one that queues the push of the head leaves a run that will find it. *)
LEMMA DeliveriesKeepHead ==
  ASSUME HookIInv, HeadInv, NEW i \in Delivery,
         \/ Lock(i) \/ Queue(i) \/ QueueFails(i) \/ Processed(i) \/ HookDies(i)
         \/ \E p \in Push : Receive(i, p)
  PROVE  HeadInv'
  <1> USE HookBounds DEF Push, Delivery
  <1>1. UNCHANGED <<hookHead, hookRun, hookLive, hookFaults>>
    BY DEF Lock, Queue, QueueFails, Processed, HookDies, Receive
  <1>2. \A p \in Push : hookRow'[p] # "none" => p <= hookHead
    <2>1. ASSUME NEW p \in Push, Receive(i, p) PROVE \A q \in Push : hookRow'[q] # "none" => q <= hookHead
      BY <2>1 DEF HeadInv, HookIInv, HookTypeOK, Receive
    <2>2. ASSUME NEW s, HookAnswers(i, s), Open(i) PROVE \A q \in Push : hookRow'[q] # "none" => q <= hookHead
      BY <2>2 DEF HeadInv, HookIInv, HookTypeOK, CallInv, HookAnswers, Open
    <2>3. (\E s : HookAnswers(i, s) /\ Open(i)) \/ hookRow' = hookRow \/ \E p \in Push : Receive(i, p)
      BY DEF Lock, Queue, QueueFails, Processed, HookDies, Open
    <2> QED
      BY <2>1, <2>2, <2>3 DEF HeadInv
  <1>3. \/ UNCHANGED <<hookQueued, hookStarted>>
        \/ /\ hookQueued' = hookQueued \cup {hookCall[i].push}
           /\ hookStarted' = [hookStarted EXCEPT ![hookCall[i].push] = @ + 1]
    BY DEF Lock, Queue, QueueFails, Processed, HookDies, Receive
  <1>4. hookHead \in Push /\ hookStarted'[hookHead] = 1 => hookStarted[hookHead] = 1 \/ hookHead \in hookQueued'
    BY <1>3 DEF HookIInv, HookTypeOK
  <1>5. hookQueued \subseteq hookQueued'
    BY <1>3
  <1> QED
    BY <1>1, <1>2, <1>4, <1>5 DEF HeadInv

(* Runs and pushes: a run that clones finds the head, a new head has not been delivered. *)
LEMMA RunsKeepHead ==
  ASSUME HookIInv, HeadInv,
         \/ HookPush \/ HookLapse \/ HookClone \/ HookGoesLive \/ HookRunFails
         \/ \E p \in Push : HookStart(p)
         \/ UNCHANGED hookVars
  PROVE  HeadInv'
  <1> USE HookBounds DEF Push, HookIInv, HookTypeOK, HeadInv
  <1>1. ASSUME HookPush PROVE HeadInv'
    <2>1. hookHead' \in Push /\ hookRow[hookHead'] = "none" /\ hookStarted[hookHead'] = 0
      BY <1>1 DEF HookPush, StartedInv
    <2> QED
      BY <1>1, <2>1 DEF HookPush
  <1>2. ASSUME HookLapse PROVE HeadInv'
    BY <1>2 DEF HookLapse
  <1>3. ASSUME HookClone PROVE HeadInv'
    BY <1>3 DEF HookClone, Cloned
  <1>4. ASSUME HookGoesLive PROVE HeadInv'
    BY <1>4 DEF HookGoesLive, HookIdle
  <1>5. ASSUME HookRunFails PROVE HeadInv'
    BY <1>5 DEF HookRunFails, HookIdle
  <1>6. ASSUME NEW p \in Push, HookStart(p) PROVE HeadInv'
    BY <1>6 DEF HookStart
  <1>7. ASSUME UNCHANGED hookVars PROVE HeadInv'
    BY <1>7 DEF hookVars
  <1> QED
    BY <1>1, <1>2, <1>3, <1>4, <1>5, <1>6, <1>7

(* In the initial state nothing has been pushed. *)
LEMMA HeadInit == HookInit => HeadInv
  BY HookBounds DEF HookInit, HeadInv, Push

(* Every step keeps what is known of the last push. *)
LEMMA HeadStep == HookIInv /\ HeadInv /\ [HookNext]_hookVars => HeadInv'
  BY DeliveriesKeepHead, RunsKeepHead DEF HookNext

(* When all has been done, the last push is live. *)
LEMMA HeadMeans == HookIInv /\ HeadInv => HeadIsLive
  <1> SUFFICES ASSUME HookIInv, HeadInv, "fail" \notin hookFaults, hookQueued = {}, hookRun = HookIdle,
                      \A p \in Push : p <= hookHead => hookRow[p] = "PROCESSED"
               PROVE  hookLive = hookHead
    BY DEF HeadIsLive
  <1> USE HookBounds DEF Push, HookIInv, HookTypeOK
  <1>1. CASE hookHead = 0
    BY <1>1 DEF HeadInv
  <1>2. CASE hookHead # 0
    <2>1. hookHead \in Push /\ hookStarted[hookHead] = 1
      BY <1>2 DEF OnePerPush
    <2> QED
      BY <2>1 DEF HeadInv, HookIdle
  <1> QED
    BY <1>1, <1>2

(* Once every push has been delivered and nothing is under way the last commit is
   live, in whatever order pushes are delivered and run (README.md:19).    *)
THEOREM LastCommitIsLive == HookSpec => []HeadIsLive
  BY HeadInit, HeadStep, HeadMeans, HookInductive, PTL DEF HookSpec
===============================================================================
