------------------------ MODULE DashboardView_proofs ------------------------
(***************************************************************************)
(* The views of a run for any rows of any sources, any prices, windows and *)
(* limits: a poll of a running run is answered, every way of adding up a   *)
(* section gives the same dollars, the rate sheet does not depend on the   *)
(* order of its rows, a forecast ends at zero, and settling moves no       *)
(* number.                                                                 *)
(***************************************************************************)
EXTENDS DashboardView, FiniteSetTheorems, TLAPS

(***************************************************************************)
(* Sums and sorts.  The operators come from the community modules and are  *)
(* defined by recursion over finite sets; what is needed of them is proved *)
(* by induction over the naturals and over finite sets, stated with sets of*)
(* numbers and of sets in place of predicates.                             *)
(***************************************************************************)
LEMMA NatSetInduction ==
    ASSUME NEW G, 0 \in G, \A n \in Nat : n \in G => n + 1 \in G
    PROVE  Nat \subseteq G
<1>1. SUFFICES ASSUME Nat \ G # {} PROVE FALSE
  OBVIOUS
<1> DEFINE R == OpToRel(<, Nat)
           B == Nat \ G
<1>2. IsWellFoundedOn(R, Nat)
  BY NatLessThanWellFounded
<1>3. \E n \in B : \A m \in B : ~ (<<m, n>> \in R)
  <2> HIDE DEF R
  <2> B \subseteq Nat /\ B # {}
    BY <1>1
  <2> HIDE DEF B
  <2> QED BY <1>2, WFMin
<1>4. PICK n \in B : \A m \in B : ~ (<<m, n>> \in R)
  BY <1>3
<1>5. n # 0 /\ n \in Nat /\ n - 1 \in Nat
  OBVIOUS
<1>6. <<n - 1, n>> \in R
  BY <1>5 DEF OpToRel
<1>7. n - 1 \in G
  BY <1>4, <1>5, <1>6
<1> QED BY <1>5, <1>7

LEMMA FiniteSetInduction ==
    ASSUME NEW S, IsFiniteSet(S), NEW G, {} \in G,
           \A T \in SUBSET S : \A x \in S \ T : T \in G => T \cup {x} \in G
    PROVE  S \in G
<1> DEFINE R == StrictSubsetOrdering(S)
           B == (SUBSET S) \ G
<1>1. SUFFICES ASSUME S \notin G PROVE FALSE
  OBVIOUS
<1>2. FiniteSubsetsOf(S) = SUBSET S
  BY FS_FiniteSubsetsOfFinite
<1>3. IsWellFoundedOn(R, SUBSET S)
  BY <1>2, FS_StrictSubsetOrderingWellFounded
<1>4. \E T \in B : \A U \in B : ~ (<<U, T>> \in R)
  <2> HIDE DEF R
  <2> B \subseteq SUBSET S /\ B # {}
    BY <1>1
  <2> HIDE DEF B
  <2> QED BY <1>3, WFMin
<1>5. PICK T \in B : \A U \in B : ~ (<<U, T>> \in R)
  BY <1>4
<1>6. PICK x : x \in T
  OBVIOUS
<1> DEFINE U == T \ {x}
<1>7. <<U, T>> \in R
  BY <1>6 DEF StrictSubsetOrdering
<1>8. U \in G
  BY <1>5, <1>7
<1>9. U \cup {x} = T
  BY <1>6
<1> QED BY <1>8, <1>9, <1>6

\* The sum of f over T, as MapThenSumSet unfolds it: one element at a time.
Pick(T) == CHOOSE x \in T : TRUE
Adds(f, g, T) == g[T] = IF T = {} THEN 0 ELSE f[Pick(T)] + g[T \ {Pick(T)}]

LEMMA PickIn == ASSUME NEW T, T # {} PROVE Pick(T) \in T
BY DEF Pick

LEMMA SumExists ==
    ASSUME NEW S, IsFiniteSet(S), NEW f \in [S -> Int]
    PROVE  \E g \in [SUBSET S -> Int] : \A T \in SUBSET S : Adds(f, g, T)
<1> DEFINE Upto(g, n) == \A T \in SUBSET S : Cardinality(T) <= n => Adds(f, g, T)
           G == {n \in Nat : \E g \in [SUBSET S -> Int] : Upto(g, n)}
<1>1. \A T \in SUBSET S : IsFiniteSet(T) /\ Cardinality(T) \in Nat
                          /\ Cardinality(T) <= Cardinality(S)
  BY FS_Subset, FS_CardinalityType
<1>2. 0 \in G
  <2> DEFINE g == [T \in SUBSET S |-> 0]
  <2>1. \A T \in SUBSET S : Cardinality(T) <= 0 => T = {}
    BY <1>1, FS_EmptySet
  <2>2. g \in [SUBSET S -> Int] /\ Upto(g, 0)
    BY <2>1 DEF Adds
  <2> QED BY <2>2
<1>3. ASSUME NEW n \in Nat, n \in G
      PROVE  n + 1 \in G
  <2>1. PICK g \in [SUBSET S -> Int] : Upto(g, n)
    BY <1>3
  <2> DEFINE h == [T \in SUBSET S |->
                     IF Cardinality(T) <= n THEN g[T]
                     ELSE IF T = {} THEN 0 ELSE f[Pick(T)] + g[T \ {Pick(T)}]]
  <2>2. h \in [SUBSET S -> Int]
    <3> SUFFICES ASSUME NEW T \in SUBSET S, T # {}
                 PROVE  f[Pick(T)] + g[T \ {Pick(T)}] \in Int
      BY <2>1
    <3> QED BY PickIn
  <2>3. ASSUME NEW T \in SUBSET S, Cardinality(T) <= n + 1
        PROVE  Adds(f, h, T)
    <3>1. CASE T = {}
      BY <3>1, <2>1 DEF Adds
    <3>2. CASE T # {}
      <4> DEFINE U == T \ {Pick(T)}
      <4>1. U \in SUBSET S /\ Cardinality(U) = Cardinality(T) - 1
        BY <3>2, <1>1, PickIn, FS_RemoveElement
      <4>2. h[U] = g[U]
        BY <4>1, <1>1, <2>3
      <4>3. h[T] = f[Pick(T)] + g[U]
        BY <2>1, <3>2 DEF Adds
      <4> QED BY <3>2, <4>2, <4>3 DEF Adds
    <3> QED BY <3>1, <3>2
  <2>4. Upto(h, n + 1)
    BY <2>3
  <2> HIDE DEF h, Upto
  <2> QED BY <2>2, <2>4
<1>4. Cardinality(S) \in G
  <2> HIDE DEF G
  <2> QED BY <1>2, <1>3, NatSetInduction, FS_CardinalityType
<1> QED BY <1>1, <1>4

\* It does not matter which element is taken first.
LEMMA AddsAnywhere ==
    ASSUME NEW S, IsFiniteSet(S), NEW f \in [S -> Int], NEW g,
           \A T \in SUBSET S : Adds(f, g, T)
    PROVE  \A T \in SUBSET S : /\ g[T] \in Int
                              /\ \A x \in T : g[T] = f[x] + g[T \ {x}]
<1> DEFINE P(T) == /\ g[T] \in Int
                   /\ \A x \in T : g[T] = f[x] + g[T \ {x}]
           G == {n \in Nat : \A T \in SUBSET S : Cardinality(T) <= n => P(T)}
<1>1. \A T \in SUBSET S : IsFiniteSet(T) /\ Cardinality(T) \in Nat
  BY FS_Subset, FS_CardinalityType
<1>2. 0 \in G
  <2>1. \A T \in SUBSET S : Cardinality(T) <= 0 => T = {}
    BY <1>1, FS_EmptySet
  <2>2. g[{}] = 0
    BY DEF Adds
  <2> QED BY <2>1, <2>2
<1>3. ASSUME NEW n \in Nat, n \in G
      PROVE  n + 1 \in G
  <2>0. \A U \in SUBSET S : Cardinality(U) <= n => P(U)
    BY <1>3
  <2> SUFFICES ASSUME NEW T \in SUBSET S, Cardinality(T) = n + 1
               PROVE  P(T)
    <3>1. \A T \in SUBSET S : Cardinality(T) <= n + 1 => Cardinality(T) <= n \/ Cardinality(T) = n + 1
      BY <1>1
    <3> HIDE DEF P
    <3> QED BY <3>1, <2>0
  <2> DEFINE c == Pick(T)
  <2>1. T # {} /\ c \in T
    BY PickIn, FS_EmptySet
  <2>2. \A U \in SUBSET S : \A x \in U : /\ U \ {x} \in SUBSET S
                                        /\ Cardinality(U \ {x}) = Cardinality(U) - 1
    BY <1>1, FS_RemoveElement
  <2>3. \A x \in T : P(T \ {x})
    <3> HIDE DEF P
    <3> QED BY <2>2, <2>0
  <2>4. g[T] = f[c] + g[T \ {c}]
    BY <2>1 DEF Adds
  <2>5. g[T] \in Int
    <3>1. f[c] \in Int /\ g[T \ {c}] \in Int
      BY <2>1, <2>3
    <3> HIDE DEF c
    <3> QED BY <3>1, <2>4
  <2>6. ASSUME NEW x \in T, x # c
        PROVE  g[T] = f[x] + g[T \ {x}]
    <3> DEFINE U == (T \ {c}) \ {x}
    <3>1. P(T \ {c}) /\ P(T \ {x}) /\ x \in T \ {c} /\ c \in T \ {x}
      BY <2>1, <2>3, <2>6
    <3>2. U = (T \ {x}) \ {c}
      OBVIOUS
    <3>3. g[T \ {c}] = f[x] + g[U] /\ g[T \ {x}] = f[c] + g[U]
      BY <3>1, <3>2
    <3>4. g[U] \in Int
      <4>1. T \ {c} \in SUBSET S /\ Cardinality(T \ {c}) = n
        BY <2>1, <2>2
      <4>2. U \in SUBSET S /\ Cardinality(U) <= n
        BY <4>1, <3>1, <2>2
      <4> QED BY <4>2, <2>0
    <3>5. f[c] \in Int /\ f[x] \in Int
      BY <2>1
    <3> QED BY <2>4, <3>3, <3>4, <3>5
  <2> QED BY <2>4, <2>5, <2>6
<1>4. Nat \subseteq G
  <2> HIDE DEF G
  <2> QED BY <1>2, <1>3, NatSetInduction
<1>5. ASSUME NEW T \in SUBSET S PROVE P(T)
  <2>1. Cardinality(T) \in G /\ Cardinality(T) \in Nat
    BY <1>1, <1>4
  <2> HIDE DEF P
  <2> QED BY <2>1
<1> QED BY <1>5

\* SumOf is such a sum over the parts of its domain.
LEMMA SumByParts ==
    ASSUME NEW S, IsFiniteSet(S), NEW f \in [S -> Int]
    PROVE  \E g \in [SUBSET S -> Int] :
              /\ g[{}] = 0
              /\ \A T \in SUBSET S : \A x \in T : g[T] = f[x] + g[T \ {x}]
              /\ SumOf(f) = g[S]
<1> DEFINE Step(g) == [T \in SUBSET S |->
                         IF T = {} THEN 0 ELSE f[Pick(T)] + g[T \ {Pick(T)}]]
           sum == CHOOSE g : g = Step(g)
<1>1. SumOf(f) = sum[S]
  BY DEF SumOf, MapThenSumSet, MapThenFoldSet, Pick
<1>2. \E g : g = Step(g)
  <2>1. PICK g \in [SUBSET S -> Int] : \A T \in SUBSET S : Adds(f, g, T)
    BY SumExists
  <2>2. g = Step(g)
    BY <2>1 DEF Adds
  <2> QED BY <2>2
<1>3. sum = Step(sum)
  <2> HIDE DEF Step
  <2> QED BY <1>2
<1>4. DOMAIN sum = SUBSET S /\ \A T \in SUBSET S : Adds(f, sum, T)
  <2> HIDE DEF sum
  <2> QED BY <1>3 DEF Adds
<1> HIDE DEF sum
<1>5. \A T \in SUBSET S : sum[T] \in Int /\ \A x \in T : sum[T] = f[x] + sum[T \ {x}]
  BY <1>4, AddsAnywhere
<1>6. sum \in [SUBSET S -> Int]
  BY <1>3, <1>5
<1>7. sum[{}] = 0
  BY <1>4 DEF Adds
<1> QED BY <1>1, <1>5, <1>6, <1>7

LEMMA SumType ==
    ASSUME NEW S, IsFiniteSet(S), NEW f \in [S -> Int]
    PROVE  SumOf(f) \in Int
<1>1. PICK g \in [SUBSET S -> Int] : SumOf(f) = g[S]
  BY SumByParts
<1> QED BY <1>1

LEMMA SumEmpty == ASSUME NEW f \in [{} -> Int] PROVE SumOf(f) = 0
BY SumByParts, FS_EmptySet

\* One element apart, one element more.
LEMMA SumRemove ==
    ASSUME NEW S, IsFiniteSet(S), NEW f \in [S -> Int], NEW x \in S
    PROVE  SumOf(f) = f[x] + SumOf(Restrict(f, S \ {x}))
<1> DEFINE R == S \ {x}
           r == Restrict(f, R)
<1>1. IsFiniteSet(R) /\ r \in [R -> Int] /\ \A y \in R : r[y] = f[y]
  BY FS_RemoveElement DEF Restrict
<1>2. PICK g \in [SUBSET S -> Int] :
         /\ g[{}] = 0
         /\ \A T \in SUBSET S : \A y \in T : g[T] = f[y] + g[T \ {y}]
         /\ SumOf(f) = g[S]
  BY SumByParts
<1> HIDE DEF r
<1>3. PICK h \in [SUBSET R -> Int] :
         /\ h[{}] = 0
         /\ \A T \in SUBSET R : \A y \in T : h[T] = r[y] + h[T \ {y}]
         /\ SumOf(r) = h[R]
  <2> HIDE DEF R
  <2> QED BY <1>1, SumByParts
<1> DEFINE G == {T \in SUBSET R : h[T] = g[T]}
<1>4. {} \in G
  BY <1>2, <1>3
<1>5. ASSUME NEW T \in SUBSET R, NEW y \in R \ T, T \in G
      PROVE  T \cup {y} \in G
  <2> DEFINE U == T \cup {y}
  <2>1. U \in SUBSET R /\ U \in SUBSET S /\ y \in U /\ U \ {y} = T
    OBVIOUS
  <2>2. h[U] = r[y] + h[T]
    BY <2>1, <1>3
  <2>3. g[U] = f[y] + g[T]
    BY <2>1, <1>2
  <2> QED BY <2>1, <2>2, <2>3, <1>1, <1>5
<1>6. R \in G
  <2> HIDE DEF G, R
  <2> QED BY <1>1, <1>4, <1>5, FiniteSetInduction
<1>7. g[S] = f[x] + g[R]
  BY <1>2
<1> QED BY <1>2, <1>3, <1>6, <1>7 DEF r

LEMMA SumAdd ==
    ASSUME NEW S, NEW f \in [S -> Int],
           NEW T \in SUBSET S, IsFiniteSet(T), NEW x \in S \ T
    PROVE  SumOf(Restrict(f, T \cup {x})) = f[x] + SumOf(Restrict(f, T))
<1> DEFINE U == T \cup {x}
           r == Restrict(f, U)
<1>1. IsFiniteSet(U)
  BY FS_AddElement
<1>2. r \in [U -> Int] /\ x \in U /\ r[x] = f[x]
  BY DEF Restrict
<1>3. Restrict(r, U \ {x}) = Restrict(f, T)
  BY DEF Restrict
<1> HIDE DEF r, U
<1>4. SumOf(r) = r[x] + SumOf(Restrict(r, U \ {x}))
  BY <1>1, <1>2, SumRemove
<1> QED BY <1>2, <1>3, <1>4 DEF r, U

LEMMA RestrictAll == ASSUME NEW S, NEW T, NEW f \in [S -> T] PROVE Restrict(f, S) = f
BY DEF Restrict

LEMMA RestrictNone == ASSUME NEW S, NEW f \in [S -> Int] PROVE SumOf(Restrict(f, {})) = 0
<1>1. Restrict(f, {}) \in [{} -> Int]
  BY DEF Restrict
<1> QED BY <1>1, SumEmpty

LEMMA RestrictSumType ==
    ASSUME NEW S, NEW f \in [S -> Int], NEW T \in SUBSET S, IsFiniteSet(T)
    PROVE  SumOf(Restrict(f, T)) \in Int
<1>1. Restrict(f, T) \in [T -> Int]
  BY DEF Restrict
<1> QED BY <1>1, SumType

LEMMA SumPlus ==
    ASSUME NEW S, IsFiniteSet(S), NEW f \in [S -> Int], NEW g \in [S -> Int]
    PROVE  SumOf([x \in S |-> f[x] + g[x]]) = SumOf(f) + SumOf(g)
<1> DEFINE h == [x \in S |-> f[x] + g[x]]
           G == {T \in SUBSET S : SumOf(Restrict(h, T)) =
                                      SumOf(Restrict(f, T)) + SumOf(Restrict(g, T))}
<1>1. h \in [S -> Int] /\ \A x \in S : h[x] = f[x] + g[x]
  OBVIOUS
<1> HIDE DEF h
<1>2. {} \in G
  BY <1>1, RestrictNone
<1>3. ASSUME NEW T \in SUBSET S, NEW x \in S \ T, T \in G
      PROVE  T \cup {x} \in G
  <2>0. IsFiniteSet(T)
    BY FS_Subset
  <2>1. SumOf(Restrict(h, T \cup {x})) = h[x] + SumOf(Restrict(h, T))
    BY <1>1, <2>0, SumAdd
  <2>2. SumOf(Restrict(f, T \cup {x})) = f[x] + SumOf(Restrict(f, T))
    BY <2>0, SumAdd
  <2>3. SumOf(Restrict(g, T \cup {x})) = g[x] + SumOf(Restrict(g, T))
    BY <2>0, SumAdd
  <2>4. SumOf(Restrict(h, T)) \in Int /\ SumOf(Restrict(f, T)) \in Int /\ SumOf(Restrict(g, T)) \in Int
    BY <1>1, <2>0, RestrictSumType
  <2>5. f[x] \in Int /\ g[x] \in Int /\ h[x] = f[x] + g[x]
    BY <1>1
  <2>6. SumOf(Restrict(h, T)) = SumOf(Restrict(f, T)) + SumOf(Restrict(g, T))
    BY <1>3
  <2>7. T \cup {x} \in SUBSET S
    OBVIOUS
  <2> QED BY <2>1, <2>2, <2>3, <2>4, <2>5, <2>6, <2>7
<1>4. S \in G
  <2> HIDE DEF G
  <2> QED BY <1>2, <1>3, FiniteSetInduction
<1>5. SumOf(Restrict(h, S)) = SumOf(Restrict(f, S)) + SumOf(Restrict(g, S))
  BY <1>4
<1>6. SumOf(h) = SumOf(f) + SumOf(g)
  BY <1>1, <1>5, RestrictAll
<1> QED BY <1>6 DEF h

LEMMA SumZero ==
    ASSUME NEW S, IsFiniteSet(S), NEW f \in [S -> Int], \A x \in S : f[x] = 0
    PROVE  SumOf(f) = 0
<1> DEFINE G == {T \in SUBSET S : SumOf(Restrict(f, T)) = 0}
<1>1. {} \in G
  BY RestrictNone
<1>2. ASSUME NEW T \in SUBSET S, NEW x \in S \ T, T \in G
      PROVE  T \cup {x} \in G
  <2>1. SumOf(Restrict(f, T \cup {x})) = f[x] + SumOf(Restrict(f, T))
    BY FS_Subset, SumAdd
  <2> QED BY <1>2, <2>1
<1>3. S \in G
  <2> HIDE DEF G
  <2> QED BY <1>1, <1>2, FiniteSetInduction
<1> QED BY <1>3, RestrictAll

LEMMA SumNat ==
    ASSUME NEW S, IsFiniteSet(S), NEW f \in [S -> Int], \A x \in S : f[x] >= 0
    PROVE  SumOf(f) >= 0
<1> DEFINE G == {T \in SUBSET S : SumOf(Restrict(f, T)) >= 0}
<1>1. {} \in G
  BY RestrictNone
<1>2. ASSUME NEW T \in SUBSET S, NEW x \in S \ T, T \in G
      PROVE  T \cup {x} \in G
  <2>1. SumOf(Restrict(f, T \cup {x})) = f[x] + SumOf(Restrict(f, T))
    BY FS_Subset, SumAdd
  <2>2. SumOf(Restrict(f, T)) \in Int
    BY FS_Subset, RestrictSumType
  <2> QED BY <1>2, <2>1, <2>2
<1>3. S \in G
  <2> HIDE DEF G
  <2> QED BY <1>1, <1>2, FiniteSetInduction
<1> QED BY <1>3, RestrictAll

LEMMA SumSingle ==
    ASSUME NEW S, IsFiniteSet(S), NEW f \in [S -> Int], NEW k \in S,
           \A x \in S \ {k} : f[x] = 0
    PROVE  SumOf(f) = f[k]
<1> DEFINE R == S \ {k}
           r == Restrict(f, R)
<1>1. SumOf(f) = f[k] + SumOf(r)
  BY SumRemove
<1>2. IsFiniteSet(R) /\ r \in [R -> Int] /\ \A x \in R : r[x] = 0
  BY FS_RemoveElement DEF Restrict
<1>3. SumOf(r) = 0
  <2> HIDE DEF R, r
  <2> QED BY <1>2, SumZero
<1> QED BY <1>1, <1>3

LEMMA SumSubset ==
    ASSUME NEW S, IsFiniteSet(S), NEW f \in [S -> Int], NEW R \in SUBSET S,
           \A x \in S \ R : f[x] = 0
    PROVE  SumOf(f) = SumOf(Restrict(f, R))
<1> DEFINE G == {T \in SUBSET S : SumOf(Restrict(f, T)) = SumOf(Restrict(f, T \cap R))}
<1>1. {} \in G
  <2>1. {} \cap R = {}
    OBVIOUS
  <2> QED BY <2>1
<1>2. ASSUME NEW T \in SUBSET S, NEW x \in S \ T, T \in G
      PROVE  T \cup {x} \in G
  <2>0. IsFiniteSet(T) /\ IsFiniteSet(T \cap R) /\ T \cap R \in SUBSET S /\ x \in S \ (T \cap R)
    BY FS_Subset
  <2>1. SumOf(Restrict(f, T \cup {x})) = f[x] + SumOf(Restrict(f, T))
    BY <2>0, SumAdd
  <2>2. SumOf(Restrict(f, T)) = SumOf(Restrict(f, T \cap R))
    BY <1>2
  <2>3. SumOf(Restrict(f, T)) \in Int
    BY <2>0, RestrictSumType
  <2>4. T \cup {x} \in SUBSET S
    OBVIOUS
  <2>5. CASE x \in R
    <3>1. (T \cup {x}) \cap R = (T \cap R) \cup {x}
      BY <2>5
    <3>2. SumOf(Restrict(f, (T \cap R) \cup {x})) = f[x] + SumOf(Restrict(f, T \cap R))
      BY <2>0, SumAdd
    <3> QED BY <2>1, <2>2, <2>4, <3>1, <3>2
  <2>6. CASE x \notin R
    <3>1. (T \cup {x}) \cap R = T \cap R
      BY <2>6
    <3>2. f[x] = 0
      BY <2>6
    <3>3. SumOf(Restrict(f, T \cup {x})) = SumOf(Restrict(f, T))
      BY <2>1, <2>3, <3>2
    <3> QED BY <2>2, <2>4, <3>1, <3>3
  <2> QED BY <2>5, <2>6
<1>3. S \in G
  <2> HIDE DEF G
  <2> QED BY <1>1, <1>2, FiniteSetInduction
<1>4. S \cap R = R
  OBVIOUS
<1> QED BY <1>3, <1>4, RestrictAll

\* A table has one total, by rows or by columns.
LEMMA SumSwap ==
    ASSUME NEW S, IsFiniteSet(S), NEW K, IsFiniteSet(K), NEW f \in [S -> [K -> Int]]
    PROVE  SumOf([x \in S |-> SumOf(f[x])]) =
           SumOf([k \in K |-> SumOf([x \in S |-> f[x][k]])])
<1> DEFINE row == [x \in S |-> SumOf(f[x])]
           col(k) == [x \in S |-> f[x][k]]
           part(T) == [k \in K |-> SumOf(Restrict(col(k), T))]
           G == {T \in SUBSET S : SumOf(Restrict(row, T)) = SumOf(part(T))}
<1>1. row \in [S -> Int] /\ \A x \in S : row[x] = SumOf(f[x])
  BY SumType
<1>2. \A k \in K : col(k) \in [S -> Int] /\ \A x \in S : col(k)[x] = f[x][k]
  OBVIOUS
<1>3. \A T \in SUBSET S : part(T) \in [K -> Int]
  <2> HIDE DEF col
  <2> QED BY <1>2, RestrictSumType, FS_Subset
<1> HIDE DEF row, col
<1>4. {} \in G
  <2>1. SumOf(Restrict(row, {})) = 0
    BY <1>1, RestrictNone
  <2>2. \A k \in K : part({})[k] = 0
    BY <1>2, RestrictNone
  <2>3. SumOf(part({})) = 0
    <3> HIDE DEF part
    <3> QED BY <1>3, <2>2, SumZero
  <2> QED BY <2>1, <2>3
<1>5. ASSUME NEW T \in SUBSET S, NEW x \in S \ T, T \in G
      PROVE  T \cup {x} \in G
  <2> DEFINE U == T \cup {x}
  <2>0. IsFiniteSet(T) /\ U \in SUBSET S
    BY FS_Subset
  <2>1. SumOf(Restrict(row, U)) = row[x] + SumOf(Restrict(row, T))
    BY <1>1, <2>0, SumAdd
  <2>2. \A k \in K : part(U)[k] = f[x][k] + part(T)[k]
    <3> SUFFICES ASSUME NEW k \in K
                 PROVE  SumOf(Restrict(col(k), U)) = f[x][k] + SumOf(Restrict(col(k), T))
      OBVIOUS
    <3> QED BY <1>2, <2>0, SumAdd
  <2>3. part(U) = [k \in K |-> f[x][k] + part(T)[k]]
    BY <2>2
  <2>4. f[x] \in [K -> Int] /\ part(T) \in [K -> Int]
    BY <1>3
  <2> HIDE DEF part
  <2>5. SumOf(part(U)) = SumOf(f[x]) + SumOf(part(T))
    <3> HIDE DEF U
    <3> QED BY <2>3, <2>4, SumPlus
  <2> QED BY <1>1, <1>5, <2>0, <2>1, <2>5
<1>6. S \in G
  <2> HIDE DEF G
  <2> QED BY <1>4, <1>5, FiniteSetInduction
<1>7. part(S) = [k \in K |-> SumOf(col(k))]
  BY <1>2, RestrictAll
<1>8. SumOf(row) = SumOf([k \in K |-> SumOf(col(k))])
  BY <1>1, <1>6, <1>7, RestrictAll
<1> QED BY <1>8 DEF row, col

\* A sum is the sum of the sums of its groups, whatever key makes the groups.
LEMMA SumFibers ==
    ASSUME NEW S, IsFiniteSet(S), NEW K, IsFiniteSet(K),
           NEW key \in [S -> K], NEW f \in [S -> Int]
    PROVE  SumOf(f) =
           SumOf([k \in K |-> SumOf([x \in S |-> IF key[x] = k THEN f[x] ELSE 0])])
<1> DEFINE share == [x \in S |-> [k \in K |-> IF key[x] = k THEN f[x] ELSE 0]]
<1>1. share \in [S -> [K -> Int]]
  OBVIOUS
<1>2. ASSUME NEW x \in S PROVE SumOf(share[x]) = f[x]
  <2>1. /\ share[x] \in [K -> Int]
        /\ key[x] \in K
        /\ share[x][key[x]] = f[x]
        /\ \A k \in K \ {key[x]} : share[x][k] = 0
    OBVIOUS
  <2> HIDE DEF share
  <2> QED BY <2>1, SumSingle
<1>3. [x \in S |-> SumOf(share[x])] = f
  <2> HIDE DEF share
  <2> QED BY <1>2
<1>4. \A k \in K : [x \in S |-> share[x][k]] = [x \in S |-> IF key[x] = k THEN f[x] ELSE 0]
  OBVIOUS
<1>5. SumOf([x \in S |-> SumOf(share[x])]) = SumOf([k \in K |-> SumOf([x \in S |-> share[x][k]])])
  <2> HIDE DEF share
  <2> QED BY <1>1, SumSwap
<1> QED BY <1>3, <1>4, <1>5

\* A sum does not depend on how its places are numbered.
LEMMA SumReindex ==
    ASSUME NEW I, IsFiniteSet(I), NEW K, IsFiniteSet(K), NEW f \in [K -> Int],
           NEW order \in [I -> K], \A k \in K : \E i \in I : order[i] = k,
           \A i, j \in I : order[i] = order[j] => i = j
    PROVE  SumOf([i \in I |-> f[order[i]]]) = SumOf(f)
<1> DEFINE h == [i \in I |-> f[order[i]]]
           fiber(k) == [i \in I |-> IF order[i] = k THEN h[i] ELSE 0]
<1>1. h \in [I -> Int] /\ \A i \in I : h[i] = f[order[i]]
  OBVIOUS
<1> HIDE DEF h
<1>2. ASSUME NEW k \in K PROVE SumOf(fiber(k)) = f[k]
  <2>1. PICK i \in I : order[i] = k
    OBVIOUS
  <2>2. /\ fiber(k) \in [I -> Int]
        /\ fiber(k)[i] = f[k]
        /\ \A j \in I \ {i} : fiber(k)[j] = 0
    BY <1>1, <2>1
  <2> HIDE DEF fiber
  <2> QED BY <2>1, <2>2, SumSingle
<1>3. SumOf(h) = SumOf([k \in K |-> SumOf(fiber(k))])
  BY <1>1, SumFibers
<1>4. [k \in K |-> SumOf(fiber(k))] = f
  <2> HIDE DEF fiber
  <2> QED BY <1>2
<1> QED BY <1>3, <1>4 DEF h

\* What `ahead' must be for Arranged to sort: a strict total order.
StrictOrder(S, ahead) ==
    /\ ahead \in [S -> SUBSET S]
    /\ \A x \in S : x \notin ahead[x]
    /\ \A x, y \in S : x \in ahead[y] => ahead[x] \subseteq ahead[y]
    /\ \A x, y \in S : x = y \/ x \in ahead[y] \/ y \in ahead[x]

\* Arranged lists every element once, each after the elements ahead of it.
LEMMA ArrangedSorts ==
    ASSUME NEW S, IsFiniteSet(S), NEW ahead, StrictOrder(S, ahead)
    PROVE  /\ Arranged(ahead) \in [1 .. Cardinality(S) -> S]
           /\ \A x \in S : \E i \in 1 .. Cardinality(S) : Arranged(ahead)[i] = x
           /\ \A i, j \in 1 .. Cardinality(S) : i < j => Arranged(ahead)[i] \in ahead[Arranged(ahead)[j]]
           /\ \A i, j \in 1 .. Cardinality(S) : Arranged(ahead)[i] = Arranged(ahead)[j] => i = j
<1> DEFINE I == 1 .. Cardinality(S)
           rank == [x \in S |-> Cardinality(ahead[x]) + 1]
           order == Arranged(ahead)
<1>1. Cardinality(S) \in Nat
  BY FS_CardinalityType
<1>2. \A x \in S : ahead[x] \in SUBSET S /\ IsFiniteSet(ahead[x]) /\ Cardinality(ahead[x]) \in Nat
  BY FS_Subset, FS_CardinalityType DEF StrictOrder
<1>3. ASSUME NEW x \in S, NEW y \in S, x \in ahead[y]
      PROVE  Cardinality(ahead[x]) < Cardinality(ahead[y])
  <2>1. ahead[x] \subseteq ahead[y] /\ ahead[x] # ahead[y]
    BY <1>3 DEF StrictOrder
  <2> QED BY <1>2, <2>1, FS_Subset
<1>4. ASSUME NEW x \in S PROVE Cardinality(ahead[x]) < Cardinality(S)
  <2>1. ahead[x] # S
    BY DEF StrictOrder
  <2> QED BY <1>1, <1>2, <2>1, FS_Subset
<1>5. rank \in [S -> I] /\ \A x \in S : rank[x] = Cardinality(ahead[x]) + 1
  BY <1>1, <1>2, <1>4
<1>6. \A x, y \in S : rank[x] = rank[y] => x = y
  BY <1>2, <1>3, <1>5 DEF StrictOrder
<1> HIDE DEF rank
<1>7. IsFiniteSet(I) /\ Cardinality(I) = Cardinality(S)
  BY <1>1, FS_Interval
<1>8. \A i \in I : \E x \in S : rank[x] = i
  <2>1. rank \in Injection(S, I)
    BY <1>5, <1>6 DEF Injection, IsInjective
  <2>2. rank \in Surjection(S, I)
    <3> HIDE DEF I
    <3> QED BY <1>7, <2>1, FS_Injection
  <2> QED BY <2>2 DEF Surjection
<1>9. \A i \in I : order[i] = CHOOSE x \in S : Cardinality(ahead[x]) = i - 1
  BY DEF Arranged, StrictOrder
<1>10. DOMAIN order = I
  BY DEF Arranged, StrictOrder
<1>11. \A i \in I : order[i] \in S /\ rank[order[i]] = i
  <2> SUFFICES ASSUME NEW i \in I
               PROVE  order[i] \in S /\ rank[order[i]] = i
    OBVIOUS
  <2>1. \E x \in S : Cardinality(ahead[x]) = i - 1
    BY <1>2, <1>5, <1>8
  <2>2. order[i] \in S /\ Cardinality(ahead[order[i]]) = i - 1
    BY <1>9, <2>1
  <2> QED BY <1>5, <2>2
<1>12. order \in [I -> S]
  <2>1. order = [i \in I |-> order[i]]
    BY DEF Arranged, StrictOrder
  <2> HIDE DEF order
  <2> QED BY <1>11, <2>1
<1> HIDE DEF order
<1>13. ASSUME NEW x \in S PROVE \E i \in I : order[i] = x
  <2>1. rank[x] \in I /\ rank[order[rank[x]]] = rank[x]
    BY <1>5, <1>11
  <2>2. order[rank[x]] = x
    BY <1>6, <1>11, <2>1
  <2> QED BY <2>1, <2>2
<1>14. ASSUME NEW i \in I, NEW j \in I, i < j
       PROVE  order[i] \in ahead[order[j]]
  <2>1. rank[order[i]] < rank[order[j]] /\ order[i] \in S /\ order[j] \in S
    BY <1>11, <1>14
  <2>2. ~ Cardinality(ahead[order[j]]) < Cardinality(ahead[order[i]])
    BY <1>2, <1>5, <2>1
  <2>3. order[j] \notin ahead[order[i]] /\ order[i] # order[j]
    BY <1>3, <2>1, <2>2, <1>11
  <2> QED BY <2>1, <2>3 DEF StrictOrder
<1>15. \A i, j \in I : order[i] = order[j] => i = j
  BY <1>11
<1> QED BY <1>12, <1>13, <1>14, <1>15 DEF order

LEMMA ImageFinite ==
    ASSUME NEW S, IsFiniteSet(S), NEW f, DOMAIN f = S
    PROVE  IsFiniteSet({f[x] : x \in S})
<1> DEFINE T == {f[x] : x \in S}
           g == [x \in S |-> f[x]]
<1>1. g \in Surjection(S, T)
  BY DEF Surjection
<1> QED BY <1>1, FS_Surjection

LEMMA MaxIsLast ==
    ASSUME NEW S \in SUBSET Int, IsFiniteSet(S), S # {}
    PROVE  Max(S) \in S /\ \A x \in S : x <= Max(S)
<1> DEFINE G == {T \in SUBSET S : T # {} => \E m \in T : \A x \in T : m >= x}
<1>1. {} \in G
  OBVIOUS
<1>2. ASSUME NEW T \in SUBSET S, NEW x \in S \ T, T \in G
      PROVE  T \cup {x} \in G
  <2>1. CASE T = {}
    BY <2>1
  <2>2. CASE T # {}
    <3>1. PICK m \in T : \A y \in T : m >= y
      BY <1>2, <2>2
    <3>2. CASE m >= x
      BY <3>1, <3>2
    <3>3. CASE ~ m >= x
      BY <3>1, <3>3
    <3> QED BY <3>2, <3>3
  <2> QED BY <2>1, <2>2
<1>3. S \in G
  <2> HIDE DEF G
  <2> QED BY <1>1, <1>2, FiniteSetInduction
<1> QED BY <1>3 DEF Max

LEMMA MinIsFirst ==
    ASSUME NEW S \in SUBSET Int, IsFiniteSet(S), S # {}
    PROVE  Min(S) \in S /\ \A x \in S : Min(S) <= x
<1> DEFINE G == {T \in SUBSET S : T # {} => \E m \in T : \A x \in T : m <= x}
<1>1. {} \in G
  OBVIOUS
<1>2. ASSUME NEW T \in SUBSET S, NEW x \in S \ T, T \in G
      PROVE  T \cup {x} \in G
  <2>1. CASE T = {}
    BY <2>1
  <2>2. CASE T # {}
    <3>1. PICK m \in T : \A y \in T : m <= y
      BY <1>2, <2>2
    <3>2. CASE m <= x
      BY <3>1, <3>2
    <3>3. CASE ~ m <= x
      BY <3>1, <3>3
    <3> QED BY <3>2, <3>3
  <2> QED BY <2>1, <2>2
<1>3. S \in G
  <2> HIDE DEF G
  <2> QED BY <1>1, <1>2, FiniteSetInduction
<1> QED BY <1>3 DEF Min

(***************************************************************************)
(* The rows of a run, its bounds and its metadata, and the inductive       *)
(* invariant.                                                              *)
(***************************************************************************)

\* Rows as their readers need them: finitely many places, dates and numbers.
RowsOK(s, rows) ==
    /\ DOMAIN rows \in SUBSET Nat
    /\ IsFiniteSet(DOMAIN rows)
    /\ \A i \in DOMAIN rows : RowOK(s, rows[i])

\* Of the rate sheet the order counts too: it is a sequence.
DataOK(d) ==
    /\ DOMAIN d = Source
    /\ \A s \in Source : RowsOK(s, d[s])
    /\ d.rate \in Seq(Row["rate"])

RowDates(rows) == {row.date : row \in Rows(rows)}

LEMMA RowDatesFinite ==
    ASSUME NEW s, NEW rows, RowsOK(s, rows)
    PROVE  IsFiniteSet(RowDates(rows)) /\ RowDates(rows) \in SUBSET Int
<1> DEFINE f == [i \in DOMAIN rows |-> rows[i].date]
<1>1. RowDates(rows) = {f[i] : i \in DOMAIN rows}
  BY DEF RowDates, Rows
<1>2. IsFiniteSet(DOMAIN rows) /\ DOMAIN f = DOMAIN rows
  BY DEF RowsOK
<1>3. IsFiniteSet({f[i] : i \in DOMAIN rows})
  <2> HIDE DEF f
  <2> QED BY <1>2, ImageFinite
<1>4. RowDates(rows) \in SUBSET Int
  BY DEF RowDates, Rows, RowsOK, RowOK
<1> QED BY <1>1, <1>3, <1>4

LEMMA SourceFinite == IsFiniteSet(Source)
<1> DEFINE f == <<"service", "warehouse", "user", "storage", "org", "rate", "capacity", "ai">>
<1> DEFINE D == DOMAIN f
<1>1. Source = {f[i] : i \in D}
  BY DEF Source, BaseSources, OrgSources, AccountSources
<1>2. IsFiniteSet(D)
  <2>1. PICK n \in Int : n = 8
    OBVIOUS
  <2>2. D = 1 .. n
    BY <2>1
  <2> HIDE DEF D
  <2> QED BY <2>2, FS_Interval
<1> HIDE DEF f
<1> QED BY <1>1, <1>2, ImageFinite

LEMMA DatesFinite ==
    ASSUME NEW d, DataOK(d), NEW S \in SUBSET Source
    PROVE  IsFiniteSet(Dates(d, S)) /\ Dates(d, S) \in SUBSET Int
<1> DEFINE f == [s \in S |-> RowDates(d[s])]
           F == {f[s] : s \in S}
<1>1. Dates(d, S) = UNION F
  BY DEF Dates, RowDates
<1>2. \A s \in S : RowsOK(s, d[s])
  BY DEF DataOK
<1>3. \A T \in F : IsFiniteSet(T) /\ T \in SUBSET Int
  BY <1>2, RowDatesFinite
<1>4. IsFiniteSet(S) /\ DOMAIN f = S
  BY SourceFinite, FS_Subset
<1>5. IsFiniteSet(F)
  <2> HIDE DEF f
  <2> QED BY <1>4, ImageFinite
<1> HIDE DEF F
<1>6. IsFiniteSet(UNION F)
  BY <1>3, <1>5, FS_UNION
<1> QED BY <1>1, <1>3, <1>6

\* Every row of a base source lies within the stored bounds.
BoundsOK(d, b) ==
    /\ b.first \in Int /\ b.last \in Int /\ b.first <= b.last
    /\ \A date \in Dates(d, BaseSources) : b.first <= date /\ date <= b.last

LEMMA BoundsCover ==
    ASSUME NEW d, DataOK(d), NEW S \in SUBSET Source, BaseSources \subseteq S
    PROVE  BoundsOK(d, SourceBounds(Dates(d, S), Today))
<1> DEFINE D == Dates(d, S)
<1>1. IsFiniteSet(D) /\ D \in SUBSET Int
  BY DatesFinite
<1>2. Dates(d, BaseSources) \subseteq D
  BY DEF Dates
<1> SUFFICES BoundsOK(d, SourceBounds(D, Today))
  OBVIOUS
<1> HIDE DEF D
<1>3. CASE D = {}
  BY <1>2, <1>3, ValueAssumption DEF SourceBounds, BoundsOK
<1>4. CASE D # {}
  <2>1. Max(D) \in D /\ Min(D) \in D /\ \A x \in D : Min(D) <= x /\ x <= Max(D)
    BY <1>1, <1>4, MaxIsLast, MinIsFirst
  <2>2. SourceBounds(D, Today) = [first |-> Min(D), last |-> Max(D)]
    BY <1>4 DEF SourceBounds
  <2>3. Min(D) \in Int /\ Max(D) \in Int /\ Min(D) <= Max(D)
    BY <1>1, <2>1
  <2> DEFINE b == SourceBounds(D, Today)
  <2>4. b.first = Min(D) /\ b.last = Max(D)
    BY <2>2
  <2> HIDE DEF b
  <2>5. BoundsOK(d, b)
    BY <1>2, <2>1, <2>3, <2>4 DEF BoundsOK
  <2> QED BY <2>5 DEF b
<1> QED BY <1>3, <1>4

LEMMA LatestIn ==
    ASSUME NEW D \in SUBSET Int, IsFiniteSet(D)
    PROVE  /\ Latest(D) \in D \cup {None}
           /\ D # {} => Latest(D) \in D /\ \A x \in D : x <= Latest(D)
           /\ Latest(D) = None <=> D = {}
BY MaxIsLast, NoneAssumption DEF Latest

\* The stored through dates are dates of rows, or absent.
LEMMA MetadataType ==
    ASSUME NEW d, DataOK(d), NEW o \in BOOLEAN, NEW a \in BOOLEAN
    PROVE  Metadata(d, o, a) \in StoredMetadata
<1> DEFINE currencies == {row.currency : row \in Rows(d.org)} \ {None}
           accountDates == {row.date : row \in AccountRows(d)}
           m == Metadata(d, o, a)
<1>1. currencies \subseteq Currency
  BY DEF DataOK, RowsOK, RowOK, Rows, Source, BaseSources, OrgSources
<1>2. LatestDate(d.org) \in Int \cup {None}
  <2>1. RowsOK("org", d.org)
    BY DEF DataOK, Source, BaseSources, OrgSources
  <2> QED BY <2>1, RowDatesFinite, LatestIn DEF LatestDate, RowDates
<1>3. Latest(accountDates) \in Int \cup {None}
  <2>1. accountDates = Dates(d, AccountSources)
    BY DEF AccountRows, Dates, AccountSources
  <2>2. AccountSources \in SUBSET Source
    BY DEF Source, BaseSources
  <2>3. IsFiniteSet(accountDates) /\ accountDates \in SUBSET Int
    BY <2>1, <2>2, DatesFinite
  <2> HIDE DEF accountDates
  <2> QED BY <2>3, LatestIn
<1>4. m.currency \in Currency \cup {None}
  <2>1. Cardinality(currencies) = 1 => currencies # {}
    BY FS_EmptySet
  <2>2. m.currency = CASE Cardinality(currencies) > 1 -> None
                       [] m.mode = "billed" /\ Cardinality(currencies) = 1
                            -> CHOOSE c \in currencies : TRUE
                       [] OTHER -> "USD"
    BY DEF Metadata
  <2>3. currencies # {} => (CHOOSE c \in currencies : TRUE) \in currencies
    OBVIOUS
  <2> HIDE DEF currencies, m
  <2>4. CASE Cardinality(currencies) > 1
    BY <2>2, <2>4
  <2>5. CASE ~ Cardinality(currencies) > 1 /\ m.mode = "billed" /\ Cardinality(currencies) = 1
    BY <1>1, <2>1, <2>2, <2>3, <2>5
  <2>6. CASE ~ Cardinality(currencies) > 1 /\ ~ (m.mode = "billed" /\ Cardinality(currencies) = 1)
    BY <2>2, <2>6, ValueAssumption
  <2> QED BY <2>4, <2>5, <2>6
<1>5. /\ m = [mode |-> m.mode, mixed |-> m.mixed, currency |-> m.currency,
              billing |-> m.billing, account |-> m.account]
      /\ m.mode \in {"billed", "estimated"}
      /\ m.mixed \in BOOLEAN
      /\ m.billing = IF o THEN LatestDate(d.org) ELSE None
      /\ m.account = IF a THEN Latest(accountDates) ELSE None
  BY DEF Metadata
<1> HIDE DEF m, accountDates
<1>6. m \in StoredMetadata
  BY <1>2, <1>3, <1>4, <1>5 DEF StoredMetadata
<1> QED BY <1>6 DEF m

\* While a run is running, the through date is the date of a row that has landed.
LEMMA ThroughOfRows ==
    ASSUME NEW d, DataOK(d)
    PROVE  LET through == ThroughDate(ReconstructedMetadata(d))
           IN  through \in Dates(d, BaseSources) \cup {None}
<1> DEFINE m == ReconstructedMetadata(d)
           accountDates == {row.date : row \in AccountRows(d)}
<1>1. m.billing \in Dates(d, BaseSources) \cup {None}
  <2>1. RowsOK("org", d.org)
    BY DEF DataOK, Source, BaseSources, OrgSources
  <2>2. LatestDate(d.org) \in RowDates(d.org) \cup {None}
    BY <2>1, RowDatesFinite, LatestIn DEF LatestDate, RowDates
  <2>3. RowDates(d.org) \subseteq Dates(d, BaseSources)
    BY DEF RowDates, Dates, BaseSources, OrgSources
  <2>4. m.billing \in {LatestDate(d.org), None}
    BY DEF ReconstructedMetadata, Metadata
  <2> QED BY <2>2, <2>3, <2>4
<1>2. m.account \in Dates(d, BaseSources) \cup {None}
  <2>1. accountDates = Dates(d, AccountSources)
    BY DEF AccountRows, Dates, AccountSources
  <2>2. AccountSources \in SUBSET Source
    BY DEF Source, BaseSources
  <2>3. IsFiniteSet(accountDates) /\ accountDates \in SUBSET Int
    BY <2>1, <2>2, DatesFinite
  <2>4. accountDates \subseteq Dates(d, BaseSources)
    BY <2>1 DEF Dates, BaseSources
  <2>5. m.account \in {Latest(accountDates), None}
    BY DEF ReconstructedMetadata, Metadata
  <2> HIDE DEF accountDates, m
  <2>6. Latest(accountDates) \in accountDates \cup {None}
    BY <2>3, LatestIn
  <2> QED BY <2>4, <2>5, <2>6
<1> QED BY <1>1, <1>2 DEF ThroughDate

LEMMA RestrictedRows ==
    ASSUME NEW s, NEW rows, RowsOK(s, rows), NEW K \in SUBSET DOMAIN rows
    PROVE  RowsOK(s, Restrict(rows, K)) /\ DOMAIN Restrict(rows, K) = K
BY FS_Subset DEF RowsOK, Restrict

LEMMA TotalType ==
    ASSUME NEW S, IsFiniteSet(S), NEW f, DOMAIN f = S, \A x \in S : f[x] \in Int
    PROVE  SumOf([x \in S |-> f[x]]) \in Int
<1>1. [x \in S |-> f[x]] \in [S -> Int]
  OBVIOUS
<1> QED BY <1>1, SumType

LEMMA UserRowsOK ==
    ASSUME NEW rows \in Seq(Row["user"])
    PROVE  RowsOK("user", rows)
<1>1. DOMAIN rows = 1 .. Len(rows) /\ Len(rows) \in Nat
  OBVIOUS
<1>2. IsFiniteSet(DOMAIN rows)
  BY <1>1, FS_Interval
<1>3. \A i \in DOMAIN rows : rows[i] \in Row["user"]
  OBVIOUS
<1> QED BY <1>1, <1>2, <1>3, RowAssumption DEF RowsOK, Source, BaseSources, AccountSources

\* bound_user_compute_rows returns rows again.
LEMMA BoundedRowsOK ==
    ASSUME NEW rows \in Seq(Row["user"])
    PROVE  RowsOK("user", BoundUserRows(rows))
<1> DEFINE top    == TopUserNames(rows)
           K      == {i \in DOMAIN rows : rows[i].name \in top}
           R      == {i \in DOMAIN rows : rows[i].name \notin top}
           kept   == RestrictValues(rows, LAMBDA row : row.name \in top)
           rest   == RestrictValues(rows, LAMBDA row : row.name \notin top)
           places == {<<row.date, row.warehouse>> : row \in Rows(rest)}
           order  == Arranged(ByDateAndWarehouse(places))
           Other(place) ==
             [date |-> place[1], warehouse |-> place[2], name |-> OtherUser,
              credits |-> Total(rest, LAMBDA row :
                  IF <<row.date, row.warehouse>> = place THEN row.credits ELSE 0)]
           bounded == BoundUserRows(rows)
<1>1. RowsOK("user", rows)
  BY UserRowsOK
<1>2. kept = Restrict(rows, K) /\ rest = Restrict(rows, R)
  BY DEF RestrictValues
<1>3. RowsOK("user", rest) /\ DOMAIN rest = R /\ DOMAIN kept = K
  <2> HIDE DEF kept, rest, top
  <2> QED BY <1>1, <1>2, RestrictedRows
<1>4. places \subseteq Int \X Int
  <2> HIDE DEF rest
  <2> QED BY <1>3 DEF Rows, RowsOK, RowOK
<1>5. IsFiniteSet(places)
  <2> DEFINE f == [i \in R |-> <<rest[i].date, rest[i].warehouse>>]
  <2>1. places = {f[i] : i \in R}
    <3> HIDE DEF rest, R
    <3> QED BY <1>3 DEF Rows
  <2>2. IsFiniteSet(R) /\ DOMAIN f = R
    <3> HIDE DEF rest, R
    <3> QED BY <1>3 DEF RowsOK
  <2> HIDE DEF f, places, R
  <2> QED BY <2>1, <2>2, ImageFinite
<1>6. StrictOrder(places, ByDateAndWarehouse(places))
  <2> HIDE DEF places
  <2> QED BY <1>4 DEF StrictOrder, ByDateAndWarehouse
<1>7. order \in [1 .. Cardinality(places) -> places] /\ Cardinality(places) \in Nat
  <2> HIDE DEF places
  <2> QED BY <1>5, <1>6, ArrangedSorts, FS_CardinalityType
<1>8. Len(order) = Cardinality(places)
  <2> HIDE DEF places, order
  <2> QED BY <1>7
<1>9. \A place \in places : RowOK("user", Other(place))
  <2> SUFFICES ASSUME NEW place \in places
               PROVE  RowOK("user", Other(place))
    OBVIOUS
  <2> DEFINE f == [i \in DOMAIN rest |->
                     IF <<rest[i].date, rest[i].warehouse>> = place THEN rest[i].credits ELSE 0]
  <2>1. f \in [DOMAIN rest -> Int] /\ IsFiniteSet(DOMAIN rest)
    <3> HIDE DEF rest, places
    <3> QED BY <1>3 DEF RowsOK, RowOK
  <2>2. SumOf(f) \in Int
    <3> HIDE DEF f, rest
    <3> QED BY <2>1, SumType
  <2>3. place[1] \in Int /\ place[2] \in Int
    <3> HIDE DEF places
    <3> QED BY <1>4
  <2> HIDE DEF rest, places
  <2> QED BY <2>2, <2>3, ValueAssumption DEF RowOK, Total
<1>10. /\ DOMAIN bounded = K \cup (Len(rows) + 1 .. Len(rows) + Len(order))
       /\ \A i \in DOMAIN bounded :
             bounded[i] = IF i \in K THEN rows[i] ELSE Other(order[i - Len(rows)])
  <2>1. bounded = [i \in DOMAIN kept \cup (Len(rows) + 1 .. Len(rows) + Len(order)) |->
                     IF i \in DOMAIN kept THEN rows[i] ELSE Other(order[i - Len(rows)])]
    BY DEF BoundUserRows
  <2> HIDE DEF bounded, K, kept, order, Other
  <2> QED BY <1>3, <2>1
<1> HIDE DEF bounded, Other, order, places, rest, kept
<1>11. Len(rows) \in Nat /\ DOMAIN rows = 1 .. Len(rows)
  OBVIOUS
<1>12. IsFiniteSet(DOMAIN bounded)
  <2>1. IsFiniteSet(K)
    BY <1>1, FS_Subset DEF RowsOK
  <2>2. IsFiniteSet(Len(rows) + 1 .. Len(rows) + Len(order))
    BY <1>7, <1>8, <1>11, FS_Interval
  <2> HIDE DEF K
  <2> QED BY <1>10, <2>1, <2>2, FS_Union
<1>13. DOMAIN bounded \in SUBSET Nat
  BY <1>7, <1>8, <1>10, <1>11
<1>14. ASSUME NEW i \in DOMAIN bounded PROVE RowOK("user", bounded[i])
  <2>1. CASE i \in K
    BY <1>1, <1>10, <2>1 DEF RowsOK
  <2>2. CASE i \notin K
    <3>1. i - Len(rows) \in 1 .. Cardinality(places)
      BY <1>7, <1>8, <1>10, <1>11, <2>2
    <3> QED BY <1>7, <1>9, <1>10, <2>2, <3>1
  <2> QED BY <2>1, <2>2
<1> QED BY <1>12, <1>13, <1>14 DEF RowsOK, bounded

\* What build_dashboard_datasets stored follows from the rows that it stored.
SettledFrom(d, m, sum) ==
    \E o, a \in BOOLEAN : m = Metadata(d, o, a) /\ sum = Summary(d, SummaryDate(m), SummaryWindow)

\* A source that has landed is one that has rows.
Landed(d) == \A s \in Source : d[s] = <<>> \/ Rows(d[s]) # {}

\* The inductive invariant.
IInv ==
    /\ DataOK(data)
    /\ BoundsOK(data, bounds)
    /\ status \in {"running", "completed", "failed"}
    /\ status = "running" => /\ stored = None
                             /\ data.user \in Seq(Row["user"])
                             /\ Landed(data)
    /\ status = "failed" => stored = None
    /\ status = "completed" => SettledFrom(data, stored, summary)

LEMMA SourceNames ==
    /\ Source = {"service", "warehouse", "user", "storage", "org", "rate", "capacity", "ai"}
    /\ BaseSources = Source \ {"ai"}
BY DEF Source, BaseSources, OrgSources, AccountSources

LEMMA NewRowsOK ==
    ASSUME NEW s \in Source, NEW rows \in NewRows(s)
    PROVE  RowsOK(s, rows) /\ rows \in Seq(Row[s]) /\ Rows(rows) # {}
<1>1. PICK n \in Nat \ {0} : rows \in [1 .. n -> Row[s]]
  BY ValueAssumption DEF NewRows
<1>2. IsFiniteSet(1 .. n)
  BY FS_Interval
<1>3. \A i \in 1 .. n : RowOK(s, rows[i])
  BY <1>1, RowAssumption
<1>4. rows[1] \in Rows(rows)
  BY <1>1 DEF Rows
<1> QED BY <1>1, <1>2, <1>3, <1>4 DEF RowsOK

LEMMA EmptyOK == /\ \A s : RowsOK(s, <<>>)
                 /\ \A s : <<>> \in Seq(Row[s])
                 /\ Rows(<<>>) = {}
BY FS_EmptySet DEF RowsOK, Rows

LEMMA NoRowsOK == DataOK(NoRows) /\ \A S : Dates(NoRows, S \cap Source) = {}
<1>1. \A s \in Source : NoRows[s] = <<>>
  BY DEF NoRows
<1>2. NoRows.rate = <<>> /\ DOMAIN NoRows = Source
  BY SourceNames DEF NoRows
<1>3. DataOK(NoRows)
  BY <1>1, <1>2, EmptyOK DEF DataOK
<1>4. \A S : Dates(NoRows, S \cap Source) = {}
  BY <1>1, EmptyOK DEF Dates
<1> QED BY <1>3, <1>4

LEMMA InitInv == Init => IInv
<1> SUFFICES ASSUME Init PROVE IInv
  OBVIOUS
<1>1. DataOK(data) /\ data.user \in Seq(Row["user"])
  BY NoRowsOK, SourceNames DEF Init, NoRows
<1>2. BaseSources \cap Source = BaseSources
  BY SourceNames
<1>3. Dates(data, BaseSources) = {}
  BY <1>2, NoRowsOK DEF Init
<1>4. bounds = [first |-> Today, last |-> Today]
  BY DEF Init, SourceBounds
<1>5. BoundsOK(data, bounds)
  BY <1>3, <1>4, ValueAssumption DEF BoundsOK
<1>6. Landed(data)
  BY DEF Init, NoRows, Landed
<1> QED BY <1>1, <1>5, <1>6 DEF IInv, Init

LEMMA LandInv ==
    ASSUME IInv, NEW s \in BaseSources, Land(s) PROVE IInv'
<1>1. PICK rows \in NewRows(s) : data' = [data EXCEPT ![s] = rows]
  BY DEF Land
<1>3. s \in Source /\ RowsOK(s, rows) /\ rows \in Seq(Row[s]) /\ Rows(rows) # {}
  BY NewRowsOK, SourceNames
<1>4. DataOK(data')
  BY <1>1, <1>3, SourceNames DEF IInv, DataOK
<1>5. data'.user \in Seq(Row["user"])
  BY <1>1, <1>3, SourceNames DEF IInv, DataOK, Land
<1>6. bounds' = SourceBounds(Dates(data', Source), Today)
  BY DEF Land
<1>7. BoundsOK(data', bounds')
  BY <1>4, <1>6, BoundsCover, SourceNames
<1>8. Landed(data')
  BY <1>1, <1>3, SourceNames DEF IInv, DataOK, Land, Landed
<1> QED BY <1>4, <1>5, <1>7, <1>8 DEF IInv, Land

LEMMA SummaryReads ==
    ASSUME NEW d, NEW e, NEW current, NEW days,
           d.warehouse = e.warehouse, d.service = e.service, d.storage = e.storage
    PROVE  Summary(d, current, days) = Summary(e, current, days)
<1>1. CompleteWindow(d.warehouse, current, days) = CompleteWindow(e.warehouse, current, days)
  OBVIOUS
<1>2. CompleteWindow(d.service, current, days) = CompleteWindow(e.service, current, days)
  OBVIOUS
<1>3. CompleteWindow(d.storage, current, days) = CompleteWindow(e.storage, current, days)
  OBVIOUS
<1> QED BY <1>1, <1>2, <1>3 DEF Summary

\* Rows of the deferred source change neither the metadata nor the summary.
LEMMA DeferredInv == ASSUME IInv, LandDeferred PROVE IInv'
<1>1. PICK rows \in NewRows("ai") : data' = [data EXCEPT !.ai = rows]
  BY DEF LandDeferred
<1>3. RowsOK("ai", rows) /\ Rows(rows) # {}
  BY NewRowsOK, SourceNames
<1>4. /\ DOMAIN data' = Source
      /\ data'.ai = rows
      /\ \A s \in BaseSources : data'[s] = data[s]
  BY <1>1, SourceNames DEF IInv, DataOK
<1>5. DataOK(data')
  BY <1>3, <1>4, SourceNames DEF IInv, DataOK
<1>6. Dates(data', BaseSources) = Dates(data, BaseSources)
  BY <1>4 DEF Dates
<1>7. BoundsOK(data', bounds')
  BY <1>6 DEF IInv, BoundsOK, LandDeferred
<1>8. /\ data'.org = data.org /\ data'.warehouse = data.warehouse /\ data'.service = data.service
      /\ data'.user = data.user /\ data'.storage = data.storage
  BY <1>4, SourceNames
<1>9. /\ \A o, a \in BOOLEAN : Metadata(data', o, a) = Metadata(data, o, a)
      /\ \A current : Summary(data', current, SummaryWindow) = Summary(data, current, SummaryWindow)
  <2>1. AccountRows(data') = AccountRows(data)
    BY <1>8 DEF AccountRows
  <2>2. ASSUME NEW o \in BOOLEAN, NEW a \in BOOLEAN
        PROVE  Metadata(data', o, a) = Metadata(data, o, a)
    BY <1>8, <2>1, Zenon DEF Metadata
  <2>3. ASSUME NEW current
        PROVE  Summary(data', current, SummaryWindow) = Summary(data, current, SummaryWindow)
    <3> DEFINE D == data'
    <3>1. D.warehouse = data.warehouse /\ D.service = data.service /\ D.storage = data.storage
      BY <1>8
    <3> SUFFICES Summary(D, current, SummaryWindow) = Summary(data, current, SummaryWindow)
      OBVIOUS
    <3> HIDE DEF D
    <3> QED BY <3>1, SummaryReads
  <2> QED BY <2>2, <2>3
<1>10. SettledFrom(data, stored, summary) => SettledFrom(data', stored, summary)
  BY <1>9 DEF SettledFrom
<1>11. Landed(data) => Landed(data')
  BY <1>3, <1>4, SourceNames DEF Landed
<1> QED BY <1>5, <1>7, <1>8, <1>10, <1>11 DEF IInv, LandDeferred

LEMMA FinalizeInv ==
    ASSUME IInv, NEW o \in BOOLEAN, NEW a \in BOOLEAN, Finalize(o, a)
    PROVE  IInv'
<1>1. data' = FinalRows(o, a)
  BY DEF Finalize
<1>2. \A s : RowsOK(s, <<>>)
  BY EmptyOK
<1>3. RowsOK("user", BoundUserRows(data.user))
  BY BoundedRowsOK DEF IInv, Finalize
<1>4. \A s \in Source : RowsOK(s, data[s])
  BY DEF IInv, DataOK
<1>5. \A s \in Source : data'[s] \in {<<>>, data[s]} \/ (s = "user" /\ data'[s] = BoundUserRows(data.user))
  BY <1>1 DEF FinalRows
<1>6. \A s \in Source : RowsOK(s, data'[s])
  BY <1>2, <1>3, <1>4, <1>5
<1>7. data'.rate \in Seq(Row["rate"])
  <2>1. data'["rate"] \in {<<>>, data["rate"]}
    BY <1>5, SourceNames
  <2> QED BY <2>1, EmptyOK DEF IInv, DataOK
<1>8. DataOK(data')
  BY <1>1, <1>6, <1>7 DEF DataOK, FinalRows
<1>9. BoundsOK(data', bounds')
  BY <1>8, BoundsCover, SourceNames DEF Finalize
<1>10. SettledFrom(data', stored', summary')
  BY DEF SettledFrom, Finalize
<1> QED BY <1>8, <1>9, <1>10 DEF IInv, Finalize

LEMMA FailInv == ASSUME IInv, Fail PROVE IInv'
<1>1. /\ DOMAIN data' = Source
      /\ \A s \in BaseSources : data'[s] = <<>>
      /\ data'.ai = data.ai
  BY SourceNames DEF Fail, NoRows
<1>2. \A s \in Source : s \in BaseSources \/ s = "ai"
  BY SourceNames
<1>3. DataOK(data')
  <2>1. \A s \in Source : RowsOK(s, data'[s])
    BY <1>1, <1>2, EmptyOK DEF IInv, DataOK
  <2>2. data'["rate"] = <<>>
    BY <1>1, SourceNames
  <2> QED BY <1>1, <2>1, <2>2, EmptyOK DEF DataOK
<1>4. Dates(data', BaseSources) = {}
  BY <1>1 DEF Dates, Rows
<1>5. bounds' = [first |-> Today, last |-> Today]
  BY DEF Fail, SourceBounds
<1>6. BoundsOK(data', bounds')
  BY <1>4, <1>5, ValueAssumption DEF BoundsOK
<1> QED BY <1>3, <1>6 DEF IInv, Fail

LEMMA NextInv == IInv /\ [Next]_vars => IInv'
<1> SUFFICES ASSUME IInv, [Next]_vars PROVE IInv'
  OBVIOUS
<1>1. ASSUME NEW s \in BaseSources, Land(s) PROVE IInv'
  BY <1>1, LandInv
<1>2. CASE LandDeferred
  BY <1>2, DeferredInv
<1>3. ASSUME NEW o \in BOOLEAN, NEW a \in BOOLEAN, Finalize(o, a) PROVE IInv'
  BY <1>3, FinalizeInv
<1>4. CASE Fail
  BY <1>4, FailInv
<1>5. CASE UNCHANGED vars
  BY <1>5 DEF IInv, vars
<1> QED BY <1>1, <1>2, <1>3, <1>4, <1>5 DEF Next

\* The rows of every reachable state are well formed, within the stored bounds
\* while anything is left of them, and what is stored with a completed run is
\* what its rows give (set_dataset, finalize_run and complete_source).
THEOREM Inductive == Spec => []IInv
<1> QED BY InitInv, NextInv, PTL DEF Spec

(***************************************************************************)
(* A poll of a running run.                                                *)
(***************************************************************************)
LEMMA KindOfView ==
    ASSUME NEW d, NEW meta, NEW rates, NEW range
    PROVE  ViewForRange(d, meta, rates, range).kind = "view"
BY DEF ViewForRange

\* A range within the bounds and not past the through date is never refused.
LEMMA CustomIsAnswered ==
    ASSUME NEW d, NEW meta, NEW b, NEW first \in Int, NEW last \in Int,
           ThroughDate(meta) \in Int, first <= last, last <= ThroughDate(meta),
           b.first \in Int, b.last \in Int, b.first <= first, last <= b.last
    PROVE  BuildView(d, meta, b, Custom(first, last)).kind \in {"view", "unsupported"}
<1> DEFINE req == Custom(first, last)
           through == ThroughDate(meta)
           rates == RateIndex(d.rate)
           blocked == UnsupportedMetadata(meta) \/ UnsupportedConversion(meta, rates)
           limits == IF blocked THEN RequestedRange(req, through) ELSE b
           range == ResolveRange(req, through, limits)
<1>1. req.window = None /\ req.first = first /\ req.last = last
  BY DEF Custom
<1>2. None \notin Int
  BY NoneAssumption
<1> HIDE DEF req
<1>3. RequestedRange(req, through) = [first |-> first, last |-> last]
  BY <1>1, <1>2 DEF RequestedRange, Least
<1>4. ~ InvalidRequest(req, through)
  BY <1>1, <1>2 DEF InvalidRequest
<1>5. limits.first \in Int /\ limits.last \in Int /\ limits.first <= first /\ last <= limits.last
  BY <1>3
<1> HIDE DEF limits
<1>6. range = [kind |-> "range", first |-> first, last |-> last]
  BY <1>3, <1>4, <1>5 DEF ResolveRange
<1>7. through # None
  BY <1>2
<1>8. BuildView(d, meta, b, req) =
        IF blocked THEN EmptyView("unsupported", range) ELSE ViewForRange(d, meta, rates, range)
  <2>1. range.kind = "range"
    BY <1>6
  <2> HIDE DEF range, blocked, rates
  <2>2. BuildView(d, meta, b, req) =
          IF through = None THEN EmptyView("empty", [first |-> b.last, last |-> b.last])
          ELSE IF range.kind # "range" THEN range
          ELSE IF blocked THEN EmptyView("unsupported", range)
          ELSE ViewForRange(d, meta, rates, range)
    BY Zenon DEF BuildView, range, blocked, rates, limits
  <2> QED BY <1>7, <2>1, <2>2
<1>9. EmptyView("unsupported", range).kind = "unsupported"
  BY DEF EmptyView
<1> HIDE DEF range, blocked, rates
<1>10. BuildView(d, meta, b, req).kind \in {"view", "unsupported"}
  BY <1>8, <1>9, KindOfView
<1> QED BY <1>10 DEF req

LEMMA EmptyIsAnswered ==
    ASSUME NEW d, NEW meta, NEW b, NEW req, ThroughDate(meta) = None
    PROVE  BuildView(d, meta, b, req).kind = "empty"
BY DEF BuildView, EmptyView

\* The range that a running run is shown for: never before the first row that
\* has landed, never past the last, never empty.
LEMMA RunningRange ==
    ASSUME IInv, status = "running", NEW req \in WindowRequests,
           ThroughDate(ReconstructedMetadata(data)) # None
    PROVE  LET through == ThroughDate(ReconstructedMetadata(data))
               days == IF req.window = None THEN DefaultWindow ELSE req.window
           IN  /\ through \in Int
               /\ bounds.first \in Int /\ bounds.last \in Int
               /\ bounds.first <= through /\ through <= bounds.last
               /\ days \in SupportedWindows
               /\ RunningStart(through, days) \in Int
               /\ bounds.first <= RunningStart(through, days)
               /\ RunningStart(through, days) <= through
               /\ RunningView(req) = BuildView(data, ReconstructedMetadata(data), bounds,
                                               Custom(RunningStart(through, days), through))
<1> DEFINE meta == ReconstructedMetadata(data)
           through == ThroughDate(meta)
           days == IF req.window = None THEN DefaultWindow ELSE req.window
<1>1. through \in Dates(data, BaseSources)
  BY ThroughOfRows DEF IInv
<1>2. through \in Int
  <2>1. BaseSources \in SUBSET Source
    BY SourceNames
  <2> QED BY <1>1, <2>1, DatesFinite DEF IInv
<1>3. /\ bounds.first \in Int /\ bounds.last \in Int
      /\ bounds.first <= through /\ through <= bounds.last
  BY <1>1 DEF IInv, BoundsOK
<1>4. days \in SupportedWindows /\ days \in Nat \ {0}
  BY WindowAssumption DEF WindowRequests, Relative
<1> HIDE DEF days
<1>5. /\ RunningStart(through, days) \in Int
      /\ bounds.first <= RunningStart(through, days)
      /\ RunningStart(through, days) <= through
  BY <1>2, <1>3, <1>4 DEF RunningStart, WindowStart, Greatest
<1>6. Least(through, bounds.last) = through
  BY <1>2, <1>3 DEF Least
<1>7. RunningView(req) = BuildView(data, meta, bounds, Custom(RunningStart(through, days), through))
  BY <1>4, <1>6 DEF RunningView, days
<1> QED BY <1>2, <1>3, <1>4, <1>5, <1>7 DEF days

LEMMA RunningIsAnswered == IInv => RunningViewAnswers
<1> SUFFICES ASSUME IInv, status = "running", NEW req \in WindowRequests
             PROVE  RunningView(req).kind \notin {"conflict", "invalid"}
  BY DEF RunningViewAnswers
<1> DEFINE meta == ReconstructedMetadata(data)
<1>1. CASE ThroughDate(meta) = None
  <2>1. RunningView(req) = BuildView(data, meta, bounds, Custom(bounds.first, bounds.last))
    BY <1>1 DEF RunningView
  <2> QED BY <1>1, <2>1, EmptyIsAnswered
<1>2. CASE ThroughDate(meta) # None
  <2> DEFINE through == ThroughDate(meta)
             days == IF req.window = None THEN DefaultWindow ELSE req.window
             first == RunningStart(through, days)
  <2>1. /\ through \in Int /\ bounds.first \in Int /\ bounds.last \in Int
        /\ first \in Int /\ bounds.first <= first /\ first <= through /\ through <= bounds.last
        /\ RunningView(req) = BuildView(data, meta, bounds, Custom(first, through))
    BY <1>2, RunningRange
  <2>2. BuildView(data, meta, bounds, Custom(first, through)).kind \in {"view", "unsupported"}
    <3> HIDE DEF first, meta
    <3> QED BY <2>1, CustomIsAnswered
  <2> QED BY <2>1, <2>2
<1> QED BY <1>1, <1>2

\* The running branch of the view route: however few rows have landed, in
\* whatever order, no poll ends in 409 or 422.
THEOREM RunningViewIsAnswered == Spec => []RunningViewAnswers
<1> QED BY Inductive, RunningIsAnswered, PTL

\* Requests and ranges as the resolver needs them.
RequestOK(req) ==
    /\ req.window \in Nat \cup {None}
    /\ req.first \in Int \cup {None}
    /\ req.last \in Int \cup {None}
RangeOK(range) == range.first \in Int /\ range.last \in Int /\ range.first <= range.last

\* resolve_dashboard_view_range returns the requested range or none, and never
\* one that leaves the bounds.
LEMMA ResolvedRange ==
    ASSUME NEW req, RequestOK(req), NEW through \in Int, NEW b, b.first \in Int, b.last \in Int,
           ResolveRange(req, through, b).kind = "range"
    PROVE  LET range == ResolveRange(req, through, b)
           IN  /\ RangeOK(range)
               /\ range.first = RequestedRange(req, through).first
               /\ range.last = RequestedRange(req, through).last
               /\ range = [kind |-> "range", first |-> range.first, last |-> range.last]
               /\ b.first <= range.first /\ range.last <= b.last
<1> DEFINE requested == RequestedRange(req, through)
           range == ResolveRange(req, through, b)
<1>1. None \notin Int
  BY NoneAssumption
<1>2. ~ InvalidRequest(req, through)
  BY DEF ResolveRange
<1>3. (req.first = None) = (req.last = None)
  BY <1>2 DEF InvalidRequest
<1>4. requested.first \in Int /\ requested.last \in Int
  <2>1. CASE req.first # None
    BY <1>1, <1>3, <2>1 DEF RequestedRange, Least, RequestOK
  <2>2. CASE req.first = None
    <3> DEFINE days == IF req.window = None THEN DefaultWindow ELSE req.window
    <3>1. days \in Int
      BY WindowAssumption DEF RequestOK
    <3>2. requested = [first |-> WindowStart(through, days), last |-> through]
      BY <2>2 DEF RequestedRange
    <3> HIDE DEF days
    <3> QED BY <3>1, <3>2 DEF WindowStart
  <2> QED BY <2>1, <2>2
<1>5. /\ range = [kind |-> "range", first |-> requested.first, last |-> requested.last]
      /\ ~ requested.first > requested.last
      /\ ~ requested.first < b.first /\ ~ requested.last > b.last
  <2> HIDE DEF requested
  <2> QED BY <1>2 DEF ResolveRange, requested
<1> HIDE DEF requested, range
<1>6. /\ RangeOK(range) /\ range.first = requested.first /\ range.last = requested.last
      /\ range = [kind |-> "range", first |-> range.first, last |-> range.last]
      /\ b.first <= range.first /\ range.last <= b.last
  BY <1>4, <1>5 DEF RangeOK
<1> QED BY <1>6 DEF requested, range

\* Whatever is shown as a view is the view of the requested range.
LEMMA ViewOfRange ==
    ASSUME NEW d, NEW meta, NEW b, NEW req, RequestOK(req), b.first \in Int, b.last \in Int,
           ThroughDate(meta) \in Int \cup {None},
           BuildView(d, meta, b, req).kind = "view"
    PROVE  /\ ThroughDate(meta) \in Int
           /\ b.first <= RequestedRange(req, ThroughDate(meta)).first
           /\ \E range : /\ RangeOK(range)
                         /\ range.first = RequestedRange(req, ThroughDate(meta)).first
                         /\ range.last = RequestedRange(req, ThroughDate(meta)).last
                         /\ range = [kind |-> "range", first |-> range.first, last |-> range.last]
                         /\ BuildView(d, meta, b, req) =
                                ViewForRange(d, meta, RateIndex(d.rate), range)
<1> DEFINE through == ThroughDate(meta)
           rates   == RateIndex(d.rate)
           blocked == UnsupportedMetadata(meta) \/ UnsupportedConversion(meta, rates)
           limits  == IF blocked THEN RequestedRange(req, through) ELSE b
           range   == ResolveRange(req, through, limits)
           view    == BuildView(d, meta, b, req)
<1>1. view = IF through = None THEN EmptyView("empty", [first |-> b.last, last |-> b.last])
             ELSE IF range.kind # "range" THEN range
             ELSE IF blocked THEN EmptyView("unsupported", range)
             ELSE ViewForRange(d, meta, rates, range)
  <2> HIDE DEF range, blocked, rates
  <2> QED BY Zenon DEF BuildView, range, blocked, rates, limits
<1>2. EmptyView("unsupported", range).kind # "view"
  BY DEF EmptyView
<1>3. EmptyView("empty", [first |-> b.last, last |-> b.last]).kind # "view"
  BY DEF EmptyView
<1>4. range.kind \in {"invalid", "conflict", "range"}
  <2> HIDE DEF limits
  <2> QED BY DEF ResolveRange
<1>5. view.kind = "view"
  OBVIOUS
<1>6. through # None /\ range.kind = "range" /\ ~blocked /\ view = ViewForRange(d, meta, rates, range)
  <2> HIDE DEF range, blocked, rates, view, through
  <2> QED BY <1>1, <1>2, <1>3, <1>4, <1>5
<1>7. through \in Int
  BY <1>6
<1>8. limits = b
  BY <1>6
<1>9. /\ RangeOK(range)
      /\ range.first = RequestedRange(req, through).first
      /\ range.last = RequestedRange(req, through).last
      /\ range = [kind |-> "range", first |-> range.first, last |-> range.last]
      /\ b.first <= range.first
  <2> HIDE DEF limits
  <2> QED BY <1>6, <1>7, <1>8, ResolvedRange
<1> HIDE DEF range
<1> QED BY <1>6, <1>7, <1>9

(***************************************************************************)
(* The rate sheet, row by row.                                             *)
(***************************************************************************)

\* RateIndex is the last of the indexes that PutRate makes one after another.
LEMMA RateIndexSteps ==
    ASSUME NEW rows, Len(rows) \in Nat
    PROVE  \E index : /\ index[0] = <<>>
                      /\ \A n \in 1 .. Len(rows) : index[n] = PutRate(index[n - 1], rows[n])
                      /\ RateIndex(rows) = index[Len(rows)]
<1> DEFINE N == Len(rows)
           Step(f, n) == [k \in 0 .. n |-> IF k = 0 THEN <<>> ELSE PutRate(f[k - 1], rows[k])]
           index == CHOOSE f : f = Step(f, N)
           G == {n \in Nat : \E f : f = Step(f, n)}
<1>1. RateIndex(rows) = index[N]
  BY DEF RateIndex
<1>2. 0 \in G
  <2> DEFINE f == [k \in 0 .. 0 |-> <<>>]
  <2>1. f = Step(f, 0)
    OBVIOUS
  <2> QED BY <2>1
<1>3. ASSUME NEW n \in Nat, n \in G PROVE n + 1 \in G
  <2>1. PICK f : f = Step(f, n)
    BY <1>3
  <2> DEFINE g == [k \in 0 .. n + 1 |-> IF k <= n THEN f[k] ELSE PutRate(f[n], rows[n + 1])]
  <2>2. \A k \in 0 .. n : f[k] = IF k = 0 THEN <<>> ELSE PutRate(f[k - 1], rows[k])
    BY <2>1
  <2>3. g = Step(g, n + 1)
    <3>1. \A k \in 0 .. n + 1 : g[k] = IF k = 0 THEN <<>> ELSE PutRate(g[k - 1], rows[k])
      BY <2>2
    <3> QED BY <3>1
  <2> HIDE DEF g, Step
  <2> QED BY <2>3
<1>4. N \in G
  <2> HIDE DEF G, N
  <2>1. Nat \subseteq G
    BY <1>2, <1>3, NatSetInduction
  <2> QED BY <2>1 DEF N
<1>5. index = Step(index, N)
  <2>1. \E f : f = Step(f, N)
    BY <1>4
  <2> HIDE DEF Step
  <2> QED BY <2>1
<1> HIDE DEF index
<1>6. index[0] = <<>> /\ \A n \in 1 .. N : index[n] = PutRate(index[n - 1], rows[n])
  BY <1>5
<1> QED BY <1>1, <1>6

\* The best rate of a set of rows.
Best(rate, R) == (\E row \in R : rate = row.rate) /\ \A row \in R : rate >= row.rate
OfPlace(R, key) == {row \in R : <<row.date, row.service>> = <<key[1], key[2]>>}
OfRating(R, key, rating) == {row \in OfPlace(R, key) : row.rating = rating}
\* What an entry of the index is worth when the rows R have been read: a rating
\* has the best of its rows, the bare key the best COMPUTE rate or, without one,
\* the best of all.
Priced(index, R, key) ==
    /\ index[key].rate \in Int
    /\ key = <<key[1], key[2], key[3]>>
    /\ key[3] # None => Best(index[key].rate, OfRating(R, key, key[3]))
    /\ key[3] = None =>
         /\ index[key].compute = (OfRating(R, key, "COMPUTE") # {})
         /\ index[key].compute => Best(index[key].rate, OfRating(R, key, "COMPUTE"))
         /\ ~ index[key].compute => Best(index[key].rate, OfPlace(R, key))
\* The invariant of the loop over the sheet.
SheetOK(index, R) ==
    /\ \A row \in R : row.rate \in Int
    /\ \A key \in DOMAIN index : Priced(index, R, key)
    /\ \A row \in R : /\ <<row.date, row.service, None>> \in DOMAIN index
                      /\ row.rating # None => <<row.date, row.service, row.rating>> \in DOMAIN index

LEMMA BestAdd ==
    ASSUME NEW R, \A r \in R : r.rate \in Int, NEW row, row.rate \in Int,
           NEW rate \in Int, Best(rate, R)
    PROVE  /\ row.rate <= rate => Best(rate, R \cup {row})
           /\ ~ row.rate <= rate => Best(row.rate, R \cup {row})
BY DEF Best

LEMMA BestOne == ASSUME NEW row, row.rate \in Int PROVE Best(row.rate, {row})
BY DEF Best

\* One more row keeps it.
LEMMA SheetGrows ==
    ASSUME NEW index, NEW R, SheetOK(index, R), NEW row, row.rate \in Int
    PROVE  SheetOK(PutRate(index, row), R \cup {row})
<1> DEFINE entry == [rate |-> row.rate, currency |-> row.currency, compute |-> row.rating = "COMPUTE"]
           rated == <<row.date, row.service, row.rating>>
           bare  == <<row.date, row.service, None>>
           best  == MaxRateEntry(index, rated, entry)
           first == PreferredEntry(index, bare, entry)
           new   == PutRate(index, row)
           Q     == R \cup {row}
<1>1. new = Put(IF row.rating = None THEN index ELSE Put(index, rated, best), bare, first)
  BY DEF PutRate
<1>2. entry.rate = row.rate /\ entry.compute = (row.rating = "COMPUTE")
  OBVIOUS
<1> HIDE DEF entry, best, first
<1>3. /\ DOMAIN new = DOMAIN index \cup {bare} \cup (IF row.rating = None THEN {} ELSE {rated})
      /\ new[bare] = first
      /\ row.rating # None => new[rated] = best /\ rated # bare
      /\ \A key \in DOMAIN index : key # bare /\ (row.rating = None \/ key # rated)
                                      => new[key] = index[key]
  BY <1>1 DEF Put
<1> HIDE DEF new
<1>4. \A r \in Q : r.rate \in Int
  BY DEF SheetOK
<1>5. ASSUME NEW key \in DOMAIN index, key # bare, row.rating = None \/ key # rated
      PROVE  Priced(new, Q, key)
  <2>1. Priced(index, R, key) /\ new[key] = index[key]
    BY <1>3, <1>5 DEF SheetOK
  <2>2. key = <<key[1], key[2], key[3]>>
    BY <2>1 DEF Priced
  <2>3. CASE key[3] # None
    <3>1. OfRating(Q, key, key[3]) = OfRating(R, key, key[3])
      BY <1>5, <2>2, <2>3 DEF OfRating, OfPlace
    <3> QED BY <2>1, <2>3, <3>1 DEF Priced
  <2>4. CASE key[3] = None
    <3>1. <<row.date, row.service>> # <<key[1], key[2]>>
      BY <1>5, <2>2, <2>4
    <3>2. OfPlace(Q, key) = OfPlace(R, key)
      BY <3>1 DEF OfPlace
    <3>3. OfRating(Q, key, "COMPUTE") = OfRating(R, key, "COMPUTE")
      BY <3>2 DEF OfRating
    <3> QED BY <2>1, <2>4, <3>2, <3>3 DEF Priced
  <2> QED BY <2>3, <2>4
<1>6. ASSUME row.rating # None
      PROVE  Priced(new, Q, rated)
  <2> DEFINE S == OfRating(R, rated, row.rating)
  <2>1. OfRating(Q, rated, row.rating) = S \cup {row}
    BY DEF OfRating, OfPlace
  <2>2. \A r \in S : r.rate \in Int
    BY DEF SheetOK, OfRating, OfPlace
  <2>3. rated[3] = row.rating /\ rated = <<rated[1], rated[2], rated[3]>>
    OBVIOUS
  <2>4. CASE rated \in DOMAIN index
    <3>1. index[rated].rate \in Int /\ Best(index[rated].rate, S)
      BY <1>6, <2>3, <2>4 DEF SheetOK, Priced
    <3>2. best = IF row.rate <= index[rated].rate THEN index[rated] ELSE entry
      BY <1>2, <2>4 DEF best, MaxRateEntry
    <3> HIDE DEF S, rated
    <3>3. best.rate \in Int /\ Best(best.rate, S \cup {row})
      BY <1>2, <2>2, <3>1, <3>2, BestAdd
    <3> QED BY <1>3, <1>6, <2>1, <2>3, <3>3 DEF Priced
  <2>5. CASE rated \notin DOMAIN index
    <3>1. S = {}
      BY <1>6, <2>5 DEF SheetOK, OfRating, OfPlace
    <3>2. best = entry
      BY <2>5 DEF best, MaxRateEntry
    <3> HIDE DEF S, rated
    <3>3. best.rate \in Int /\ Best(best.rate, S \cup {row})
      BY <1>2, <3>1, <3>2, BestOne
    <3> QED BY <1>3, <1>6, <2>1, <2>3, <3>3 DEF Priced
  <2> QED BY <2>4, <2>5
<1>7. Priced(new, Q, bare)
  <2> DEFINE A == OfPlace(R, bare)
             C == OfRating(R, bare, "COMPUTE")
  <2>1. /\ OfPlace(Q, bare) = A \cup {row}
        /\ OfRating(Q, bare, "COMPUTE") = IF row.rating = "COMPUTE" THEN C \cup {row} ELSE C
    BY DEF OfPlace, OfRating
  <2>2. (\A r \in A : r.rate \in Int) /\ (\A r \in C : r.rate \in Int) /\ C \subseteq A
    BY DEF SheetOK, OfPlace, OfRating
  <2>3. bare[3] = None /\ bare = <<bare[1], bare[2], bare[3]>>
    OBVIOUS
  <2>4. CASE bare \notin DOMAIN index
    <3>1. A = {}
      BY <2>4 DEF SheetOK, OfPlace
    <3>2. first = entry
      BY <2>4 DEF first, PreferredEntry, MaxRateEntry
    <3>3. C = {}
      BY <2>2, <3>1
    <3> HIDE DEF A, C, bare
    <3>4. new[bare].rate \in Int /\ Best(new[bare].rate, {row})
      BY <1>2, <1>3, <3>2, BestOne
    <3>5. /\ OfPlace(Q, bare) = {row}
          /\ OfRating(Q, bare, "COMPUTE") = IF row.rating = "COMPUTE" THEN {row} ELSE {}
      BY <2>1, <3>1, <3>3
    <3>6. new[bare].compute = (OfRating(Q, bare, "COMPUTE") # {})
      BY <1>2, <1>3, <3>2, <3>5
    <3>7. new[bare].compute => OfRating(Q, bare, "COMPUTE") = {row}
      BY <3>5, <3>6
    <3> HIDE DEF new
    <3> QED BY <2>3, <3>4, <3>5, <3>6, <3>7 DEF Priced
  <2>5. CASE bare \in DOMAIN index
    <3> DEFINE old == index[bare]
    <3>1. /\ old.rate \in Int
          /\ old.compute = (C # {})
          /\ old.compute => Best(old.rate, C)
          /\ ~ old.compute => Best(old.rate, A)
      BY <2>3, <2>5 DEF SheetOK, Priced
    <3>2. first = IF entry.compute # old.compute
                    THEN IF entry.compute THEN entry ELSE old
                    ELSE IF row.rate <= old.rate THEN old ELSE entry
      BY <1>2, <2>5 DEF first, PreferredEntry, MaxRateEntry
    <3> HIDE DEF A, C, bare, old
    <3>3. CASE entry.compute /\ ~ old.compute
      <4>1. first = entry /\ C = {}
        BY <3>1, <3>2, <3>3
      <4>2. new[bare].rate \in Int /\ Best(new[bare].rate, {row})
        BY <1>2, <1>3, <4>1, BestOne
      <4>3. OfRating(Q, bare, "COMPUTE") = {row}
        BY <1>2, <2>1, <3>3, <4>1
      <4>4. new[bare].compute = TRUE
        BY <1>2, <1>3, <3>3, <4>1
      <4> QED BY <2>3, <4>2, <4>3, <4>4 DEF Priced
    <3>4. CASE ~ entry.compute /\ old.compute
      <4>1. first = old /\ OfRating(Q, bare, "COMPUTE") = C
        BY <1>2, <2>1, <3>2, <3>4
      <4> QED BY <1>3, <2>3, <3>1, <3>4, <4>1 DEF Priced
    <3>5. CASE entry.compute /\ old.compute
      <4>1. first = IF row.rate <= old.rate THEN old ELSE entry
        BY <3>2, <3>5
      <4>2. first.rate \in Int /\ first.compute /\ Best(first.rate, C \cup {row})
        BY <1>2, <2>2, <3>1, <3>5, <4>1, BestAdd
      <4>3. OfRating(Q, bare, "COMPUTE") = C \cup {row}
        BY <1>2, <2>1, <3>5
      <4> QED BY <1>3, <2>3, <4>2, <4>3 DEF Priced
    <3>6. CASE ~ entry.compute /\ ~ old.compute
      <4>1. first = IF row.rate <= old.rate THEN old ELSE entry
        BY <1>2, <3>1, <3>2, <3>6
      <4>2. first.rate \in Int /\ ~ first.compute /\ Best(first.rate, A \cup {row})
        BY <1>2, <2>2, <3>1, <3>6, <4>1, BestAdd
      <4>3. OfRating(Q, bare, "COMPUTE") = {}
        BY <1>2, <2>1, <3>1, <3>6
      <4>4. first.compute = FALSE
        BY <1>2, <3>1, <3>6, <4>1
      <4> QED BY <1>3, <2>1, <2>3, <4>2, <4>3, <4>4 DEF Priced
    <3> QED BY <3>3, <3>4, <3>5, <3>6
  <2> QED BY <2>4, <2>5
<1>8. \A key \in DOMAIN new : Priced(new, Q, key)
  <2> HIDE DEF rated, bare, Q
  <2> QED BY <1>3, <1>5, <1>6, <1>7
<1>9. \A r \in Q : /\ <<r.date, r.service, None>> \in DOMAIN new
                   /\ r.rating # None => <<r.date, r.service, r.rating>> \in DOMAIN new
  <2>1. \A r \in R : /\ <<r.date, r.service, None>> \in DOMAIN index
                     /\ r.rating # None => <<r.date, r.service, r.rating>> \in DOMAIN index
    BY DEF SheetOK
  <2>2. bare \in DOMAIN new /\ (row.rating # None => rated \in DOMAIN new)
    BY <1>3
  <2>3. DOMAIN index \subseteq DOMAIN new
    BY <1>3
  <2> QED BY <2>1, <2>2, <2>3
<1>10. SheetOK(new, Q)
  BY <1>4, <1>8, <1>9 DEF SheetOK
<1> QED BY <1>10 DEF new

\* It holds of the whole index, which therefore is a matter of the set of rows.
LEMMA SheetOfRows ==
    ASSUME NEW rows \in Seq(Row["rate"])
    PROVE  SheetOK(RateIndex(rows), Rows(rows))
<1>1. Len(rows) \in Nat /\ DOMAIN rows = 1 .. Len(rows)
  OBVIOUS
<1>2. \A i \in 1 .. Len(rows) : rows[i].rate \in Int
  BY RowAssumption, SourceNames DEF RowOK
<1>3. PICK index : /\ index[0] = <<>>
                   /\ \A n \in 1 .. Len(rows) : index[n] = PutRate(index[n - 1], rows[n])
                   /\ RateIndex(rows) = index[Len(rows)]
  BY <1>1, RateIndexSteps
<1> DEFINE Upto(n) == {rows[i] : i \in 1 .. n}
           G == {n \in Nat : n <= Len(rows) => SheetOK(index[n], Upto(n))}
<1>4. 0 \in G
  <2>1. Upto(0) = {}
    OBVIOUS
  <2>2. DOMAIN index[0] = {}
    BY <1>3
  <2> QED BY <2>1, <2>2 DEF SheetOK
<1>5. ASSUME NEW n \in Nat, n \in G PROVE n + 1 \in G
  <2> SUFFICES ASSUME n + 1 <= Len(rows) PROVE SheetOK(index[n + 1], Upto(n + 1))
    OBVIOUS
  <2>1. Upto(n + 1) = Upto(n) \cup {rows[n + 1]}
    OBVIOUS
  <2>2. SheetOK(index[n], Upto(n))
    BY <1>1, <1>5
  <2>3. index[n + 1] = PutRate(index[n], rows[n + 1]) /\ rows[n + 1].rate \in Int
    BY <1>1, <1>2, <1>3
  <2> HIDE DEF Upto
  <2> QED BY <2>1, <2>2, <2>3, SheetGrows
<1>6. Nat \subseteq G
  <2> HIDE DEF G
  <2> QED BY <1>4, <1>5, NatSetInduction
<1>7. Upto(Len(rows)) = Rows(rows)
  BY <1>1 DEF Rows
<1>8. SheetOK(index[Len(rows)], Upto(Len(rows)))
  <2>1. Len(rows) \in G
    <3> HIDE DEF G
    <3> QED BY <1>1, <1>6
  <2> HIDE DEF Upto
  <2> QED BY <1>1, <2>1
<1> QED BY <1>3, <1>7, <1>8

LEMMA BestIsBestRate ==
    ASSUME NEW R, \A row \in R : row.rate \in Int, NEW rate \in Int, Best(rate, R)
    PROVE  BestRate(R) = rate
<1> DEFINE S == {row.rate : row \in R}
           Top(r) == \A row \in R : r >= row.rate
<1>1. rate \in S /\ Top(rate)
  BY DEF Best
<1>2. \A r \in S : Top(r) => r = rate
  BY DEF Best
<1>3. BestRate(R) = CHOOSE r \in S : Top(r)
  BY DEF BestRate
<1>4. (CHOOSE r \in S : Top(r)) \in S /\ Top(CHOOSE r \in S : Top(r))
  <2> HIDE DEF S, Top
  <2> QED BY <1>1
<1> QED BY <1>2, <1>3, <1>4

LEMMA SheetIsOrderFree == IInv => RatesAreOrderFree
<1> SUFFICES ASSUME IInv PROVE RatesAreOrderFree
  OBVIOUS
<1> DEFINE R == Rows(data.rate)
           index == RateIndex(data.rate)
           At(place, rating(_)) == {row \in R : <<row.date, row.service>> = place /\ rating(row.rating)}
<1>1. SheetOK(index, R)
  BY SheetOfRows DEF IInv, DataOK
<1> SUFFICES ASSUME NEW key \in DOMAIN index
             PROVE  LET place == <<key[1], key[2]>>
                        rated == At(place, LAMBDA r : r = key[3])
                        compute == At(place, LAMBDA r : r = "COMPUTE")
                    IN  index[key].rate =
                            IF key[3] # None THEN BestRate(rated)
                            ELSE IF compute # {} THEN BestRate(compute)
                            ELSE BestRate(At(place, LAMBDA r : TRUE))
  BY DEF RatesAreOrderFree
<1> HIDE DEF R, index
<1>2. /\ At(<<key[1], key[2]>>, LAMBDA r : r = key[3]) = OfRating(R, key, key[3])
      /\ At(<<key[1], key[2]>>, LAMBDA r : r = "COMPUTE") = OfRating(R, key, "COMPUTE")
      /\ At(<<key[1], key[2]>>, LAMBDA r : TRUE) = OfPlace(R, key)
  BY DEF OfRating, OfPlace
<1> HIDE DEF At
<1>3. \A T \in SUBSET R : \A row \in T : row.rate \in Int
  BY <1>1 DEF SheetOK
<1>4. /\ OfRating(R, key, key[3]) \in SUBSET R
      /\ OfRating(R, key, "COMPUTE") \in SUBSET R
      /\ OfPlace(R, key) \in SUBSET R
  BY DEF OfRating, OfPlace
<1>5. Priced(index, R, key)
  BY <1>1 DEF SheetOK
<1>6. CASE key[3] # None
  <2>1. BestRate(OfRating(R, key, key[3])) = index[key].rate
    BY <1>3, <1>4, <1>5, <1>6, BestIsBestRate DEF Priced
  <2> QED BY <1>2, <1>6, <2>1
<1>7. CASE key[3] = None /\ OfRating(R, key, "COMPUTE") # {}
  <2>1. BestRate(OfRating(R, key, "COMPUTE")) = index[key].rate
    BY <1>3, <1>4, <1>5, <1>7, BestIsBestRate DEF Priced
  <2> QED BY <1>2, <1>7, <2>1
<1>8. CASE key[3] = None /\ OfRating(R, key, "COMPUTE") = {}
  <2>1. BestRate(OfPlace(R, key)) = index[key].rate
    BY <1>3, <1>4, <1>5, <1>8, BestIsBestRate DEF Priced
  <2> QED BY <1>2, <1>8, <2>1
<1> QED BY <1>6, <1>7, <1>8

\* _rate_index: in whatever order Snowflake returns the rate sheet, every usage
\* is priced the same.
THEOREM RatesNeverDependOnOrder == Spec => []RatesAreOrderFree
<1> QED BY Inductive, SheetIsOrderFree, PTL

(***************************************************************************)
(* Prices, daily totals and the forecast.                                  *)
(***************************************************************************)
LEMMA Division ==
    ASSUME NEW a \in Int, NEW b \in Int, b > 0
    PROVE  a \div b \in Int /\ b * (a \div b) <= a /\ a < b * (a \div b) + b
<1> DEFINE q == a \div b
           r == a % b
<1>1. a = b * q + r /\ 0 <= r /\ r < b /\ q \in Int /\ r \in Int
  OBVIOUS
<1> QED BY <1>1

LEMMA TimesMonotone ==
    ASSUME NEW a \in Int, NEW b \in Int, NEW c \in Int, a <= b, 0 <= c
    PROVE  c * a <= c * b
OBVIOUS

LEMMA PositiveTimes ==
    ASSUME NEW a \in Int, NEW b \in Int, a > 0, b > 0
    PROVE  a * b \in Int /\ a * b > 0
OBVIOUS

\* The ceiling of _build_forecast_series: enough days to reach zero, one fewer
\* are not enough.
LEMMA DaysToZeroCovers ==
    ASSUME NEW scaled \in Int, NEW sum \in Int, scaled > 0, sum > 0
    PROVE  LET n == DaysToZero(scaled, sum)
           IN  /\ n \in Nat \ {0}
               /\ \A k \in 0 .. n - 1 : sum * k \in Int /\ sum * k < scaled
<1> DEFINE n == DaysToZero(scaled, sum)
           a == scaled + sum - 1
<1>1. n = a \div sum
  BY DEF DaysToZero
<1>2. a \in Int
  OBVIOUS
<1>3. n \in Int /\ sum * n <= a /\ a < sum * n + sum
  <2> HIDE DEF a, n
  <2> QED BY <1>1, <1>2, Division
<1> HIDE DEF n
<1>4. n > 0
  <2> SUFFICES ASSUME n <= 0 PROVE FALSE
    BY <1>3
  <2>1. sum * n <= sum * 0
    BY <1>3, TimesMonotone
  <2> QED BY <1>3, <2>1
<1>5. ASSUME NEW k \in 0 .. n - 1 PROVE sum * k \in Int /\ sum * k < scaled
  <2>1. k \in Int /\ k <= n - 1 /\ n - 1 \in Int
    BY <1>3
  <2>2. sum * k <= sum * (n - 1)
    BY <2>1, TimesMonotone
  <2>3. sum * (n - 1) = sum * n - sum
    BY <1>3
  <2>4. sum * n \in Int /\ sum * k \in Int
    BY <1>3, <2>1
  <2> QED BY <1>3, <2>2, <2>3, <2>4
<1> QED BY <1>3, <1>4, <1>5 DEF n

\* Hence the line falls evenly, and touches zero on its last day only.
LEMMA ForecastLine ==
    ASSUME NEW balance \in Int, NEW date \in Int, NEW spend,
           spend.sum \in Int, spend.days \in Nat \ {0},
           Forecast(balance, date, spend) # <<>>,
           NEW shown, shown.date = date, shown.balance = balance, shown.days = spend.days
    PROVE  LineRunsOut(Forecast(balance, date, spend), shown)
<1> DEFINE sum == spend.sum
           scaled == balance * spend.days
           n == DaysToZero(scaled, sum)
           line == Forecast(balance, date, spend)
<1>1. sum > 0 /\ balance > 0 /\ ~ n > MaxForecastDays
  BY DEF Forecast
<1>2. scaled \in Int /\ scaled > 0 /\ sum \in Int
  BY <1>1, PositiveTimes
<1>3. line = [i \in 1 .. n + 1 |->
                 [date |-> date + i - 1,
                  balance |-> IF i = n + 1 THEN 0 ELSE Greatest(scaled - sum * (i - 1), 0)]]
  BY <1>1 DEF Forecast
<1>4. scaled = shown.balance * shown.days
  OBVIOUS
<1> HIDE DEF scaled, sum
<1>5. n \in Nat \ {0} /\ \A k \in 0 .. n - 1 : sum * k \in Int /\ sum * k < scaled
  BY <1>1, <1>2, DaysToZeroCovers
<1> HIDE DEF n, line
<1>6. \A i \in 1 .. n : /\ line[i].date = date + i - 1
                        /\ line[i].balance = scaled - sum * (i - 1)
                        /\ line[i] = [date |-> date + i - 1, balance |-> scaled - sum * (i - 1)]
                        /\ sum * (i - 1) \in Int /\ scaled - sum * (i - 1) > 0
  <2> SUFFICES ASSUME NEW i \in 1 .. n
               PROVE  /\ line[i] = [date |-> date + i - 1, balance |-> scaled - sum * (i - 1)]
                      /\ sum * (i - 1) \in Int /\ scaled - sum * (i - 1) > 0
    OBVIOUS
  <2>1. i - 1 \in 0 .. n - 1
    BY <1>5
  <2>2. sum * (i - 1) \in Int /\ sum * (i - 1) < scaled
    BY <1>5, <2>1
  <2>3. line[i] = [date |-> date + i - 1, balance |-> Greatest(scaled - sum * (i - 1), 0)]
    BY <1>3, <1>5
  <2> QED BY <1>2, <2>2, <2>3 DEF Greatest
<1>7. line[n + 1] = [date |-> date + n, balance |-> 0]
  BY <1>3, <1>5
<1>8. Len(line) = n + 1
  BY <1>3, <1>5
<1>9. line[1] = [date |-> shown.date, balance |-> shown.balance * shown.days]
  <2>1. line[1] = [date |-> date + 1 - 1, balance |-> scaled - sum * (1 - 1)]
    BY <1>5, <1>6
  <2>2. sum * (1 - 1) = 0 /\ date + 1 - 1 = date
    BY <1>2
  <2>3. scaled - 0 = scaled
    BY <1>2
  <2> QED BY <1>4, <2>1, <2>2, <2>3
<1>10. \A i \in DOMAIN line : (line[i].balance = 0) = (i = Len(line))
  <2> SUFFICES ASSUME NEW i \in 1 .. n + 1
               PROVE  (line[i].balance = 0) = (i = n + 1)
    BY <1>3, <1>8
  <2>1. CASE i = n + 1
    BY <1>7, <2>1
  <2>2. CASE i # n + 1
    <3>1. i \in 1 .. n
      BY <1>5, <2>2
    <3>2. line[i].balance = scaled - sum * (i - 1) /\ scaled - sum * (i - 1) > 0
      BY <1>6, <3>1
    <3>3. line[i].balance # 0
      BY <3>2
    <3> QED BY <2>2, <3>3
  <2> QED BY <2>1, <2>2
<1>11. \A i \in 2 .. n : /\ line[i - 1].balance - line[i].balance = sum
                         /\ line[i].balance < line[i - 1].balance
  <2> SUFFICES ASSUME NEW i \in 2 .. n
               PROVE  /\ line[i - 1].balance - line[i].balance = sum
                      /\ line[i].balance < line[i - 1].balance
    OBVIOUS
  <2>1. i \in 1 .. n /\ i - 1 \in 1 .. n
    BY <1>5
  <2>2. line[i].balance = scaled - sum * (i - 1) /\ line[i - 1].balance = scaled - sum * (i - 1 - 1)
    BY <1>6, <2>1
  <2>3. sum * (i - 1 - 1) = sum * (i - 1) - sum
    BY <1>2
  <2>4. sum * (i - 1) \in Int
    BY <1>2
  <2>5. \A a \in Int : /\ (scaled - (a - sum)) - (scaled - a) = sum
                      /\ scaled - a < scaled - (a - sum)
    BY <1>1, <1>2 DEF sum
  <2> HIDE DEF sum, scaled, line
  <2> QED BY <2>2, <2>3, <2>4, <2>5
<1>12. \A i \in 2 .. Len(line) : /\ line[i].balance < line[i - 1].balance
                                 /\ line[i].date = line[i - 1].date + 1
  <2> SUFFICES ASSUME NEW i \in 2 .. n + 1
               PROVE  /\ line[i].balance < line[i - 1].balance
                      /\ line[i].date = line[i - 1].date + 1
    BY <1>8
  <2>0. i - 1 \in 1 .. n /\ line[i - 1].date = date + (i - 1) - 1 /\ line[i - 1].balance > 0
    <3>1. i - 1 \in 1 .. n
      BY <1>5
    <3> QED BY <1>6, <3>1
  <2>1. CASE i = n + 1
    BY <1>5, <1>7, <2>0, <2>1
  <2>2. CASE i # n + 1
    <3>1. i \in 1 .. n /\ i \in 2 .. n
      BY <1>5, <2>2
    <3>2. line[i].date = date + i - 1
      BY <1>6, <3>1
    <3> QED BY <1>11, <2>0, <3>1, <3>2
  <2> QED BY <2>1, <2>2
<1>13. \A i \in 2 .. Len(line) - 1 :
          line[i - 1].balance - line[i].balance = line[1].balance - line[2].balance
  <2> SUFFICES ASSUME NEW i \in 2 .. n
               PROVE  line[i - 1].balance - line[i].balance = line[1].balance - line[2].balance
    BY <1>5, <1>8
  <2>1. 2 \in 2 .. n /\ 2 - 1 = 1
    BY <1>5
  <2>2. line[2 - 1].balance - line[2].balance = sum
    BY <1>11, <2>1
  <2> QED BY <1>11, <2>1, <2>2
<1>14. Len(line) <= MaxForecastDays + 1
  BY <1>1, <1>5, <1>8, WindowAssumption DEF n
<1>15. LineRunsOut(line, shown)
  BY <1>9, <1>10, <1>12, <1>13, <1>14 DEF LineRunsOut
<1> QED BY <1>15 DEF line

LEMMA PriceType ==
    ASSUME NEW rates, NEW R, SheetOK(rates, R),
           NEW currency, NEW date, NEW service, NEW rating
    PROVE  PricePerCredit(rates, currency, date, service, rating) \in Int
<1> DEFINE rated == <<date, service, rating>>
           bare == <<date, service, None>>
           keys == {rated, bare} \cap DOMAIN rates
           key == IF rated \in keys THEN rated ELSE bare
<1>1. \A k \in DOMAIN rates : rates[k].rate \in Int
  BY DEF SheetOK, Priced
<1>2. CreditPrice \in Int
  BY ValueAssumption
<1>3. CASE keys = {}
  BY <1>2, <1>3 DEF PricePerCredit
<1>4. CASE keys # {}
  <2>1. key \in DOMAIN rates
    BY <1>4
  <2>2. PricePerCredit(rates, currency, date, service, rating) =
          IF UsdOrUnspecified(rates[key].currency) THEN rates[key].rate ELSE 0
    BY <1>4 DEF PricePerCredit
  <2> QED BY <1>1, <2>1, <2>2
<1> QED BY <1>3, <1>4

\* All that the sums need to know of prices.
RatesOK(rates) == \A currency, date, service, rating :
                      PricePerCredit(rates, currency, date, service, rating) \in Int

LEMMA RatesType == ASSUME NEW d, DataOK(d) PROVE RatesOK(RateIndex(d.rate))
<1>1. SheetOK(RateIndex(d.rate), Rows(d.rate))
  BY SheetOfRows DEF DataOK
<1> QED BY <1>1, PriceType DEF RatesOK

LEMMA DaysFinite == ASSUME NEW range, RangeOK(range) PROVE IsFiniteSet(range.first .. range.last)
BY FS_Interval DEF RangeOK

\* The places of a source that lie within a range; a filter leaves these.
Places(rows, range) == {i \in DOMAIN rows : rows[i].date \in range.first .. range.last}

LEMMA WindowedRows ==
    ASSUME NEW s, NEW rows, RowsOK(s, rows), NEW range
    PROVE  /\ RowsOK(s, InWindow(rows, range))
           /\ DOMAIN InWindow(rows, range) = Places(rows, range)
           /\ \A i \in DOMAIN InWindow(rows, range) :
                 /\ InWindow(rows, range)[i] = rows[i]
                 /\ InWindow(rows, range)[i].date \in range.first .. range.last
<1> DEFINE K == Places(rows, range)
<1>1. InWindow(rows, range) = Restrict(rows, K)
  BY DEF InWindow, RestrictValues, Places
<1>2. K \in SUBSET DOMAIN rows
  BY DEF Places
<1> HIDE DEF K
<1>3. RowsOK(s, Restrict(rows, K)) /\ DOMAIN Restrict(rows, K) = K
  BY <1>2, RestrictedRows
<1>4. \A i \in K : Restrict(rows, K)[i] = rows[i]
  BY DEF Restrict
<1>5. \A i \in K : rows[i].date \in range.first .. range.last
  BY DEF K, Places
<1> QED BY <1>1, <1>3, <1>4, <1>5 DEF K

LEMMA ConsumptionOK ==
    ASSUME NEW rows, RowsOK("org", rows)
    PROVE  RowsOK("org", ConsumptionRows(rows))
<1> DEFINE K == {i \in DOMAIN rows : rows[i].billing = "CONSUMPTION"}
<1>1. ConsumptionRows(rows) = Restrict(rows, K)
  BY DEF ConsumptionRows, RestrictValues
<1> QED BY <1>1, RestrictedRows

\* The dollars of one day, as the daily totals add them up.
DayDollars(d, meta, rates, date) ==
    IF meta.mode = "billed"
      THEN [i \in DOMAIN ConsumptionRows(d.org) |->
              IF ConsumptionRows(d.org)[i].date = date THEN ConsumptionRows(d.org)[i].spend ELSE 0]
      ELSE [i \in DOMAIN d.service |->
              IF d.service[i].date # date THEN 0
              ELSE d.service[i].credits * PricePerCredit(rates, meta.currency, date,
                                                         d.service[i].service, None)]

LEMMA DailyIsSum ==
    ASSUME NEW d, NEW meta, NEW rates, NEW range
    PROVE  DailyTotals(d, meta, rates, range) =
           [date \in range.first .. range.last |-> SumOf(DayDollars(d, meta, rates, date))]
BY DEF DailyTotals, Total, DayDollars

ServiceRows(d, meta) == IF meta.mode = "billed" THEN ConsumptionRows(d.org) ELSE d.service

LEMMA DayDollarsType ==
    ASSUME NEW d, DataOK(d), NEW meta, NEW rates, RatesOK(rates), NEW date
    PROVE  /\ DayDollars(d, meta, rates, date) \in [DOMAIN ServiceRows(d, meta) -> Int]
           /\ IsFiniteSet(DOMAIN ServiceRows(d, meta))
<1>1. RowsOK("org", ConsumptionRows(d.org)) /\ RowsOK("service", d.service)
  BY ConsumptionOK, SourceNames DEF DataOK
<1>2. CASE meta.mode = "billed"
  BY <1>1, <1>2 DEF DayDollars, ServiceRows, RowsOK, RowOK
<1>3. CASE meta.mode # "billed"
  <2>1. ASSUME NEW i \in DOMAIN d.service
        PROVE  DayDollars(d, meta, rates, date)[i] \in Int
    <3>1. d.service[i].credits \in Int
      BY <1>1 DEF RowsOK, RowOK
    <3> DEFINE price == PricePerCredit(rates, meta.currency, date, d.service[i].service, None)
    <3>2. price \in Int
      BY DEF RatesOK
    <3>3. DayDollars(d, meta, rates, date)[i] =
            IF d.service[i].date # date THEN 0 ELSE d.service[i].credits * price
      BY <1>3 DEF DayDollars
    <3> HIDE DEF price
    <3> QED BY <3>1, <3>2, <3>3
  <2>2. DayDollars(d, meta, rates, date) =
          [i \in DOMAIN d.service |-> DayDollars(d, meta, rates, date)[i]]
    BY <1>3 DEF DayDollars
  <2> QED BY <1>1, <1>3, <2>1, <2>2 DEF ServiceRows, RowsOK
<1> QED BY <1>2, <1>3

LEMMA DailyType ==
    ASSUME NEW d, DataOK(d), NEW meta, NEW rates, RatesOK(rates), NEW range
    PROVE  DailyTotals(d, meta, rates, range) \in [range.first .. range.last -> Int]
<1>1. ASSUME NEW date PROVE SumOf(DayDollars(d, meta, rates, date)) \in Int
  BY DayDollarsType, SumType
<1> QED BY <1>1, DailyIsSum

LEMMA TrailingType ==
    ASSUME NEW first \in Int, NEW last \in Int, first <= last,
           NEW daily \in [first .. last -> Int]
    PROVE  TrailingSpend(daily, last).sum \in Int /\ TrailingSpend(daily, last).days \in Nat \ {0}
<1> DEFINE days == {date \in DOMAIN daily : date > last - ForecastWindow}
           f == [date \in days |-> daily[date]]
<1>1. last \in days
  BY WindowAssumption
<1>2. IsFiniteSet(days)
  <2>1. days \subseteq first .. last /\ IsFiniteSet(first .. last)
    BY FS_Interval
  <2> HIDE DEF days
  <2> QED BY <2>1, FS_Subset
<1>3. f \in [days -> Int]
  OBVIOUS
<1>4. TrailingSpend(daily, last).sum = SumOf(f) /\ TrailingSpend(daily, last).days = Cardinality(days)
  BY DEF TrailingSpend
<1> HIDE DEF f, days
<1>5. SumOf(f) \in Int
  BY <1>2, <1>3, SumType
<1>6. Cardinality(days) \in Nat \ {0}
  BY <1>1, <1>2, FS_CardinalityType, FS_EmptySet
<1> QED BY <1>4, <1>5, <1>6

LEMMA BalanceRuns ==
    ASSUME NEW d, DataOK(d), NEW meta, NEW range, NEW spend,
           spend.sum \in Int, spend.days \in Nat \ {0},
           CapacityBalance(d, meta, range, spend).forecast # <<>>
    PROVE  LineRunsOut(CapacityBalance(d, meta, range, spend).forecast,
                       CapacityBalance(d, meta, range, spend))
<1> DEFINE rows == RestrictValues(InWindow(d.capacity, range),
                                  LAMBDA row : row.currency = ViewCurrency(meta))
           latest == LatestDate(rows)
           f == [i \in DOMAIN rows |-> IF rows[i].date = latest THEN rows[i].balance ELSE 0]
           balance == SumOf(f)
           shown == CapacityBalance(d, meta, range, spend)
<1>1. RowsOK("capacity", rows)
  <2> DEFINE W == InWindow(d.capacity, range)
             K == {i \in DOMAIN W : W[i].currency = ViewCurrency(meta)}
  <2>1. RowsOK("capacity", W)
    BY WindowedRows, SourceNames DEF DataOK
  <2>2. rows = Restrict(W, K)
    BY DEF RestrictValues
  <2> HIDE DEF W
  <2> QED BY <2>1, <2>2, RestrictedRows
<1>2. shown = IF Rows(rows) = {} THEN [date |-> None, balance |-> 0, days |-> 1, forecast |-> <<>>]
              ELSE [date |-> latest, balance |-> balance, days |-> spend.days,
                    forecast |-> Forecast(balance, latest, spend)]
  BY DEF CapacityBalance, Total
<1> HIDE DEF rows
<1>3. Rows(rows) # {} /\ shown.forecast # <<>>
  BY <1>2
<1>4. latest \in Int
  <2>1. RowDates(rows) # {}
    BY <1>3 DEF RowDates
  <2> QED BY <1>1, <2>1, RowDatesFinite, LatestIn DEF LatestDate, RowDates
<1>5. balance \in Int
  <2>1. IsFiniteSet(DOMAIN rows) /\ f \in [DOMAIN rows -> Int]
    BY <1>1 DEF RowsOK, RowOK
  <2> HIDE DEF f
  <2> QED BY <2>1, SumType
<1> HIDE DEF balance, latest, shown
<1>6. /\ shown.date = latest /\ shown.balance = balance /\ shown.days = spend.days
      /\ shown.forecast = Forecast(balance, latest, spend)
  BY <1>2, <1>3
<1>7. LineRunsOut(shown.forecast, shown)
  BY <1>3, <1>4, <1>5, <1>6, ForecastLine
<1> QED BY <1>7 DEF shown

LEMMA ViewRunsOut ==
    ASSUME NEW d, DataOK(d), NEW meta, ThroughDate(meta) \in Int,
           NEW rates, RatesOK(rates), NEW range, RangeOK(range)
    PROVE  BalanceRunsOut(ViewForRange(d, meta, rates, range))
<1> DEFINE projection == ProjectionRange(ThroughDate(meta))
           projected  == DailyTotals(d, meta, rates, projection)
           anchored   == meta.mode = "billed" /\ range.last = projection.last
           spend      == IF anchored THEN TrailingSpend(projected, projection.last)
                                     ELSE [sum |-> 0, days |-> 1]
           view       == ViewForRange(d, meta, rates, range)
<1>1. RangeOK(projection)
  BY WindowAssumption DEF RangeOK, ProjectionRange, WindowStart
<1>2. projected \in [projection.first .. projection.last -> Int]
  <2> HIDE DEF projection
  <2> QED BY <1>1, DailyType
<1>3. spend.sum \in Int /\ spend.days \in Nat \ {0}
  <2> HIDE DEF projection, projected
  <2>1. /\ TrailingSpend(projected, projection.last).sum \in Int
        /\ TrailingSpend(projected, projection.last).days \in Nat \ {0}
    BY <1>1, <1>2, TrailingType DEF RangeOK
  <2> QED BY <2>1
<1>4. view.balance = CapacityBalance(d, meta, range, spend)
  <2> SUFFICES ViewForRange(d, meta, rates, range).balance = CapacityBalance(d, meta, range, spend)
    OBVIOUS
  <2> QED BY DEF ViewForRange
<1> HIDE DEF spend, view
<1>5. view.balance.forecast # <<>> => LineRunsOut(view.balance.forecast, view.balance)
  BY <1>3, <1>4, BalanceRuns
<1>6. BalanceRunsOut(view)
  BY <1>5 DEF BalanceRunsOut
<1> QED BY <1>6 DEF view

LEMMA ThroughType ==
    ASSUME NEW meta \in StoredMetadata PROVE ThroughDate(meta) \in Int \cup {None}
BY DEF StoredMetadata, ThroughDate

LEMMA CurrentType == IInv => CurrentMetadata \in StoredMetadata
<1> SUFFICES ASSUME IInv PROVE CurrentMetadata \in StoredMetadata
  OBVIOUS
<1>1. CASE stored = None
  <2>1. ReconstructedMetadata(data) \in StoredMetadata
    BY MetadataType DEF IInv, ReconstructedMetadata
  <2> QED BY <1>1, <2>1 DEF CurrentMetadata
<1>2. CASE stored # None
  <2>1. stored \in StoredMetadata
    BY <1>2, MetadataType DEF IInv, SettledFrom
  <2> QED BY <1>2, <2>1 DEF CurrentMetadata
<1> QED BY <1>1, <1>2

LEMMA RequestsOK == IInv => \A req \in Requests : RequestOK(req)
BY NoneAssumption, WindowAssumption
   DEF IInv, BoundsOK, Requests, WindowRequests, Relative, Custom, RequestOK

\* A view that is shown is the view of a range, for rows and prices that are
\* well formed, of a running run as of a settled one.
LEMMA ReadShape ==
    ASSUME IInv, NEW req, RequestOK(req), ReadView(req).kind = "view"
    PROVE  \E meta, range :
              /\ meta \in StoredMetadata
              /\ ThroughDate(meta) \in Int
              /\ RangeOK(range)
              /\ ReadView(req) = ViewForRange(data, meta, RateIndex(data.rate), range)
              /\ status # "running" =>
                    /\ meta = CurrentMetadata
                    /\ range.first = RequestedRange(req, ThroughDate(meta)).first
                    /\ range.last = RequestedRange(req, ThroughDate(meta)).last
<1>1. bounds.first \in Int /\ bounds.last \in Int
  BY DEF IInv, BoundsOK
<1>2. CASE status # "running"
  <2> DEFINE meta == CurrentMetadata
  <2>1. meta \in StoredMetadata /\ ThroughDate(meta) \in Int \cup {None}
    BY CurrentType, ThroughType
  <2>2. ReadView(req) = BuildView(data, meta, bounds, req)
    BY <1>2 DEF ReadView
  <2> HIDE DEF meta
  <2>3. /\ ThroughDate(meta) \in Int
        /\ \E range : /\ RangeOK(range)
                      /\ range.first = RequestedRange(req, ThroughDate(meta)).first
                      /\ range.last = RequestedRange(req, ThroughDate(meta)).last
                      /\ BuildView(data, meta, bounds, req) =
                             ViewForRange(data, meta, RateIndex(data.rate), range)
    BY <1>1, <2>1, <2>2, ViewOfRange
  <2> QED BY <2>1, <2>2, <2>3 DEF meta
<1>3. CASE status = "running"
  <2> DEFINE meta    == ReconstructedMetadata(data)
             through == ThroughDate(meta)
             days    == IF req.window = None THEN DefaultWindow ELSE req.window
             last    == Least(through, bounds.last)
             first   == RunningStart(last, days)
             asked   == Custom(first, last)
  <2>1. meta \in StoredMetadata /\ through \in Int \cup {None}
    BY MetadataType, ThroughType DEF IInv, ReconstructedMetadata
  <2>2. ReadView(req) = IF through = None
                          THEN BuildView(data, meta, bounds, Custom(bounds.first, bounds.last))
                        ELSE IF days \notin SupportedWindows THEN [kind |-> "invalid"]
                        ELSE BuildView(data, meta, bounds, asked)
    BY <1>3 DEF ReadView, RunningView
  <2>3. through = None => BuildView(data, meta, bounds, Custom(bounds.first, bounds.last)).kind = "empty"
    <3> HIDE DEF meta
    <3> QED BY EmptyIsAnswered
  <2> HIDE DEF meta, asked, days
  <2>4. through \in Int /\ days \in SupportedWindows /\ ReadView(req) = BuildView(data, meta, bounds, asked)
    BY <2>1, <2>2, <2>3
  <2>5. last \in Int /\ first \in Int
    BY <1>1, <2>4, WindowAssumption DEF Least, RunningStart, WindowStart, Greatest
  <2>6. RequestOK(asked)
    BY <2>5, NoneAssumption DEF asked, RequestOK, Custom
  <2>7. \E range : /\ RangeOK(range)
                   /\ BuildView(data, meta, bounds, asked) =
                          ViewForRange(data, meta, RateIndex(data.rate), range)
    BY <1>1, <2>1, <2>4, <2>6, ViewOfRange
  <2> QED BY <1>3, <2>1, <2>4, <2>7
<1> QED BY <1>2, <1>3

LEMMA ReadRunsOut == IInv => ForecastRunsOut
<1> SUFFICES ASSUME IInv, NEW req \in Requests PROVE BalanceRunsOut(ReadView(req))
  BY DEF ForecastRunsOut
<1>1. CASE ReadView(req).kind # "view"
  BY <1>1 DEF BalanceRunsOut
<1>2. CASE ReadView(req).kind = "view"
  <2>1. PICK meta, range :
           /\ meta \in StoredMetadata
           /\ ThroughDate(meta) \in Int
           /\ RangeOK(range)
           /\ ReadView(req) = ViewForRange(data, meta, RateIndex(data.rate), range)
    BY <1>2, ReadShape, RequestsOK
  <2>2. DataOK(data) /\ RatesOK(RateIndex(data.rate))
    BY RatesType DEF IInv
  <2> QED BY <2>1, <2>2, ViewRunsOut
<1> QED BY <1>1, <1>2

\* Every forecast that a view shows starts at the balance, falls by the day's
\* spend and ends at zero, on the first day on which it can (_build_forecast_series).
THEOREM ForecastEndsAtZero == Spec => []ForecastRunsOut
<1> QED BY Inductive, ReadRunsOut, PTL

(***************************************************************************)
(* Sections: a stacked series, a ranking and its bars say the same of the  *)
(* same amounts.                                                           *)
(***************************************************************************)

\* Named and dated dollars and credits, in finitely many places.
AmountsOK(amounts) ==
    /\ DOMAIN amounts \in SUBSET Nat
    /\ IsFiniteSet(DOMAIN amounts)
    /\ \A i \in DOMAIN amounts : /\ amounts[i].date \in Int
                                 /\ amounts[i].spend \in Int
                                 /\ amounts[i].credits \in Int
Spends(amounts) == [i \in DOMAIN amounts |-> amounts[i].spend]
Credits(amounts) == [i \in DOMAIN amounts |-> amounts[i].credits]
NameOf(amounts) == [i \in DOMAIN amounts |-> amounts[i].name]
\* The amounts of each name, added up.
PerName(amounts, f) ==
    [name \in Names(amounts) |->
        SumOf([i \in DOMAIN amounts |-> IF NameOf(amounts)[i] = name THEN f[i] ELSE 0])]

LEMMA NamesFinite ==
    ASSUME NEW amounts, AmountsOK(amounts)
    PROVE  /\ IsFiniteSet(Names(amounts))
           /\ NameOf(amounts) \in [DOMAIN amounts -> Names(amounts)]
           /\ Spends(amounts) \in [DOMAIN amounts -> Int]
           /\ Credits(amounts) \in [DOMAIN amounts -> Int]
<1> DEFINE f == NameOf(amounts)
<1>1. Names(amounts) = {f[i] : i \in DOMAIN amounts}
  BY DEF Names, Rows, NameOf
<1>2. DOMAIN f = DOMAIN amounts /\ IsFiniteSet(DOMAIN amounts)
  BY DEF NameOf, AmountsOK
<1>3. IsFiniteSet(Names(amounts))
  <2> HIDE DEF f
  <2> QED BY <1>1, <1>2, ImageFinite
<1>4. f \in [DOMAIN amounts -> Names(amounts)]
  BY DEF NameOf, Names, Rows
<1> QED BY <1>3, <1>4 DEF Spends, Credits, AmountsOK

LEMMA PerNameType ==
    ASSUME NEW amounts, AmountsOK(amounts), NEW f \in [DOMAIN amounts -> Int]
    PROVE  /\ PerName(amounts, f) \in [Names(amounts) -> Int]
           /\ SumOf(PerName(amounts, f)) = SumOf(f)
<1>1. /\ IsFiniteSet(Names(amounts)) /\ IsFiniteSet(DOMAIN amounts)
      /\ NameOf(amounts) \in [DOMAIN amounts -> Names(amounts)]
  BY NamesFinite DEF AmountsOK
<1>2. ASSUME NEW name \in Names(amounts)
      PROVE  SumOf([i \in DOMAIN amounts |-> IF NameOf(amounts)[i] = name THEN f[i] ELSE 0]) \in Int
  <2> DEFINE g == [i \in DOMAIN amounts |-> IF NameOf(amounts)[i] = name THEN f[i] ELSE 0]
  <2>1. g \in [DOMAIN amounts -> Int]
    OBVIOUS
  <2> HIDE DEF g
  <2>2. SumOf(g) \in Int
    BY <1>1, <2>1, SumType
  <2> QED BY <2>2 DEF g
<1>3. PerName(amounts, f) \in [Names(amounts) -> Int]
  BY <1>2 DEF PerName
<1>4. SumOf(PerName(amounts, f)) = SumOf(f)
  BY <1>1, SumFibers DEF PerName
<1> QED BY <1>3, <1>4

LEMMA SpentByIs ==
    ASSUME NEW amounts, NEW name \in Names(amounts)
    PROVE  /\ SpentBy(amounts, name) = PerName(amounts, Spends(amounts))[name]
           /\ Total(amounts, LAMBDA a : IF a.name = name THEN a.credits ELSE 0)
                  = PerName(amounts, Credits(amounts))[name]
<1>1. [i \in DOMAIN amounts |-> IF amounts[i].name = name THEN amounts[i].spend ELSE 0]
      = [i \in DOMAIN amounts |-> IF NameOf(amounts)[i] = name THEN Spends(amounts)[i] ELSE 0]
  BY DEF NameOf, Spends
<1>2. [i \in DOMAIN amounts |-> IF amounts[i].name = name THEN amounts[i].credits ELSE 0]
      = [i \in DOMAIN amounts |-> IF NameOf(amounts)[i] = name THEN Credits(amounts)[i] ELSE 0]
  BY DEF NameOf, Credits
<1> QED BY <1>1, <1>2 DEF SpentBy, Total, PerName

LEMMA FirstRowIn ==
    ASSUME NEW amounts, AmountsOK(amounts), NEW name \in Names(amounts)
    PROVE  /\ FirstRow(amounts, name) \in DOMAIN amounts
           /\ amounts[FirstRow(amounts, name)].name = name
<1> DEFINE S == {i \in DOMAIN amounts : amounts[i].name = name}
<1>1. S # {}
  BY DEF Names, Rows
<1>2. S \in SUBSET Int /\ IsFiniteSet(S)
  BY FS_Subset DEF AmountsOK
<1> HIDE DEF S
<1>3. Min(S) \in S
  BY <1>1, <1>2, MinIsFirst
<1> QED BY <1>3 DEF S, FirstRow

\* Spend, then the first row: a strict total order of the names.
LEMMA BySpendSorts ==
    ASSUME NEW amounts, AmountsOK(amounts)
    PROVE  StrictOrder(Names(amounts), BySpend(amounts))
<1> DEFINE N == Names(amounts)
           spent == PerName(amounts, Spends(amounts))
           place == [n \in N |-> FirstRow(amounts, n)]
<1>1. spent \in [N -> Int]
  BY NamesFinite, PerNameType
<1>2. \A n \in N : SpentBy(amounts, n) = spent[n]
  BY SpentByIs
<1>3. place \in [N -> Int] /\ \A n, m \in N : place[n] = place[m] => n = m
  BY FirstRowIn DEF AmountsOK
<1>4. BySpend(amounts) =
        [name \in N |-> {n \in N : \/ spent[n] > spent[name]
                                   \/ spent[n] = spent[name] /\ place[n] < place[name]}]
  BY <1>2 DEF BySpend
<1> HIDE DEF N, spent, place
<1>5. StrictOrder(N, BySpend(amounts))
  BY <1>1, <1>3, <1>4 DEF StrictOrder
<1> QED BY <1>5 DEF N

\* A ranking has every name once, the dollars and credits of all the amounts,
\* and the most expensive name first.
LEMMA RankedRows ==
    ASSUME NEW amounts, AmountsOK(amounts)
    PROVE  LET ranked == Ranked(amounts)
               I == 1 .. Cardinality(Names(amounts))
           IN  /\ DOMAIN ranked = I /\ IsFiniteSet(I)
               /\ \A i \in I : ranked[i].spend \in Int
               /\ \A i, j \in I : i < j => ranked[j].spend <= ranked[i].spend
               /\ SpendOf(ranked) = SumOf(Spends(amounts))
               /\ Total(ranked, LAMBDA row : row.credits) = SumOf(Credits(amounts))
<1> DEFINE N == Names(amounts)
           I == 1 .. Cardinality(N)
           order == Arranged(BySpend(amounts))
           spent == PerName(amounts, Spends(amounts))
           used == PerName(amounts, Credits(amounts))
           ranked == Ranked(amounts)
<1>1. IsFiniteSet(N) /\ Cardinality(N) \in Nat /\ IsFiniteSet(I)
  BY NamesFinite, FS_CardinalityType, FS_Interval
<1>2. /\ order \in [I -> N]
      /\ \A x \in N : \E i \in I : order[i] = x
      /\ \A i, j \in I : i < j => order[i] \in BySpend(amounts)[order[j]]
      /\ \A i, j \in I : order[i] = order[j] => i = j
  BY <1>1, BySpendSorts, ArrangedSorts
<1>3. /\ spent \in [N -> Int] /\ used \in [N -> Int]
      /\ SumOf(spent) = SumOf(Spends(amounts)) /\ SumOf(used) = SumOf(Credits(amounts))
  BY NamesFinite, PerNameType
<1>4. \A n \in N : SpentBy(amounts, n) = spent[n]
  BY SpentByIs
<1>5. ranked = [i \in I |-> [name |-> order[i], spend |-> spent[order[i]], credits |-> used[order[i]]]]
  <2>1. DOMAIN order = I
    BY <1>2
  <2>2. \A i \in I : order[i] \in N
    BY <1>2
  <2>3. ranked = [i \in DOMAIN order |->
                    [name |-> order[i], spend |-> SpentBy(amounts, order[i]),
                     credits |-> Total(amounts, LAMBDA a : IF a.name = order[i] THEN a.credits ELSE 0)]]
    BY DEF Ranked
  <2> HIDE DEF order, spent, used, I, ranked
  <2>4. \A i \in I : /\ SpentBy(amounts, order[i]) = spent[order[i]]
                     /\ Total(amounts, LAMBDA a : IF a.name = order[i] THEN a.credits ELSE 0)
                            = used[order[i]]
    BY <2>2, SpentByIs DEF spent, used
  <2> QED BY <2>1, <2>3, <2>4
<1>6. \A i, j \in I : i < j => spent[order[j]] <= spent[order[i]]
  <2> SUFFICES ASSUME NEW i \in I, NEW j \in I, i < j
               PROVE  spent[order[j]] <= spent[order[i]]
    OBVIOUS
  <2>1. order[i] \in N /\ order[j] \in N /\ order[i] \in BySpend(amounts)[order[j]]
    BY <1>2
  <2> HIDE DEF order, spent, N
  <2>2. spent[order[i]] > spent[order[j]] \/ spent[order[i]] = spent[order[j]]
    BY <1>4, <2>1 DEF BySpend, N
  <2> QED BY <1>3, <2>1, <2>2
<1> HIDE DEF N, I, order, spent, used, ranked
<1>7. /\ SumOf([i \in I |-> spent[order[i]]]) = SumOf(spent)
      /\ SumOf([i \in I |-> used[order[i]]]) = SumOf(used)
  BY <1>1, <1>2, <1>3, SumReindex
<1>8. /\ [i \in DOMAIN ranked |-> ranked[i].spend] = [i \in I |-> spent[order[i]]]
      /\ [i \in DOMAIN ranked |-> ranked[i].credits] = [i \in I |-> used[order[i]]]
  BY <1>5
<1>9. SpendOf(ranked) = SumOf(Spends(amounts))
  BY <1>3, <1>7, <1>8 DEF SpendOf, Total
<1>10. Total(ranked, LAMBDA row : row.credits) = SumOf(Credits(amounts))
  BY <1>3, <1>7, <1>8 DEF Total
<1>11. /\ DOMAIN ranked = I /\ \A i \in I : ranked[i].spend = spent[order[i]] /\ ranked[i].spend \in Int
  BY <1>2, <1>3, <1>5
<1>12. \A i, j \in I : i < j => ranked[j].spend <= ranked[i].spend
  BY <1>6, <1>11
<1> QED BY <1>1, <1>9, <1>10, <1>11, <1>12 DEF ranked, I, N

\* Hence the bars are at most the whole width.
LEMMA BarsArePercent ==
    ASSUME NEW amounts, AmountsOK(amounts), NEW i \in DOMAIN Ranked(amounts)
    PROVE  BarWidths(Ranked(amounts))[i] \in Percent
<1> DEFINE ranked == Ranked(amounts)
           n == Cardinality(Names(amounts))
           top == ranked[1].spend
           own == ranked[i].spend
<1>1. n \in Nat
  BY NamesFinite, FS_CardinalityType
<1>2. /\ DOMAIN ranked = 1 .. n
      /\ \A j \in 1 .. n : ranked[j].spend \in Int
      /\ \A j, k \in 1 .. n : j < k => ranked[k].spend <= ranked[j].spend
  BY RankedRows
<1> SUFFICES BarWidths(ranked)[i] \in Percent
  OBVIOUS
<1> HIDE DEF ranked, n
<1>3. i \in 1 .. n /\ 1 \in 1 .. n
  BY <1>1, <1>2 DEF ranked
<1>4. own \in Int /\ top \in Int /\ own <= top
  <2>1. CASE i = 1
    BY <1>2, <1>3, <2>1
  <2>2. CASE i # 1
    BY <1>2, <1>3, <2>2
  <2> QED BY <2>1, <2>2
<1>5. BarWidths(ranked)[i] = IF top > 0 THEN Greatest(0, (100 * own) \div top) ELSE 0
  BY <1>2, <1>3 DEF BarWidths
<1> HIDE DEF own, top
<1>6. CASE top > 0
  <2> DEFINE a == 100 * own
             q == a \div top
  <2>1. a \in Int /\ a <= 100 * top
    BY <1>4
  <2> HIDE DEF a
  <2>2. q \in Int /\ top * q <= a
    BY <1>4, <1>6, <2>1, Division
  <2> HIDE DEF q
  <2>3. q <= 100
    <3> SUFFICES ASSUME 101 <= q PROVE FALSE
      BY <2>2
    <3>1. top * 101 <= top * q
      BY <1>4, <1>6, <2>2, TimesMonotone
    <3> QED BY <1>4, <1>6, <2>1, <2>2, <3>1
  <2>4. Greatest(0, q) \in Percent
    BY <2>2, <2>3 DEF Greatest, Percent
  <2> QED BY <1>5, <1>6, <2>4 DEF q, a
<1>7. CASE ~ top > 0
  BY <1>5, <1>7 DEF Percent
<1> QED BY <1>6, <1>7

\* A stacked series has a day for every amount.
InRange(amounts, range) == \A i \in DOMAIN amounts : amounts[i].date \in range.first .. range.last

\* Hence it has all the dollars: days times names, added up either way.
LEMMA SeriesIsTotal ==
    ASSUME NEW amounts, AmountsOK(amounts), NEW range, RangeOK(range), InRange(amounts, range)
    PROVE  SeriesTotal(StackedSeries(amounts, range)) = SumOf(Spends(amounts))
<1> DEFINE days == range.first .. range.last
           D == DOMAIN amounts
           spend == Spends(amounts)
           date == [i \in D |-> amounts[i].date]
           of(day) == [i \in D |-> IF date[i] = day THEN spend[i] ELSE 0]
           series == StackedSeries(amounts, range)
<1>1. IsFiniteSet(days) /\ IsFiniteSet(D) /\ date \in [D -> days] /\ spend \in [D -> Int]
  BY DaysFinite, NamesFinite DEF AmountsOK, InRange
<1>2. \A day \in days : of(day) \in [D -> Int]
  BY <1>1
<1>3. \A day \in days : series[day] = PerName(amounts, of(day))
  <2> SUFFICES ASSUME NEW day \in days PROVE series[day] = PerName(amounts, of(day))
    OBVIOUS
  <2>1. \A name \in Names(amounts) :
          [i \in D |-> IF amounts[i].date = day /\ amounts[i].name = name THEN amounts[i].spend ELSE 0]
          = [i \in D |-> IF NameOf(amounts)[i] = name THEN of(day)[i] ELSE 0]
    BY DEF NameOf, Spends
  <2>2. series[day] = [name \in Names(amounts) |->
          SumOf([i \in D |-> IF amounts[i].date = day /\ amounts[i].name = name
                               THEN amounts[i].spend ELSE 0])]
    BY DEF StackedSeries, Total
  <2> HIDE DEF of, series
  <2> QED BY <2>1, <2>2 DEF PerName
<1>4. DOMAIN series = days
  BY DEF StackedSeries
<1>5. \A day \in days : SumOf(series[day]) = SumOf(of(day))
  <2> HIDE DEF of, series
  <2> QED BY <1>2, <1>3, PerNameType
<1> HIDE DEF series
<1>6. SeriesTotal(series) = SumOf([day \in days |-> SumOf(of(day))])
  <2>1. SeriesTotal(series) = SumOf([day \in days |-> SumOf(series[day])])
    BY <1>4 DEF SeriesTotal
  <2>2. [day \in days |-> SumOf(series[day])] = [day \in days |-> SumOf(of(day))]
    BY <1>5
  <2> QED BY <2>1, <2>2
<1>7. SumOf([day \in days |-> SumOf(of(day))]) = SumOf(spend)
  <2> HIDE DEF days, spend, date, D
  <2> QED BY <1>1, SumFibers
<1> QED BY <1>6, <1>7 DEF series

LEMMA SectionOfAmounts ==
    ASSUME NEW amounts, AmountsOK(amounts), NEW range, RangeOK(range), InRange(amounts, range)
    PROVE  SectionAgrees(Section(amounts, range))
<1>1. SpendOf(Ranked(amounts)) = SeriesTotal(StackedSeries(amounts, range))
  BY RankedRows, SeriesIsTotal
<1>2. \A i \in DOMAIN Ranked(amounts) : BarWidths(Ranked(amounts))[i] \in Percent
  BY BarsArePercent
<1> QED BY <1>1, <1>2 DEF Section, SectionAgrees

(***************************************************************************)
(* The sections of a view: what each makes of its rows are such amounts.   *)
(***************************************************************************)
LEMMA ServiceAmountsOK ==
    ASSUME NEW d, DataOK(d), NEW meta, NEW rates, RatesOK(rates), NEW range
    PROVE  LET amounts == ServiceAmounts(d, meta, rates, range)
           IN  AmountsOK(amounts) /\ InRange(amounts, range)
<1> DEFINE billed == meta.mode = "billed"
           rows == IF billed THEN ConsumptionRows(d.org) ELSE d.service
           W == InWindow(rows, range)
           amounts == ServiceAmounts(d, meta, rates, range)
           price(i) == PricePerCredit(rates, meta.currency, W[i].date, W[i].service, None)
<1>1. RowsOK(IF billed THEN "org" ELSE "service", rows)
  BY ConsumptionOK, SourceNames DEF DataOK
<1>2. /\ RowsOK(IF billed THEN "org" ELSE "service", W)
      /\ \A i \in DOMAIN W : W[i].date \in range.first .. range.last
  <2> HIDE DEF rows
  <2> QED BY <1>1, WindowedRows
<1>3. amounts = [i \in DOMAIN W |->
            [date |-> W[i].date, name |-> W[i].service,
             credits |-> IF billed THEN 0 ELSE W[i].credits,
             spend |-> IF billed THEN W[i].spend ELSE W[i].credits * price(i)]]
  BY DEF ServiceAmounts
<1>4. \A i \in DOMAIN W : price(i) \in Int
  BY DEF RatesOK
<1> HIDE DEF W, price, rows, amounts
<1>5. \A i \in DOMAIN W : /\ amounts[i].date \in Int
                          /\ amounts[i].spend \in Int
                          /\ amounts[i].credits \in Int
  <2> SUFFICES ASSUME NEW i \in DOMAIN W
               PROVE  /\ amounts[i].date \in Int
                      /\ amounts[i].spend \in Int
                      /\ amounts[i].credits \in Int
    OBVIOUS
  <2>1. CASE billed
    BY <1>2, <1>3, <2>1 DEF RowsOK, RowOK
  <2>2. CASE ~ billed
    <3>1. W[i].credits \in Int /\ W[i].date \in Int
      BY <1>2, <2>2 DEF RowsOK, RowOK
    <3>2. W[i].credits * price(i) \in Int
      BY <1>4, <3>1
    <3> QED BY <1>3, <2>2, <3>1, <3>2
  <2> QED BY <2>1, <2>2
<1>6. AmountsOK(amounts)
  BY <1>2, <1>3, <1>5 DEF AmountsOK, RowsOK
<1>7. InRange(amounts, range)
  BY <1>2, <1>3 DEF InRange
<1> QED BY <1>6, <1>7 DEF amounts

LEMMA WarehouseAmountsOK ==
    ASSUME NEW d, DataOK(d), NEW meta, NEW rates, RatesOK(rates), NEW range
    PROVE  LET amounts == WarehouseAmounts(d, meta, rates, range)
           IN  AmountsOK(amounts) /\ InRange(amounts, range)
<1> DEFINE W == InWindow(d.warehouse, range)
           amounts == WarehouseAmounts(d, meta, rates, range)
<1>1. /\ RowsOK("warehouse", W)
      /\ \A i \in DOMAIN W : W[i].date \in range.first .. range.last
  BY WindowedRows, SourceNames DEF DataOK
<1>2. amounts = [i \in DOMAIN W |->
            [date |-> W[i].date, name |-> W[i].name, credits |-> W[i].credits,
             spend |-> WarehouseRowDollars(W[i], meta, rates)]]
  BY DEF WarehouseAmounts
<1>3. ASSUME NEW row, RowOK("warehouse", row)
      PROVE  WarehouseRowDollars(row, meta, rates) \in Int
  <2> DEFINE p == PricePerCredit(rates, meta.currency, row.date, "WAREHOUSE_METERING", "COMPUTE")
             q == PricePerCredit(rates, meta.currency, row.date, "CLOUD_SERVICES", None)
             over == Greatest(row.credits - row.compute, 0)
  <2>1. p \in Int /\ q \in Int
    BY DEF RatesOK
  <2>2. row.compute \in Int /\ over \in Int
    BY <1>3 DEF RowOK, Greatest
  <2>3. WarehouseRowDollars(row, meta, rates) = row.compute * p + over * q
    BY DEF WarehouseRowDollars
  <2> HIDE DEF p, q, over
  <2> QED BY <2>1, <2>2, <2>3
<1> HIDE DEF W, amounts
<1>4. \A i \in DOMAIN W : WarehouseRowDollars(W[i], meta, rates) \in Int
                          /\ W[i].date \in Int /\ W[i].credits \in Int
  BY <1>1, <1>3 DEF RowsOK, RowOK
<1>5. AmountsOK(amounts)
  BY <1>1, <1>2, <1>4 DEF AmountsOK, RowsOK
<1>6. InRange(amounts, range)
  BY <1>1, <1>2 DEF InRange
<1> QED BY <1>5, <1>6 DEF amounts

LEMMA UserAmountsOK ==
    ASSUME NEW d, DataOK(d), NEW meta, NEW rates, RatesOK(rates), NEW range
    PROVE  AmountsOK(UserAmounts(d, meta, rates, range))
<1> DEFINE W == InWindow(d.user, range)
           amounts == UserAmounts(d, meta, rates, range)
           price(i) == PricePerCredit(rates, meta.currency, W[i].date, "WAREHOUSE_METERING", "COMPUTE")
<1>1. RowsOK("user", W)
  BY WindowedRows, SourceNames DEF DataOK
<1>2. amounts = [i \in DOMAIN W |->
            [date |-> W[i].date, name |-> W[i].name, credits |-> W[i].credits,
             spend |-> W[i].credits * price(i)]]
  BY DEF UserAmounts
<1>3. \A i \in DOMAIN W : price(i) \in Int
  BY DEF RatesOK
<1> HIDE DEF W, amounts, price
<1>4. \A i \in DOMAIN W : W[i].date \in Int /\ W[i].credits \in Int /\ W[i].credits * price(i) \in Int
  BY <1>1, <1>3 DEF RowsOK, RowOK
<1>5. AmountsOK(amounts)
  BY <1>1, <1>2, <1>4 DEF AmountsOK, RowsOK
<1> QED BY <1>5 DEF amounts

LEMMA AiAmountsOK ==
    ASSUME NEW d, DataOK(d), NEW meta, NEW rates, RatesOK(rates), NEW range
    PROVE  LET amounts == AiAmounts(d, meta, rates, range)
           IN  AmountsOK(amounts) /\ InRange(amounts, range)
<1> DEFINE W == InWindow(d.ai, range)
           amounts == AiAmounts(d, meta, rates, range)
           price(i) == PricePerCredit(rates, ViewCurrency(meta), W[i].date, W[i].service, "AI_COMPUTE")
<1>1. /\ RowsOK("ai", W)
      /\ \A i \in DOMAIN W : W[i].date \in range.first .. range.last
  BY WindowedRows, SourceNames DEF DataOK
<1>2. amounts = [i \in DOMAIN W |->
            [date |-> W[i].date, name |-> W[i].name, credits |-> W[i].credits,
             spend |-> W[i].credits * price(i)]]
  BY DEF AiAmounts
<1>3. \A i \in DOMAIN W : price(i) \in Int
  BY DEF RatesOK
<1> HIDE DEF W, amounts, price
<1>4. \A i \in DOMAIN W : W[i].date \in Int /\ W[i].credits \in Int /\ W[i].credits * price(i) \in Int
  BY <1>1, <1>3 DEF RowsOK, RowOK
<1>5. AmountsOK(amounts)
  BY <1>1, <1>2, <1>4 DEF AmountsOK, RowsOK
<1>6. InRange(amounts, range)
  BY <1>1, <1>2 DEF InRange
<1> QED BY <1>5, <1>6 DEF amounts

LEMMA StorageRatesSteps ==
    ASSUME NEW rows, Len(rows) \in Nat
    PROVE  \E index : /\ index[0] = <<>>
                      /\ \A n \in 1 .. Len(rows) : index[n] = PutStorageRate(index[n - 1], rows[n])
                      /\ StorageRates(rows) = index[Len(rows)]
<1> DEFINE N == Len(rows)
           Step(f, n) == [k \in 0 .. n |-> IF k = 0 THEN <<>> ELSE PutStorageRate(f[k - 1], rows[k])]
           index == CHOOSE f : f = Step(f, N)
           G == {n \in Nat : \E f : f = Step(f, n)}
<1>1. StorageRates(rows) = index[N]
  BY DEF StorageRates
<1>2. 0 \in G
  <2> DEFINE f == [k \in 0 .. 0 |-> <<>>]
  <2>1. f = Step(f, 0)
    OBVIOUS
  <2> QED BY <2>1
<1>3. ASSUME NEW n \in Nat, n \in G PROVE n + 1 \in G
  <2>1. PICK f : f = Step(f, n)
    BY <1>3
  <2> DEFINE g == [k \in 0 .. n + 1 |-> IF k <= n THEN f[k] ELSE PutStorageRate(f[n], rows[n + 1])]
  <2>2. \A k \in 0 .. n : f[k] = IF k = 0 THEN <<>> ELSE PutStorageRate(f[k - 1], rows[k])
    BY <2>1
  <2>3. g = Step(g, n + 1)
    <3>1. \A k \in 0 .. n + 1 : g[k] = IF k = 0 THEN <<>> ELSE PutStorageRate(g[k - 1], rows[k])
      BY <2>2
    <3> QED BY <3>1
  <2> HIDE DEF g, Step
  <2> QED BY <2>3
<1>4. N \in G
  <2> HIDE DEF G, N
  <2>1. Nat \subseteq G
    BY <1>2, <1>3, NatSetInduction
  <2> QED BY <2>1 DEF N
<1>5. index = Step(index, N)
  <2>1. \E f : f = Step(f, N)
    BY <1>4
  <2> HIDE DEF Step
  <2> QED BY <2>1
<1> HIDE DEF index
<1>6. index[0] = <<>> /\ \A n \in 1 .. N : index[n] = PutStorageRate(index[n - 1], rows[n])
  BY <1>5
<1> QED BY <1>1, <1>6

StorageRatesOK(index) == \A key \in DOMAIN index : index[key].rate \in Int

LEMMA StorageRatesType ==
    ASSUME NEW rows \in Seq(Row["rate"])
    PROVE  StorageRatesOK(StorageRates(rows))
<1>1. Len(rows) \in Nat /\ DOMAIN rows = 1 .. Len(rows)
  OBVIOUS
<1>2. \A i \in 1 .. Len(rows) : rows[i].rate \in Int
  BY RowAssumption, SourceNames DEF RowOK
<1>3. PICK index : /\ index[0] = <<>>
                   /\ \A n \in 1 .. Len(rows) : index[n] = PutStorageRate(index[n - 1], rows[n])
                   /\ StorageRates(rows) = index[Len(rows)]
  BY <1>1, StorageRatesSteps
<1> DEFINE G == {n \in Nat : n <= Len(rows) => StorageRatesOK(index[n])}
<1>4. 0 \in G
  <2>1. DOMAIN index[0] = {}
    BY <1>3
  <2> QED BY <2>1 DEF StorageRatesOK
<1>5. ASSUME NEW n \in Nat, n \in G PROVE n + 1 \in G
  <2> SUFFICES ASSUME n + 1 <= Len(rows) PROVE StorageRatesOK(index[n + 1])
    OBVIOUS
  <2> DEFINE old == index[n]
             row == rows[n + 1]
             entry == [rate |-> row.rate, currency |-> row.currency]
             best == MaxRateEntry(old, row.date, entry)
  <2>1. StorageRatesOK(old)
    BY <1>1, <1>5
  <2>2. index[n + 1] = PutStorageRate(old, row) /\ row.rate \in Int
    BY <1>1, <1>2, <1>3
  <2> HIDE DEF old, row
  <2>3. best.rate \in Int
    BY <2>1, <2>2 DEF MaxRateEntry, StorageRatesOK
  <2>4. index[n + 1] = old \/ index[n + 1] = Put(old, row.date, best)
    BY <2>2 DEF PutStorageRate
  <2> HIDE DEF best
  <2>5. StorageRatesOK(Put(old, row.date, best))
    BY <2>1, <2>3 DEF Put, StorageRatesOK
  <2> QED BY <2>1, <2>4, <2>5
<1>6. Nat \subseteq G
  <2> HIDE DEF G
  <2> QED BY <1>4, <1>5, NatSetInduction
<1>7. Len(rows) \in G
  BY <1>1, <1>6
<1> QED BY <1>1, <1>3, <1>7

LEMMA StorageAmountsOK ==
    ASSUME NEW d, DataOK(d), NEW meta, NEW range
    PROVE  LET amounts == StorageAmounts(d, meta, range)
           IN  AmountsOK(amounts) /\ InRange(amounts, range) /\ Names(amounts) \subseteq Int
<1> DEFINE W == InWindow(d.storage, range)
           amounts == StorageAmounts(d, meta, range)
           index == StorageRates(d.rate)
           price(i) == StoragePriceFor(index, meta.currency, W[i].date)
<1>1. /\ RowsOK("storage", W)
      /\ \A i \in DOMAIN W : W[i].date \in range.first .. range.last
  BY WindowedRows, SourceNames DEF DataOK
<1>2. amounts = [i \in DOMAIN W |->
            [date |-> W[i].date, name |-> W[i].name, credits |-> 0,
             spend |-> W[i].bytes * price(i)]]
  BY DEF StorageAmounts
<1>3. StorageRatesOK(index)
  BY StorageRatesType DEF DataOK
<1> HIDE DEF W, amounts, index
<1>4. \A i \in DOMAIN W : price(i) \in Int
  BY <1>3, ValueAssumption DEF StorageRatesOK, StoragePriceFor
<1> HIDE DEF price
<1>5. \A i \in DOMAIN W : W[i].date \in Int /\ W[i].bytes * price(i) \in Int /\ W[i].name \in Int
  BY <1>1, <1>4 DEF RowsOK, RowOK
<1>6. AmountsOK(amounts)
  BY <1>1, <1>2, <1>5 DEF AmountsOK, RowsOK
<1>7. InRange(amounts, range)
  BY <1>1, <1>2 DEF InRange
<1>8. Names(amounts) \subseteq Int
  BY <1>2, <1>5 DEF Names, Rows
<1> QED BY <1>6, <1>7, <1>8 DEF amounts

\* _rank_storage_rows lists every database once, so their period is the section's.
LEMMA DatabasesAddUp ==
    ASSUME NEW d, DataOK(d), NEW meta, NEW range
    PROVE  Total(Databases(d, meta, range), LAMBDA row : row.period) =
           SumOf(Spends(StorageAmounts(d, meta, range)))
<1> DEFINE amounts == StorageAmounts(d, meta, range)
           N == Names(amounts)
           I == 1 .. Cardinality(N)
           order == Arranged(ByPeriodSpend(amounts))
           spent == PerName(amounts, Spends(amounts))
           row(i) == StorageRow(order[i], InWindow(d.storage, range), StorageRates(d.rate), meta,
                                SpentBy(amounts, order[i]))
           bases == Databases(d, meta, range)
<1>1. AmountsOK(amounts) /\ N \subseteq Int
  BY StorageAmountsOK
<1>2. bases = [i \in DOMAIN order |-> row(i)]
  BY DEF Databases
<1>3. \A i \in DOMAIN order : row(i).period = SpentBy(amounts, order[i])
  BY DEF StorageRow
<1> HIDE DEF amounts, row, bases
<1>4. IsFiniteSet(N) /\ Cardinality(N) \in Nat /\ IsFiniteSet(I)
  BY <1>1, NamesFinite, FS_CardinalityType, FS_Interval
<1>5. spent \in [N -> Int] /\ SumOf(spent) = SumOf(Spends(amounts))
  BY <1>1, NamesFinite, PerNameType
<1>6. \A n \in N : SpentBy(amounts, n) = spent[n]
  BY SpentByIs
<1>7. StrictOrder(N, ByPeriodSpend(amounts))
  <2>1. ByPeriodSpend(amounts) =
          [name \in N |-> {n \in N : spent[n] > spent[name] \/ (spent[n] = spent[name] /\ n < name)}]
    BY <1>6 DEF ByPeriodSpend
  <2>2. \A n \in N : n \in Int /\ spent[n] \in Int
    BY <1>1, <1>5
  <2> DEFINE ahead == ByPeriodSpend(amounts)
  <2> SUFFICES StrictOrder(N, ahead)
    OBVIOUS
  <2> HIDE DEF N, spent
  <2>3. ahead \in [N -> SUBSET N]
    BY <2>1
  <2>4. \A n, m \in N : n \in ahead[m] <=> spent[n] > spent[m] \/ (spent[n] = spent[m] /\ n < m)
    BY <2>1
  <2> HIDE DEF ahead
  <2>5. \A n \in N : n \notin ahead[n]
    BY <2>2, <2>4
  <2>6. \A n, m \in N : n = m \/ n \in ahead[m] \/ m \in ahead[n]
    BY <2>2, <2>4
  <2>7. \A n, m, k \in N : n \in ahead[m] /\ k \in ahead[n] => k \in ahead[m]
    BY <2>2, <2>4
  <2>8. \A n, m \in N : n \in ahead[m] => ahead[n] \subseteq ahead[m]
    BY <2>3, <2>7
  <2> QED BY <2>3, <2>5, <2>6, <2>8 DEF StrictOrder
<1> HIDE DEF N, spent
<1>8. /\ order \in [I -> N]
      /\ \A x \in N : \E i \in I : order[i] = x
      /\ \A i, j \in I : order[i] = order[j] => i = j
  BY <1>4, <1>7, ArrangedSorts
<1> HIDE DEF order, I
<1>9. SumOf([i \in I |-> spent[order[i]]]) = SumOf(spent)
  BY <1>4, <1>5, <1>8, SumReindex
<1>10. DOMAIN bases = I /\ \A i \in I : bases[i].period = spent[order[i]]
  BY <1>2, <1>3, <1>6, <1>8
<1>11. [i \in DOMAIN bases |-> bases[i].period] = [i \in I |-> spent[order[i]]]
  BY <1>10
<1> QED BY <1>5, <1>9, <1>11 DEF Total, bases, amounts

\* The KPI adds up days, the ranking names: the same rows twice.
LEMMA ServicesAddUp ==
    ASSUME NEW d, DataOK(d), NEW meta, NEW rates, RatesOK(rates), NEW range, RangeOK(range)
    PROVE  DailySum(DailyTotals(d, meta, rates, range)) =
           SumOf(Spends(ServiceAmounts(d, meta, rates, range)))
<1> DEFINE rows == ServiceRows(d, meta)
           D == DOMAIN rows
           K == Places(rows, range)
           days == range.first .. range.last
           amounts == ServiceAmounts(d, meta, rates, range)
           spend == Spends(amounts)
           date == [i \in K |-> rows[i].date]
           of(day) == DayDollars(d, meta, rates, day)
           billed == meta.mode = "billed"
<1>1. IsFiniteSet(D) /\ \A day : of(day) \in [D -> Int]
  BY DayDollarsType
<1>2. K \in SUBSET D /\ date \in [K -> days] /\ \A i \in D \ K : rows[i].date \notin days
  BY DEF Places
<1>3. IsFiniteSet(K) /\ IsFiniteSet(days)
  BY <1>1, <1>2, FS_Subset, DaysFinite
<1>4. RowsOK(IF billed THEN "org" ELSE "service", rows)
  BY ConsumptionOK, SourceNames DEF DataOK, ServiceRows
<1>5. /\ DOMAIN InWindow(rows, range) = K
      /\ \A i \in K : InWindow(rows, range)[i] = rows[i]
  <2> DEFINE s == IF billed THEN "org" ELSE "service"
  <2>1. RowsOK(s, rows)
    BY <1>4
  <2> HIDE DEF rows, s
  <2> QED BY <2>1, WindowedRows
<1>6. DOMAIN amounts = K
      /\ \A i \in K : amounts[i].spend =
            IF billed THEN rows[i].spend
            ELSE rows[i].credits * PricePerCredit(rates, meta.currency, rows[i].date,
                                                  rows[i].service, None)
  <2>1. amounts = [i \in DOMAIN InWindow(rows, range) |->
            [date |-> InWindow(rows, range)[i].date, name |-> InWindow(rows, range)[i].service,
             credits |-> IF billed THEN 0 ELSE InWindow(rows, range)[i].credits,
             spend |-> IF billed THEN InWindow(rows, range)[i].spend
                       ELSE InWindow(rows, range)[i].credits
                              * PricePerCredit(rates, meta.currency, InWindow(rows, range)[i].date,
                                               InWindow(rows, range)[i].service, None)]]
    BY DEF ServiceAmounts, ServiceRows
  <2> HIDE DEF rows, K, amounts, billed
  <2> QED BY <1>5, <2>1
<1>7. spend \in [K -> Int] /\ \A i \in K : spend[i] = amounts[i].spend
  <2>1. AmountsOK(amounts)
    BY ServiceAmountsOK
  <2> HIDE DEF amounts, K
  <2> QED BY <1>6, <2>1 DEF AmountsOK, Spends
<1>8. \A day, i : i \in D => of(day)[i] =
            IF rows[i].date # day THEN 0
            ELSE IF billed THEN rows[i].spend
            ELSE rows[i].credits * PricePerCredit(rates, meta.currency, day, rows[i].service, None)
  BY DEF DayDollars, ServiceRows
<1> HIDE DEF rows, D, K, days, amounts, spend, of, billed
<1>9. ASSUME NEW day \in days
      PROVE  SumOf(of(day)) = SumOf([i \in K |-> IF date[i] = day THEN spend[i] ELSE 0])
  <2>1. \A i \in D \ K : of(day)[i] = 0
    BY <1>2, <1>8
  <2>2. SumOf(of(day)) = SumOf(Restrict(of(day), K))
    BY <1>1, <1>2, <2>1, SumSubset
  <2>3. Restrict(of(day), K) = [i \in K |-> of(day)[i]]
    BY DEF Restrict
  <2>4. \A i \in K : of(day)[i] = IF date[i] = day THEN spend[i] ELSE 0
    BY <1>2, <1>6, <1>7, <1>8
  <2> QED BY <2>2, <2>3, <2>4
<1> HIDE DEF date
<1>10. SumOf([day \in days |-> SumOf([i \in K |-> IF date[i] = day THEN spend[i] ELSE 0])]) = SumOf(spend)
  BY <1>2, <1>3, <1>7, SumFibers
<1>11. [day \in days |-> SumOf(of(day))]
       = [day \in days |-> SumOf([i \in K |-> IF date[i] = day THEN spend[i] ELSE 0])]
  BY <1>9
<1>12. DailySum(DailyTotals(d, meta, rates, range)) = SumOf([day \in days |-> SumOf(of(day))])
  BY DailyIsSum DEF DailySum, days, of
<1> QED BY <1>10, <1>11, <1>12 DEF spend, amounts

\* What is attributed is never negative, so what is idle is at most everything.
LEMMA IdleIsPercent ==
    ASSUME NEW rows, RowsOK("warehouse", rows), NEW name
    PROVE  IdlePct(rows, name) \in Percent \cup {None}
<1> DEFINE own == RestrictValues(rows, LAMBDA row : row.name = name)
           c == [i \in DOMAIN own |-> own[i].compute]
           a == [i \in DOMAIN own |-> own[i].attributed]
           compute == SumOf(c)
           used == SumOf(a)
           idle == (100 * Greatest(compute - used, 0)) \div compute
<1>1. RowsOK("warehouse", own)
  <2> DEFINE K == {i \in DOMAIN rows : rows[i].name = name}
  <2>1. own = Restrict(rows, K)
    BY DEF RestrictValues
  <2> QED BY <2>1, RestrictedRows
<1>2. IdlePct(rows, name) =
        IF compute = 0 \/ \E row \in Rows(own) : row.attributed = None THEN None ELSE idle
  BY DEF IdlePct, Total
<1> HIDE DEF own
<1>3. compute \in Int /\ compute >= 0
  <2>1. c \in [DOMAIN own -> Int] /\ IsFiniteSet(DOMAIN own) /\ \A i \in DOMAIN own : c[i] >= 0
    BY <1>1 DEF RowsOK, RowOK
  <2> HIDE DEF c
  <2> QED BY <2>1, SumType, SumNat
<1>4. ASSUME \A row \in Rows(own) : row.attributed # None
      PROVE  used \in Int /\ used >= 0
  <2>1. a \in [DOMAIN own -> Int] /\ IsFiniteSet(DOMAIN own) /\ \A i \in DOMAIN own : a[i] >= 0
    BY <1>1, <1>4 DEF RowsOK, RowOK, Rows
  <2> HIDE DEF a
  <2> QED BY <2>1, SumType, SumNat
<1> HIDE DEF compute, used
<1>5. ASSUME compute # 0, used \in Int, used >= 0
      PROVE  idle \in Percent
  <2> DEFINE share == Greatest(compute - used, 0)
             whole == 100 * share
  <2>1. share \in Int /\ 0 <= share /\ share <= compute
    BY <1>3, <1>5 DEF Greatest
  <2>2. whole \in Int /\ 0 <= whole /\ whole <= 100 * compute
    BY <1>3, <2>1
  <2> HIDE DEF whole, share
  <2>3. idle = whole \div compute
    BY DEF whole, share
  <2> HIDE DEF idle
  <2>4. idle \in Int /\ compute * idle <= whole /\ whole < compute * idle + compute
    BY <1>3, <1>5, <2>2, <2>3, Division
  <2>5. idle <= 100
    <3> SUFFICES ASSUME 101 <= idle PROVE FALSE
      BY <2>4
    <3>1. compute * 101 <= compute * idle
      BY <1>3, <2>4, TimesMonotone
    <3> QED BY <1>3, <1>5, <2>2, <2>4, <3>1
  <2>6. idle >= 0
    <3> SUFFICES ASSUME idle <= -1 PROVE FALSE
      BY <2>4
    <3>1. compute * idle <= compute * (-1)
      BY <1>3, <2>4, TimesMonotone
    <3> QED BY <1>3, <2>2, <2>4, <3>1
  <2> QED BY <2>4, <2>5, <2>6 DEF Percent
<1> HIDE DEF idle
<1> QED BY <1>2, <1>4, <1>5

LEMMA ViewAddsUp ==
    ASSUME NEW d, DataOK(d), NEW meta, NEW rates, RatesOK(rates), NEW range, RangeOK(range)
    PROVE  ViewAgrees(ViewForRange(d, meta, rates, range))
<1> DEFINE view == ViewForRange(d, meta, rates, range)
           services == ServiceAmounts(d, meta, rates, range)
           warehouses == WarehouseAmounts(d, meta, rates, range)
           users == UserAmounts(d, meta, rates, range)
           storage == StorageAmounts(d, meta, range)
           W == InWindow(d.warehouse, range)
<1>1. /\ view.total = DailySum(DailyTotals(d, meta, rates, range))
      /\ view.services = Section(services, range)
      /\ view.warehouses = Section(warehouses, range)
      /\ view.users = Ranked(users)
      /\ view.storage = Section(storage, range)
      /\ view.databases = Databases(d, meta, range)
      /\ view.idle = [name \in {row.name : row \in Rows(W)} |-> IdlePct(W, name)]
  BY DEF ViewForRange
<1>2. /\ AmountsOK(services) /\ InRange(services, range)
      /\ AmountsOK(warehouses) /\ InRange(warehouses, range)
      /\ AmountsOK(users)
      /\ AmountsOK(storage) /\ InRange(storage, range)
  BY ServiceAmountsOK, WarehouseAmountsOK, UserAmountsOK, StorageAmountsOK
<1>3. \A name : IdlePct(W, name) \in Percent \cup {None}
  <2>1. RowsOK("warehouse", W)
    BY WindowedRows, SourceNames DEF DataOK
  <2> HIDE DEF W
  <2> QED BY <2>1, IdleIsPercent
<1>4. view.total = SumOf(Spends(services))
  <2> HIDE DEF view, services
  <2>1. DailySum(DailyTotals(d, meta, rates, range)) = SumOf(Spends(services))
    BY ServicesAddUp DEF services
  <2> QED BY <1>1, <2>1
<1>5. Total(Databases(d, meta, range), LAMBDA row : row.period) = SumOf(Spends(storage))
  BY DatabasesAddUp
<1> SUFFICES ViewAgrees(view)
  OBVIOUS
<1> HIDE DEF view, services, warehouses, users, storage, W
<1>6. \A amounts : Section(amounts, range).ranked = Ranked(amounts)
  BY DEF Section
<1>7. view.total = SpendOf(view.services.ranked)
  BY <1>1, <1>2, <1>4, <1>6, RankedRows
<1>8. SectionAgrees(view.services) /\ SectionAgrees(view.warehouses) /\ SectionAgrees(view.storage)
  BY <1>1, <1>2, SectionOfAmounts
<1>9. SpendOf(view.storage.ranked) = Total(view.databases, LAMBDA row : row.period)
  <2>1. SpendOf(view.storage.ranked) = SumOf(Spends(storage))
    BY <1>1, <1>2, <1>6, RankedRows
  <2>2. Total(view.databases, LAMBDA row : row.period) = SumOf(Spends(storage))
    BY <1>1, <1>5
  <2> QED BY <2>1, <2>2
<1>10. \A i \in DOMAIN view.users : BarWidths(view.users)[i] \in Percent
  BY <1>1, <1>2, BarsArePercent
<1>11. \A name \in DOMAIN view.idle : view.idle[name] \in Percent \cup {None}
  BY <1>1, <1>3
<1> QED BY <1>7, <1>8, <1>9, <1>10, <1>11 DEF ViewAgrees, SectionAgrees

LEMMA DeferredAddsUp ==
    ASSUME IInv, NEW req, RequestOK(req) PROVE AiAgrees(ReadSource(req))
<1> SUFFICES ASSUME ReadSource(req).kind = "view"
             PROVE  SectionAgrees(ReadSource(req).section)
  BY DEF AiAgrees
<1> DEFINE meta == CurrentMetadata
           rates == RateIndex(data.rate)
           through == IF ThroughDate(meta) = None THEN bounds.last ELSE ThroughDate(meta)
           range == ResolveRange(req, through, bounds)
           amounts == AiAmounts(data, meta, rates, range)
<1>1. bounds.first \in Int /\ bounds.last \in Int /\ through \in Int
  BY CurrentType, ThroughType DEF IInv, BoundsOK
<1>2. ReadSource(req) = IF range.kind # "range" THEN range
                        ELSE [kind |-> "view", first |-> range.first, last |-> range.last,
                              section |-> Section(amounts, range)]
  BY Zenon DEF ReadSource, AiDetailView
<1>3. range.kind \in {"invalid", "conflict", "range"}
  BY DEF ResolveRange
<1>4. DataOK(data) /\ RatesOK(rates)
  BY RatesType DEF IInv
<1> HIDE DEF meta, rates, through, amounts
<1>5. range.kind = "range" => RangeOK(range)
  BY <1>1, ResolvedRange
<1> HIDE DEF range
<1>6. range.kind = "range" /\ ReadSource(req).section = Section(amounts, range)
  BY <1>2, <1>3
<1>7. AmountsOK(amounts) /\ InRange(amounts, range)
  BY <1>4, AiAmountsOK DEF amounts
<1> QED BY <1>5, <1>6, <1>7, SectionOfAmounts

\* The half-open window of the summary is the closed window of the view, since
\* the summary's current date is the day after the through date.
LEMMA SummaryAddsUp == IInv => SummaryAgrees(ReadView(Relative(SummaryWindow)))
<1> DEFINE req == Relative(SummaryWindow)
           view == ReadView(req)
<1> SUFFICES ASSUME IInv, status = "completed", stored.mode = "estimated", view.kind = "view"
             PROVE  summary.credits = Total(view.services.ranked, LAMBDA row : row.credits)
  BY DEF SummaryAgrees
<1> DEFINE rates == RateIndex(data.rate)
           through == ThroughDate(stored)
<1>1. RequestOK(req) /\ req.window = SummaryWindow /\ req.first = None
  BY ValueAssumption DEF Relative, RequestOK
<1>2. SettledFrom(data, stored, summary) /\ DataOK(data)
  BY DEF IInv
<1>3. stored \in StoredMetadata
  BY <1>2, MetadataType DEF SettledFrom
<1>4. CurrentMetadata = stored
  BY <1>3, NoneAssumption DEF CurrentMetadata
<1> HIDE DEF req
<1>5. PICK range : /\ through \in Int
                   /\ RangeOK(range)
                   /\ view = ViewForRange(data, stored, rates, range)
                   /\ range.first = RequestedRange(req, through).first
                   /\ range.last = RequestedRange(req, through).last
  BY <1>1, <1>4, ReadShape
<1> DEFINE W == InWindow(data.service, range)
           amounts == ServiceAmounts(data, stored, rates, range)
           current == SummaryDate(stored)
<1>6. range.first = through - (SummaryWindow - 1) /\ range.last = through
  <2>1. SummaryWindow # None
    BY NoneAssumption, ValueAssumption
  <2> QED BY <1>1, <1>5, <2>1 DEF RequestedRange, WindowStart
<1>7. current = 1 + through
  BY <1>5, NoneAssumption DEF ThroughDate, SummaryDate
<1>8. summary.credits = Total(CompleteWindow(data.service, current, SummaryWindow), LAMBDA row : row.credits)
  BY <1>2 DEF SettledFrom, Summary
<1>9. RowsOK("service", data.service)
  BY <1>2, SourceNames DEF DataOK
<1> HIDE DEF current, through
<1>10. CompleteWindow(data.service, current, SummaryWindow) = W
  <2> DEFINE K == {i \in DOMAIN data.service : /\ current - SummaryWindow <= data.service[i].date
                                               /\ data.service[i].date < current}
             L == {i \in DOMAIN data.service : data.service[i].date \in range.first .. range.last}
  <2>1. \A i \in DOMAIN data.service : data.service[i].date \in Int
    BY <1>9 DEF RowsOK, RowOK
  <2>2. K = L
    BY <1>5, <1>6, <1>7, <2>1, ValueAssumption
  <2>3. CompleteWindow(data.service, current, SummaryWindow) = Restrict(data.service, K)
    BY DEF CompleteWindow, RestrictValues
  <2>4. W = Restrict(data.service, L)
    BY DEF InWindow, RestrictValues
  <2> QED BY <2>2, <2>3, <2>4
<1>11. amounts = [i \in DOMAIN W |->
            [date |-> W[i].date, name |-> W[i].service, credits |-> W[i].credits,
             spend |-> W[i].credits * PricePerCredit(rates, stored.currency,
                                                     W[i].date, W[i].service, None)]]
  BY DEF ServiceAmounts
<1>12. view.services.ranked = Ranked(amounts)
  BY <1>5 DEF ViewForRange, Section
<1>13. AmountsOK(amounts)
  <2>1. RatesOK(rates)
    BY <1>2, RatesType
  <2> QED BY <1>2, <2>1, ServiceAmountsOK
<1> HIDE DEF view, amounts, W
<1>14. Total(view.services.ranked, LAMBDA row : row.credits) = SumOf(Credits(amounts))
  BY <1>12, <1>13, RankedRows
<1>15. Credits(amounts) = [i \in DOMAIN W |-> W[i].credits]
  BY <1>11 DEF Credits
<1> QED BY <1>8, <1>10, <1>14, <1>15 DEF Total

LEMMA ViewsAddUp == IInv => SectionsAgree
<1> SUFFICES ASSUME IInv PROVE SectionsAgree
  OBVIOUS
<1>1. ASSUME NEW req \in Requests PROVE ViewAgrees(ReadView(req))
  <2>1. CASE ReadView(req).kind # "view"
    BY <2>1 DEF ViewAgrees
  <2>2. CASE ReadView(req).kind = "view"
    <3>1. PICK meta, range :
             /\ meta \in StoredMetadata
             /\ RangeOK(range)
             /\ ReadView(req) = ViewForRange(data, meta, RateIndex(data.rate), range)
      BY <2>2, ReadShape, RequestsOK
    <3>2. DataOK(data) /\ RatesOK(RateIndex(data.rate))
      BY RatesType DEF IInv
    <3> QED BY <3>1, <3>2, ViewAddsUp
  <2> QED BY <2>1, <2>2
<1>2. ASSUME NEW req \in Requests PROVE AiAgrees(ReadSource(req))
  BY DeferredAddsUp, RequestsOK
<1> QED BY <1>1, <1>2, SummaryAddsUp DEF SectionsAgree

\* In every reachable state, of every request: the KPI, the stacked series, the
\* ranking, the databases and the stored summary agree, bars and idle shares are
\* shares (build_dashboard_view, build_ai_detail_view, build_dashboard_summary).
THEOREM EveryTotalAgrees == Spec => []SectionsAgree
<1> QED BY Inductive, ViewsAddUp, PTL

(***************************************************************************)
(* Settling.  The bounded users keep every total that a view takes of them,*)
(* and the settled view is computed from the same metadata, range and      *)
(* prices.                                                                 *)
(***************************************************************************)
LEMMA SumSplit ==
    ASSUME NEW S, IsFiniteSet(S), NEW f \in [S -> Int], NEW D, NEW E,
           S = D \cup E, D \cap E = {}
    PROVE  /\ SumOf(Restrict(f, D)) \in Int /\ SumOf(Restrict(f, E)) \in Int
           /\ SumOf(f) = SumOf(Restrict(f, D)) + SumOf(Restrict(f, E))
<1> DEFINE g == [x \in S |-> IF x \in D THEN f[x] ELSE 0]
           h == [x \in S |-> IF x \in E THEN f[x] ELSE 0]
<1>1. g \in [S -> Int] /\ h \in [S -> Int] /\ D \in SUBSET S /\ E \in SUBSET S
  OBVIOUS
<1>2. f = [x \in S |-> g[x] + h[x]]
  OBVIOUS
<1>3. \A x \in S \ D : g[x] = 0
  OBVIOUS
<1>4. \A x \in S \ E : h[x] = 0
  OBVIOUS
<1>5. Restrict(g, D) = Restrict(f, D) /\ Restrict(h, E) = Restrict(f, E)
  BY <1>1 DEF Restrict
<1>6. IsFiniteSet(D) /\ IsFiniteSet(E)
  BY <1>1, FS_Subset
<1> HIDE DEF g, h
<1>7. SumOf(g) = SumOf(Restrict(g, D)) /\ SumOf(h) = SumOf(Restrict(h, E))
  BY <1>1, <1>3, <1>4, SumSubset
<1>8. SumOf(f) = SumOf(g) + SumOf(h)
  BY <1>1, <1>2, SumPlus
<1>9. SumOf(Restrict(f, D)) \in Int /\ SumOf(Restrict(f, E)) \in Int
  BY <1>1, <1>6, RestrictSumType
<1> QED BY <1>5, <1>7, <1>8, <1>9

LEMMA SumScale ==
    ASSUME NEW S, IsFiniteSet(S), NEW f \in [S -> Int], NEW c \in Int
    PROVE  SumOf([x \in S |-> f[x] * c]) = SumOf(f) * c
<1> DEFINE h == [x \in S |-> f[x] * c]
           G == {T \in SUBSET S : SumOf(Restrict(h, T)) = SumOf(Restrict(f, T)) * c}
<1>1. h \in [S -> Int] /\ \A x \in S : h[x] = f[x] * c
  OBVIOUS
<1> HIDE DEF h
<1>2. {} \in G
  BY <1>1, RestrictNone
<1>3. ASSUME NEW T \in SUBSET S, NEW x \in S \ T, T \in G
      PROVE  T \cup {x} \in G
  <2>0. IsFiniteSet(T)
    BY FS_Subset
  <2>1. SumOf(Restrict(h, T \cup {x})) = h[x] + SumOf(Restrict(h, T))
    BY <1>1, <2>0, SumAdd
  <2>2. SumOf(Restrict(f, T \cup {x})) = f[x] + SumOf(Restrict(f, T))
    BY <2>0, SumAdd
  <2>3. SumOf(Restrict(f, T)) \in Int /\ f[x] \in Int /\ h[x] = f[x] * c
    BY <1>1, <2>0, RestrictSumType
  <2>4. SumOf(Restrict(h, T)) = SumOf(Restrict(f, T)) * c
    BY <1>3
  <2>5. (f[x] + SumOf(Restrict(f, T))) * c = f[x] * c + SumOf(Restrict(f, T)) * c
    BY <2>3
  <2>6. T \cup {x} \in SUBSET S
    OBVIOUS
  <2> QED BY <2>1, <2>2, <2>3, <2>4, <2>5, <2>6
<1>4. S \in G
  <2> HIDE DEF G
  <2> QED BY <1>2, <1>3, FiniteSetInduction
<1>5. SumOf(h) = SumOf(f) * c
  BY <1>1, <1>4, RestrictAll
<1> QED BY <1>5 DEF h

\* The users below the top, their dates and warehouses, and what is folded.
RestOf(rows) == RestrictValues(rows, LAMBDA row : row.name \notin TopUserNames(rows))
PlacesOf(rest) == {<<row.date, row.warehouse>> : row \in Rows(rest)}
OtherCredits(rest, place) ==
    SumOf([i \in DOMAIN rest |->
             IF <<rest[i].date, rest[i].warehouse>> = place THEN rest[i].credits ELSE 0])

\* bound_user_compute_rows: the rows of the top users where they were, then one
\* row for each date and warehouse of the others.
LEMMA BoundedShape ==
    ASSUME NEW rows \in Seq(Row["user"])
    PROVE  LET top   == TopUserNames(rows)
               K     == {i \in DOMAIN rows : rows[i].name \in top}
               rest  == RestOf(rows)
               P     == PlacesOf(rest)
               B     == BoundUserRows(rows)
           IN  /\ RowsOK("user", rest) /\ DOMAIN rest = DOMAIN rows \ K
               /\ \A i \in DOMAIN rest : rest[i] = rows[i]
               /\ IsFiniteSet(P) /\ IsFiniteSet(K)
               /\ \E J, order : /\ IsFiniteSet(J) /\ J \cap K = {} /\ DOMAIN B = K \cup J
                                /\ order \in [J -> P]
                                /\ \A p \in P : \E j \in J : order[j] = p
                                /\ \A i, j \in J : order[i] = order[j] => i = j
                                /\ \A i \in K : B[i] = rows[i]
                                /\ \A j \in J : /\ B[j].date = order[j][1]
                                                /\ B[j].credits = OtherCredits(rest, order[j])
<1> DEFINE top    == TopUserNames(rows)
           K      == {i \in DOMAIN rows : rows[i].name \in top}
           R      == DOMAIN rows \ K
           kept   == RestrictValues(rows, LAMBDA row : row.name \in top)
           rest   == RestOf(rows)
           P      == PlacesOf(rest)
           sorted == Arranged(ByDateAndWarehouse(P))
           n      == Cardinality(P)
           J      == Len(rows) + 1 .. Len(rows) + n
           order  == [j \in J |-> sorted[j - Len(rows)]]
           Other(place) ==
             [date |-> place[1], warehouse |-> place[2], name |-> OtherUser,
              credits |-> OtherCredits(rest, place)]
           B      == BoundUserRows(rows)
<1>1. RowsOK("user", rows)
  BY UserRowsOK
<1>2. kept = Restrict(rows, K) /\ rest = Restrict(rows, R)
  <2>1. R = {i \in DOMAIN rows : rows[i].name \notin top}
    OBVIOUS
  <2>2. rest = Restrict(rows, {i \in DOMAIN rows : rows[i].name \notin top})
    BY DEF RestOf, RestrictValues
  <2> QED BY <2>1, <2>2 DEF RestrictValues
<1>3. DOMAIN kept = K /\ K \in SUBSET DOMAIN rows /\ R \in SUBSET DOMAIN rows
  BY <1>2 DEF Restrict
<1>4. RowsOK("user", rest) /\ DOMAIN rest = R
  <2> HIDE DEF rest, R
  <2> QED BY <1>1, <1>2, <1>3, RestrictedRows
<1>5. \A i \in R : rest[i] = rows[i]
  <2> HIDE DEF rest, R
  <2> QED BY <1>2 DEF Restrict
<1>6. P \subseteq Int \X Int
  <2> HIDE DEF rest
  <2> QED BY <1>4 DEF PlacesOf, Rows, RowsOK, RowOK
<1>7. IsFiniteSet(P) /\ IsFiniteSet(K)
  <2> DEFINE f == [i \in R |-> <<rest[i].date, rest[i].warehouse>>]
  <2>1. P = {f[i] : i \in R}
    <3> HIDE DEF rest, R
    <3> QED BY <1>4 DEF Rows, PlacesOf
  <2>2. IsFiniteSet(R) /\ DOMAIN f = R
    <3> HIDE DEF rest, R
    <3> QED BY <1>4 DEF RowsOK
  <2>3. IsFiniteSet(K)
    <3> HIDE DEF K
    <3> QED BY <1>1, <1>3, FS_Subset DEF RowsOK
  <2> HIDE DEF f, P, R
  <2> QED BY <2>1, <2>2, <2>3, ImageFinite
<1>8. StrictOrder(P, ByDateAndWarehouse(P))
  <2> HIDE DEF P
  <2> QED BY <1>6 DEF StrictOrder, ByDateAndWarehouse
<1>9. n \in Nat
  <2> HIDE DEF P
  <2> QED BY <1>7, FS_CardinalityType
<1>10. /\ sorted \in [1 .. n -> P]
       /\ \A p \in P : \E i \in 1 .. n : sorted[i] = p
       /\ \A i, j \in 1 .. n : sorted[i] = sorted[j] => i = j
  <2> HIDE DEF P
  <2> QED BY <1>7, <1>8, ArrangedSorts
<1>11. Len(sorted) = n
  <2> HIDE DEF P, sorted, n
  <2> QED BY <1>9, <1>10
<1>12. /\ DOMAIN B = K \cup J
       /\ \A i \in K \cup J : B[i] = IF i \in K THEN rows[i] ELSE Other(sorted[i - Len(rows)])
  <2>1. B = [i \in DOMAIN kept \cup (Len(rows) + 1 .. Len(rows) + Len(sorted)) |->
               IF i \in DOMAIN kept THEN rows[i] ELSE Other(sorted[i - Len(rows)])]
    BY DEF BoundUserRows, RestOf, PlacesOf, OtherCredits, Total
  <2> HIDE DEF B, K, kept, sorted, Other, n
  <2> QED BY <1>3, <1>11, <2>1
<1> HIDE DEF B, sorted, P, rest, kept, n
<1>13. Len(rows) \in Nat /\ DOMAIN rows = 1 .. Len(rows)
  OBVIOUS
<1>14. IsFiniteSet(J) /\ J \cap K = {}
  <2>1. Len(rows) + 1 \in Int /\ Len(rows) + n \in Int
    BY <1>9, <1>13
  <2>2. IsFiniteSet(J)
    BY <2>1, FS_Interval
  <2>3. J \cap DOMAIN rows = {}
    BY <1>9, <1>13
  <2> QED BY <1>3, <2>2, <2>3
<1>15. \A j \in J : j - Len(rows) \in 1 .. n
  BY <1>9, <1>13
<1>16. \A i \in 1 .. n : i + Len(rows) \in J /\ (i + Len(rows)) - Len(rows) = i
  BY <1>9, <1>13
<1>17. order \in [J -> P] /\ \A j \in J : order[j] = sorted[j - Len(rows)]
  <2> HIDE DEF J
  <2> QED BY <1>10, <1>15
<1>18. \A p \in P : \E j \in J : order[j] = p
  <2> SUFFICES ASSUME NEW p \in P PROVE \E j \in J : order[j] = p
    OBVIOUS
  <2>1. PICK i \in 1 .. n : sorted[i] = p
    BY <1>10
  <2> HIDE DEF J, order
  <2> QED BY <1>16, <1>17, <2>1
<1>19. \A i, j \in J : order[i] = order[j] => i = j
  <2> SUFFICES ASSUME NEW i \in J, NEW j \in J, order[i] = order[j] PROVE i = j
    OBVIOUS
  <2>1. i - Len(rows) = j - Len(rows)
    <3> HIDE DEF J, order
    <3> QED BY <1>10, <1>15, <1>17
  <2> QED BY <1>9, <1>13, <2>1
<1> HIDE DEF J, order
<1>20. \A i \in K : B[i] = rows[i]
  BY <1>12
<1>21. \A j \in J : B[j].date = order[j][1] /\ B[j].credits = OtherCredits(rest, order[j])
  <2> SUFFICES ASSUME NEW j \in J
               PROVE  B[j].date = order[j][1] /\ B[j].credits = OtherCredits(rest, order[j])
    OBVIOUS
  <2> HIDE DEF K
  <2>1. j \notin K /\ j \in K \cup J
    BY <1>14
  <2>2. B[j] = Other(order[j])
    BY <1>12, <1>17, <2>1
  <2>3. /\ Other(order[j]).date = order[j][1]
        /\ Other(order[j]).credits = OtherCredits(rest, order[j])
    OBVIOUS
  <2> HIDE DEF Other
  <2> QED BY <2>2, <2>3
<1>22. \E JJ, oo : /\ IsFiniteSet(JJ) /\ JJ \cap K = {} /\ DOMAIN B = K \cup JJ
                   /\ oo \in [JJ -> P]
                   /\ \A p \in P : \E j \in JJ : oo[j] = p
                   /\ \A i, j \in JJ : oo[i] = oo[j] => i = j
                   /\ \A i \in K : B[i] = rows[i]
                   /\ \A j \in JJ : B[j].date = oo[j][1] /\ B[j].credits = OtherCredits(rest, oo[j])
  <2> HIDE DEF K
  <2> QED BY <1>12, <1>14, <1>17, <1>18, <1>19, <1>20, <1>21
<1> QED BY <1>4, <1>5, <1>7, <1>22 DEF B, P, rest

\* No date is lost and none is new.
LEMMA BoundedDates ==
    ASSUME NEW rows \in Seq(Row["user"])
    PROVE  RowDates(BoundUserRows(rows)) = RowDates(rows)
<1> DEFINE K    == {i \in DOMAIN rows : rows[i].name \in TopUserNames(rows)}
           rest == RestOf(rows)
           P    == PlacesOf(rest)
           B    == BoundUserRows(rows)
<1>1. /\ DOMAIN rest = DOMAIN rows \ K
      /\ \A i \in DOMAIN rest : rest[i] = rows[i]
  BY BoundedShape
<1>2. PICK J, order : /\ IsFiniteSet(J) /\ J \cap K = {} /\ DOMAIN B = K \cup J
                      /\ order \in [J -> P]
                      /\ \A p \in P : \E j \in J : order[j] = p
                      /\ \A i, j \in J : order[i] = order[j] => i = j
                      /\ \A i \in K : B[i] = rows[i]
                      /\ \A j \in J : B[j].date = order[j][1] /\ B[j].credits = OtherCredits(rest, order[j])
  BY BoundedShape
<1>3. K \subseteq DOMAIN rows
  OBVIOUS
<1>4. \A p \in P : \E i \in DOMAIN rest : p[1] = rest[i].date
  BY DEF PlacesOf, Rows
<1>5. \A i \in DOMAIN rest : <<rest[i].date, rest[i].warehouse>> \in P
  BY DEF PlacesOf, Rows
<1> HIDE DEF K, rest, P, B
<1>6. ASSUME NEW i \in DOMAIN B PROVE \E j \in DOMAIN rows : B[i].date = rows[j].date
  <2>1. CASE i \in K
    BY <1>2, <1>3, <2>1
  <2>2. CASE i \in J
    <3>1. order[i] \in P
      BY <1>2, <2>2
    <3>2. PICK j \in DOMAIN rest : order[i][1] = rest[j].date
      BY <1>4, <3>1
    <3> QED BY <1>1, <1>2, <2>2, <3>2
  <2> QED BY <1>2, <2>1, <2>2
<1>7. ASSUME NEW i \in DOMAIN rows PROVE \E j \in DOMAIN B : rows[i].date = B[j].date
  <2>1. CASE i \in K
    BY <1>2, <2>1
  <2>2. CASE i \notin K
    <3>1. i \in DOMAIN rest /\ <<rows[i].date, rows[i].warehouse>> \in P
      BY <1>1, <1>5, <2>2
    <3>2. PICK j \in J : order[j] = <<rows[i].date, rows[i].warehouse>>
      BY <1>2, <3>1
    <3> QED BY <1>2, <3>2
  <2> QED BY <2>1, <2>2
<1>8. RowDates(B) = {B[i].date : i \in DOMAIN B} /\ RowDates(rows) = {rows[i].date : i \in DOMAIN rows}
  BY DEF RowDates, Rows
<1>9. RowDates(B) = RowDates(rows)
  BY <1>6, <1>7, <1>8
<1> QED BY <1>9 DEF B

\* Credits weighted by date: by a price, or by zero outside a range.
WeightsOK(q) == \A date \in Int : q[date] \in Int
Weighted(rows, q) == [i \in DOMAIN rows |-> rows[i].credits * q[rows[i].date]]

\* bound_user_compute_rows keeps every sum of credits weighted by their date: all
\* users together cost the same in every range and at every price of a day.
THEOREM BoundedSum ==
    ASSUME NEW rows \in Seq(Row["user"]), NEW q, WeightsOK(q)
    PROVE  SumOf(Weighted(BoundUserRows(rows), q)) = SumOf(Weighted(rows, q))
<1> DEFINE K    == {i \in DOMAIN rows : rows[i].name \in TopUserNames(rows)}
           rest == RestOf(rows)
           P    == PlacesOf(rest)
           B    == BoundUserRows(rows)
           R    == DOMAIN rest
           F    == Weighted(rows, q)
           FB   == Weighted(B, q)
<1>1. /\ RowsOK("user", rest) /\ R = DOMAIN rows \ K
      /\ \A i \in R : rest[i] = rows[i]
      /\ IsFiniteSet(P) /\ IsFiniteSet(K)
  BY BoundedShape
<1>2. PICK J, order : /\ IsFiniteSet(J) /\ J \cap K = {} /\ DOMAIN B = K \cup J
                      /\ order \in [J -> P]
                      /\ \A p \in P : \E j \in J : order[j] = p
                      /\ \A i, j \in J : order[i] = order[j] => i = j
                      /\ \A i \in K : B[i] = rows[i]
                      /\ \A j \in J : B[j].date = order[j][1] /\ B[j].credits = OtherCredits(rest, order[j])
  BY BoundedShape
<1>3. RowsOK("user", rows) /\ RowsOK("user", B)
  BY UserRowsOK, BoundedRowsOK
<1>4. DOMAIN rows = K \cup R /\ K \cap R = {}
  BY <1>1
<1>5. \A i \in R : <<rest[i].date, rest[i].warehouse>> \in P
  BY DEF PlacesOf, Rows
<1> HIDE DEF K, rest, P, B, R
<1>6. \A d : RowsOK("user", d) => Weighted(d, q) \in [DOMAIN d -> Int] /\ IsFiniteSet(DOMAIN d)
  <2> SUFFICES ASSUME NEW d, RowsOK("user", d)
               PROVE  Weighted(d, q) \in [DOMAIN d -> Int] /\ IsFiniteSet(DOMAIN d)
    OBVIOUS
  <2>1. \A i \in DOMAIN d : d[i].credits \in Int /\ d[i].date \in Int
    BY DEF RowsOK, RowOK
  <2>2. \A i \in DOMAIN d : d[i].credits * q[d[i].date] \in Int
    BY <2>1 DEF WeightsOK
  <2> QED BY <2>2 DEF Weighted, RowsOK
<1>7. F \in [DOMAIN rows -> Int] /\ IsFiniteSet(DOMAIN rows) /\ FB \in [DOMAIN B -> Int] /\ IsFiniteSet(DOMAIN B)
  BY <1>3, <1>6
<1>8. /\ SumOf(F) = SumOf(Restrict(F, K)) + SumOf(Restrict(F, R))
      /\ SumOf(FB) = SumOf(Restrict(FB, K)) + SumOf(Restrict(FB, J))
  <2> DEFINE S == DOMAIN rows
             T == DOMAIN B
  <2>1. IsFiniteSet(S) /\ F \in [S -> Int] /\ S = K \cup R /\ K \cap R = {}
    BY <1>4, <1>7
  <2>2. IsFiniteSet(T) /\ FB \in [T -> Int] /\ T = K \cup J /\ K \cap J = {}
    BY <1>2, <1>7
  <2> HIDE DEF F, FB, S, T
  <2>3. SumOf(F) = SumOf(Restrict(F, K)) + SumOf(Restrict(F, R))
    BY <2>1, SumSplit
  <2>4. SumOf(FB) = SumOf(Restrict(FB, K)) + SumOf(Restrict(FB, J))
    BY <2>2, SumSplit
  <2> QED BY <2>3, <2>4
<1>9. Restrict(F, K) = Restrict(FB, K)
  <2>1. \A i \in K : F[i] = FB[i]
    BY <1>2, <1>4 DEF Weighted
  <2> HIDE DEF F, FB
  <2> QED BY <2>1 DEF Restrict
<1> DEFINE key == [i \in R |-> <<rest[i].date, rest[i].warehouse>>]
           FR  == Restrict(F, R)
           w   == [p \in P |-> SumOf([i \in R |-> IF key[i] = p THEN FR[i] ELSE 0])]
<1>10. key \in [R -> P] /\ FR \in [R -> Int] /\ IsFiniteSet(R)
  <2>1. FR \in [R -> Int]
    <3> HIDE DEF F
    <3> QED BY <1>4, <1>7 DEF Restrict
  <2> QED BY <1>1, <1>5, <2>1 DEF RowsOK, R
<1>11. SumOf(FR) = SumOf(w)
  <2>1. IsFiniteSet(P)
    BY <1>1
  <2> HIDE DEF key, FR
  <2>2. SumOf(FR) = SumOf([p \in P |-> SumOf([i \in R |-> IF key[i] = p THEN FR[i] ELSE 0])])
    BY <1>10, <2>1, SumFibers
  <2> QED BY <2>2
<1>12. \A i \in R : FR[i] = rest[i].credits * q[rest[i].date] /\ rest[i].credits \in Int
  BY <1>1, <1>4 DEF Restrict, Weighted, RowsOK, RowOK, R
<1> HIDE DEF FR, F, FB
<1>13. ASSUME NEW p \in P PROVE w[p] = OtherCredits(rest, p) * q[p[1]] /\ w[p] \in Int
  <2> DEFINE c == [i \in R |-> IF key[i] = p THEN rest[i].credits ELSE 0]
  <2>1. c \in [R -> Int]
    BY <1>12
  <2>2. OtherCredits(rest, p) = SumOf(c)
    BY DEF OtherCredits, R
  <2>3. q[p[1]] \in Int
    <3>1. PICK i \in R : p = <<rest[i].date, rest[i].warehouse>>
      BY DEF P, PlacesOf, Rows, R
    <3>2. rest[i].date \in Int
      BY <1>1 DEF RowsOK, RowOK, R
    <3> QED BY <3>1, <3>2 DEF WeightsOK
  <2>4. SumOf([i \in R |-> c[i] * q[p[1]]]) = SumOf(c) * q[p[1]]
    <3> HIDE DEF c
    <3> QED BY <1>10, <2>1, <2>3, SumScale
  <2>5. \A i \in R : c[i] * q[p[1]] = IF key[i] = p THEN FR[i] ELSE 0
    <3> SUFFICES ASSUME NEW i \in R PROVE c[i] * q[p[1]] = IF key[i] = p THEN FR[i] ELSE 0
      OBVIOUS
    <3>1. CASE key[i] = p
      <4>1. p[1] = rest[i].date
        BY <3>1
      <4> QED BY <1>12, <3>1, <4>1
    <3>2. CASE key[i] # p
      <4>1. c[i] = 0
        BY <3>2
      <4> HIDE DEF c
      <4> QED BY <2>3, <3>2, <4>1
    <3> QED BY <3>1, <3>2
  <2> HIDE DEF c, key
  <2>6. [i \in R |-> c[i] * q[p[1]]] = [i \in R |-> IF key[i] = p THEN FR[i] ELSE 0]
    BY <2>5
  <2>7. SumOf(c) \in Int
    BY <1>10, <2>1, SumType
  <2>8. SumOf(c) * q[p[1]] \in Int
    BY <2>3, <2>7
  <2> QED BY <2>2, <2>4, <2>6, <2>8
<1> HIDE DEF w
<1>14. w \in [P -> Int]
  BY <1>13 DEF w
<1>15. SumOf([j \in J |-> w[order[j]]]) = SumOf(w)
  <2>1. /\ IsFiniteSet(P) /\ IsFiniteSet(J) /\ order \in [J -> P]
        /\ \A p \in P : \E j \in J : order[j] = p
        /\ \A i, j \in J : order[i] = order[j] => i = j
    BY <1>1, <1>2
  <2> QED BY <1>14, <2>1, SumReindex
<1>16. Restrict(FB, J) = [j \in J |-> w[order[j]]]
  <2>1. \A j \in J : FB[j] = w[order[j]]
    <3> SUFFICES ASSUME NEW j \in J PROVE FB[j] = w[order[j]]
      OBVIOUS
    <3>1. FB[j] = B[j].credits * q[B[j].date]
      BY <1>2 DEF FB, Weighted
    <3>2. order[j] \in P /\ B[j].date = order[j][1] /\ B[j].credits = OtherCredits(rest, order[j])
      BY <1>2
    <3> QED BY <1>13, <3>1, <3>2
  <2> QED BY <2>1 DEF Restrict
<1> QED BY <1>8, <1>9, <1>11, <1>15, <1>16 DEF F, FB, FR, B

\* The weights that the users' section applies.
DateWeights(meta, rates, range) ==
    [date \in Int |->
        IF date \in range.first .. range.last
          THEN PricePerCredit(rates, meta.currency, date, "WAREHOUSE_METERING", "COMPUTE")
          ELSE 0]

LEMMA DateWeightsOK ==
    ASSUME NEW meta, NEW rates, RatesOK(rates), NEW range
    PROVE  WeightsOK(DateWeights(meta, rates, range))
BY DEF WeightsOK, DateWeights, RatesOK

LEMMA UsersAreWeighted ==
    ASSUME NEW d, DataOK(d), NEW meta, NEW rates, RatesOK(rates), NEW range
    PROVE  SpendOf(Ranked(UserAmounts(d, meta, rates, range))) =
           SumOf(Weighted(d.user, DateWeights(meta, rates, range)))
<1> DEFINE rows == d.user
           K == Places(rows, range)
           W == InWindow(rows, range)
           amounts == UserAmounts(d, meta, rates, range)
           q == DateWeights(meta, rates, range)
           F == Weighted(rows, q)
           price(date) == PricePerCredit(rates, meta.currency, date, "WAREHOUSE_METERING", "COMPUTE")
<1>1. RowsOK("user", rows)
  BY SourceNames DEF DataOK
<1>2. DOMAIN W = K /\ \A i \in K : W[i] = rows[i]
  <2> HIDE DEF rows
  <2> QED BY <1>1, WindowedRows
<1>3. K \in SUBSET DOMAIN rows /\ IsFiniteSet(DOMAIN rows)
  BY <1>1 DEF Places, RowsOK
<1>4. amounts = [i \in DOMAIN W |->
            [date |-> W[i].date, name |-> W[i].name, credits |-> W[i].credits,
             spend |-> W[i].credits * price(W[i].date)]]
  BY DEF UserAmounts
<1>5. \A i \in DOMAIN rows : /\ rows[i].credits \in Int /\ rows[i].date \in Int
                             /\ i \in K => rows[i].date \in range.first .. range.last
                             /\ i \notin K => rows[i].date \notin range.first .. range.last
  BY <1>1 DEF RowsOK, RowOK, Places
<1>6. \A i \in DOMAIN rows : F[i] = IF i \in K THEN rows[i].credits * price(rows[i].date) ELSE 0
  BY <1>5 DEF Weighted, DateWeights
<1>7. \A date : price(date) \in Int
  BY DEF RatesOK
<1> HIDE DEF K, W, amounts, price
<1>8. F \in [DOMAIN rows -> Int]
  <2>1. \A i \in DOMAIN rows : F[i] \in Int
    BY <1>5, <1>6, <1>7
  <2> QED BY <2>1 DEF Weighted
<1> HIDE DEF F
<1>9. SumOf(F) = SumOf(Restrict(F, K))
  BY <1>3, <1>6, <1>8, SumSubset
<1>10. Restrict(F, K) = Spends(amounts)
  <2>1. \A i \in K : F[i] = amounts[i].spend
    BY <1>2, <1>3, <1>4, <1>6
  <2>2. DOMAIN amounts = K
    BY <1>2, <1>4
  <2> QED BY <2>1, <2>2 DEF Restrict, Spends
<1>11. SpendOf(Ranked(amounts)) = SumOf(Spends(amounts))
  <2>1. AmountsOK(amounts)
    BY UserAmountsOK DEF amounts
  <2> QED BY <2>1, RankedRows
<1> QED BY <1>9, <1>10, <1>11 DEF F, amounts

LEMMA UsersKeepTheirTotal ==
    ASSUME NEW d, DataOK(d), d.user \in Seq(Row["user"]),
           NEW e, DataOK(e), e.user = d.user \/ e.user = BoundUserRows(d.user),
           NEW meta, NEW rates, RatesOK(rates), NEW range
    PROVE  SpendOf(Ranked(UserAmounts(d, meta, rates, range))) =
           SpendOf(Ranked(UserAmounts(e, meta, rates, range)))
<1>1. SumOf(Weighted(BoundUserRows(d.user), DateWeights(meta, rates, range)))
      = SumOf(Weighted(d.user, DateWeights(meta, rates, range)))
  BY BoundedSum, DateWeightsOK
<1> QED BY <1>1, UsersAreWeighted

\* The other sections read only sources that the build leaves alone.
LEMMA OtherSourcesRead ==
    ASSUME NEW d, NEW e, \A s \in Source \ {"user"} : e[s] = d[s],
           NEW meta, NEW rates, NEW range
    PROVE  /\ DailyTotals(e, meta, rates, range) = DailyTotals(d, meta, rates, range)
           /\ ServiceAmounts(e, meta, rates, range) = ServiceAmounts(d, meta, rates, range)
           /\ WarehouseAmounts(e, meta, rates, range) = WarehouseAmounts(d, meta, rates, range)
           /\ StorageAmounts(e, meta, range) = StorageAmounts(d, meta, range)
           /\ Databases(e, meta, range) = Databases(d, meta, range)
           /\ AiSummary(e, meta, rates, range) = AiSummary(d, meta, rates, range)
<1>1. /\ e.org = d.org /\ e.service = d.service /\ e.warehouse = d.warehouse
      /\ e.storage = d.storage /\ e.rate = d.rate /\ e.capacity = d.capacity
  BY SourceNames
<1>2. DailyTotals(e, meta, rates, range) = DailyTotals(d, meta, rates, range)
  <2>1. \A date : DayDollars(e, meta, rates, date) = DayDollars(d, meta, rates, date)
    BY <1>1 DEF DayDollars
  <2> QED BY <2>1, DailyIsSum
<1>3. ServiceAmounts(e, meta, rates, range) = ServiceAmounts(d, meta, rates, range)
  BY <1>1 DEF ServiceAmounts
<1>4. WarehouseAmounts(e, meta, rates, range) = WarehouseAmounts(d, meta, rates, range)
  BY <1>1 DEF WarehouseAmounts
<1>5. StorageAmounts(e, meta, range) = StorageAmounts(d, meta, range)
  BY <1>1 DEF StorageAmounts
<1>6. Databases(e, meta, range) = Databases(d, meta, range)
  BY <1>1, <1>5 DEF Databases
<1>7. AiSummary(e, meta, rates, range) = AiSummary(d, meta, rates, range)
  BY <1>1 DEF AiSummary
<1> QED BY <1>2, <1>3, <1>4, <1>5, <1>6, <1>7

LEMMA CapacityReads ==
    ASSUME NEW d, NEW e, e.capacity = d.capacity, NEW meta, NEW range, NEW spend
    PROVE  CapacityBalance(e, meta, range, spend) = CapacityBalance(d, meta, range, spend)
<1>1. InWindow(e.capacity, range) = InWindow(d.capacity, range)
  OBVIOUS
<1> DEFINE rows(x) == RestrictValues(InWindow(x.capacity, range),
                                     LAMBDA row : row.currency = ViewCurrency(meta))
           balance(r) == Total(r, LAMBDA row : IF row.date = LatestDate(r) THEN row.balance ELSE 0)
           shown(r) ==
             IF Rows(r) = {} THEN [date |-> None, balance |-> 0, days |-> 1, forecast |-> <<>>]
             ELSE [date |-> LatestDate(r), balance |-> balance(r), days |-> spend.days,
                   forecast |-> Forecast(balance(r), LatestDate(r), spend)]
<1>2. rows(e) = rows(d)
  BY <1>1
<1>3. CapacityBalance(e, meta, range, spend) = shown(rows(e))
      /\ CapacityBalance(d, meta, range, spend) = shown(rows(d))
  BY DEF CapacityBalance
<1> HIDE DEF rows, shown
<1> QED BY <1>2, <1>3

LEMMA ViewKeepsMoney ==
    ASSUME NEW d, DataOK(d), d.user \in Seq(Row["user"]),
           NEW e, DataOK(e), e.user = d.user \/ e.user = BoundUserRows(d.user),
           \A s \in Source \ {"user"} : e[s] = d[s],
           NEW meta, NEW rates, RatesOK(rates), NEW range
    PROVE  Money(ViewForRange(e, meta, rates, range)) = Money(ViewForRange(d, meta, rates, range))
<1> DEFINE v(x) == ViewForRange(x, meta, rates, range)
           projection == ProjectionRange(ThroughDate(meta))
           projected(x) == DailyTotals(x, meta, rates, projection)
           anchored == meta.mode = "billed" /\ range.last = projection.last
           spend(x) == IF anchored THEN TrailingSpend(projected(x), projection.last)
                                   ELSE [sum |-> 0, days |-> 1]
<1>1. \A x : /\ v(x).first = range.first /\ v(x).last = range.last
             /\ v(x).total = DailySum(DailyTotals(x, meta, rates, range))
             /\ v(x).services = Section(ServiceAmounts(x, meta, rates, range), range)
             /\ v(x).warehouses = Section(WarehouseAmounts(x, meta, rates, range), range)
             /\ v(x).storage = Section(StorageAmounts(x, meta, range), range)
             /\ v(x).databases = Databases(x, meta, range)
             /\ v(x).users = Ranked(UserAmounts(x, meta, rates, range))
             /\ v(x).balance = CapacityBalance(x, meta, range, spend(x))
             /\ v(x).ai = AiSummary(x, meta, rates, range)
  BY DEF ViewForRange
<1>2. projected(e) = projected(d)
  BY OtherSourcesRead
<1>3. spend(e) = spend(d)
  BY <1>2
<1>4. SpendOf(Ranked(UserAmounts(d, meta, rates, range))) =
      SpendOf(Ranked(UserAmounts(e, meta, rates, range)))
  BY UsersKeepTheirTotal
<1> SUFFICES Money(v(e)) = Money(v(d))
  OBVIOUS
<1> HIDE DEF v, projected, spend
<1>5. CapacityBalance(e, meta, range, spend(e)) = CapacityBalance(d, meta, range, spend(d))
  <2>1. e.capacity = d.capacity
    BY SourceNames
  <2>2. CapacityBalance(e, meta, range, spend(d)) = CapacityBalance(d, meta, range, spend(d))
    BY <2>1, CapacityReads
  <2> QED BY <1>3, <2>2
<1>6. /\ v(e).first = v(d).first /\ v(e).last = v(d).last /\ v(e).total = v(d).total
      /\ v(e).services = v(d).services /\ v(e).warehouses = v(d).warehouses
      /\ v(e).storage = v(d).storage /\ v(e).databases = v(d).databases
      /\ v(e).balance = v(d).balance /\ v(e).ai = v(d).ai
  BY <1>1, <1>5, OtherSourcesRead
<1>7. SpendOf(v(e).users) = SpendOf(v(d).users)
  BY <1>1, <1>4
<1> QED BY <1>6, <1>7 DEF Money

\* Of the account sources the metadata only reads the dates.
AccountDates(d) == UNION {RowDates(d[s]) : s \in AccountSources}

LEMMA MetadataReads ==
    ASSUME NEW d, NEW e, NEW o \in BOOLEAN, NEW a \in BOOLEAN, NEW b \in BOOLEAN,
           d.org = e.org, AccountDates(d) = AccountDates(e), a = b \/ AccountDates(d) = {}
    PROVE  Metadata(d, o, a) = Metadata(e, o, b)
<1> DEFINE dates(x) == {row.date : row \in AccountRows(x)}
           currencies == {row.currency : row \in Rows(d.org)} \ {None}
           mode == IF o THEN "billed" ELSE "estimated"
           shape(account) ==
             [mode |-> mode,
              mixed |-> Cardinality(currencies) > 1,
              currency |-> CASE Cardinality(currencies) > 1 -> None
                             [] mode = "billed" /\ Cardinality(currencies) = 1
                                  -> CHOOSE c \in currencies : TRUE
                             [] OTHER -> "USD",
              billing |-> IF o THEN LatestDate(d.org) ELSE None,
              account |-> account]
<1>1. \A x : dates(x) = AccountDates(x)
  BY DEF AccountRows, AccountDates, AccountSources, RowDates
<1>2. Metadata(d, o, a) = shape(IF a THEN Latest(dates(d)) ELSE None)
  BY Zenon DEF Metadata
<1>3. Metadata(e, o, b) = shape(IF b THEN Latest(dates(e)) ELSE None)
  BY Zenon DEF Metadata
<1>4. Latest({}) = None
  BY DEF Latest
<1> HIDE DEF dates
<1>5. (IF a THEN Latest(dates(d)) ELSE None) = (IF b THEN Latest(dates(e)) ELSE None)
  BY <1>1, <1>4
<1> HIDE DEF shape
<1> QED BY <1>2, <1>3, <1>5

\* If no group collapsed and the mode is the one the rows imply, the build changes
\* nothing but the users, and stores the metadata that was reconstructed.
LEMMA SettledRows ==
    ASSUME IInv, NEW o \in BOOLEAN, NEW a \in BOOLEAN, Finalize(o, a),
           (stored'.mode = "billed") = (data.org # <<>>),
           \A s \in Source : (data'[s] = <<>>) = (data[s] = <<>>)
    PROVE  /\ DataOK(data) /\ DataOK(data') /\ data.user \in Seq(Row["user"])
           /\ \A s \in Source \ {"user"} : data'[s] = data[s]
           /\ data'.user = data.user \/ data'.user = BoundUserRows(data.user)
           /\ \A s \in Source : RowDates(data'[s]) = RowDates(data[s])
           /\ stored' = ReconstructedMetadata(data)
<1>1. DataOK(data) /\ DataOK(data') /\ data.user \in Seq(Row["user"]) /\ Landed(data)
  BY FinalizeInv DEF IInv, Finalize
<1>2. data' = FinalRows(o, a)
  BY DEF Finalize
<1>3. \A s \in Source : s \in OrgSources /\ ~o => data'[s] = <<>>
  BY <1>2 DEF FinalRows, OrgSources, AccountSources
<1>4. \A s \in AccountSources : s \notin OrgSources
  BY DEF AccountSources, OrgSources
<1>5. \A s \in AccountSources : ~a => data'[s] = <<>>
  BY <1>2, <1>4 DEF FinalRows, Source, BaseSources
<1>6. \A s \in Source \ {"user"} : data'[s] \in {<<>>, data[s]}
  BY <1>2 DEF FinalRows
<1>7. \A s \in Source \ {"user"} : data'[s] = data[s]
  BY <1>6
<1>8. "user" \in Source
  BY SourceNames
<1>9. data'["user"] \in {<<>>, data["user"], BoundUserRows(data.user)}
  BY <1>2, <1>8 DEF FinalRows
<1>10. data'.user = data.user \/ data'.user = BoundUserRows(data.user)
  BY <1>8, <1>9
<1>11. RowDates(BoundUserRows(data.user)) = RowDates(data.user)
  BY <1>1, BoundedDates
<1>12. \A s \in Source : RowDates(data'[s]) = RowDates(data[s])
  BY <1>7, <1>10, <1>11
<1>13. AccountSources \in SUBSET Source
  BY DEF Source, BaseSources
<1>14. AccountDates(data') = AccountDates(data)
  BY <1>12, <1>13 DEF AccountDates
<1>15. stored' = Metadata(data', o, a)
  BY DEF Finalize
<1>16. o = (Rows(data.org) # {})
  <2>1. stored'.mode = IF o THEN "billed" ELSE "estimated"
    BY <1>15 DEF Metadata
  <2>2. (data.org = <<>>) = (Rows(data.org) = {})
    <3>1. data.org = <<>> \/ Rows(data.org) # {}
      BY <1>1, SourceNames DEF Landed
    <3> QED BY <3>1, EmptyOK
  <2> QED BY <2>1, <2>2
<1>17. ~a => AccountDates(data) = {}
  <2>1. RowDates(<<>>) = {}
    BY EmptyOK DEF RowDates
  <2> QED BY <1>5, <1>14, <2>1 DEF AccountDates
<1>18. a => \/ AccountRows(data) # {}
            \/ AccountDates(data) = {}
  <2>1. AccountDates(data) = {row.date : row \in AccountRows(data)}
    BY DEF AccountRows, AccountDates, AccountSources, RowDates
  <2> QED BY <2>1
<1>19. a = (AccountRows(data) # {}) \/ AccountDates(data) = {}
  BY <1>17, <1>18
<1>20. data'.org = data.org
  BY <1>7, SourceNames
<1>21. Metadata(data', o, a) = Metadata(data, o, AccountRows(data) # {})
  <2> DEFINE D == data'
             b == AccountRows(data) # {}
  <2>1. /\ D.org = data.org /\ AccountDates(D) = AccountDates(data)
        /\ a = b \/ AccountDates(D) = {}
        /\ b \in BOOLEAN
    BY <1>14, <1>19, <1>20
  <2> SUFFICES Metadata(D, o, a) = Metadata(data, o, b)
    OBVIOUS
  <2> HIDE DEF D, b
  <2> QED BY <2>1, MetadataReads
<1>22. stored' = ReconstructedMetadata(data)
  BY <1>15, <1>16, <1>21 DEF ReconstructedMetadata
<1> QED BY <1>1, <1>7, <1>10, <1>12, <1>22

\* The settled bounds may only begin later: the deferred rows no longer count.
LEMMA SettledWindow ==
    ASSUME IInv, NEW o \in BOOLEAN, NEW a \in BOOLEAN, Finalize(o, a),
           (stored'.mode = "billed") = (data.org # <<>>),
           \A s \in Source : (data'[s] = <<>>) = (data[s] = <<>>)
    PROVE  bounds'.first \in Int /\ bounds'.last \in Int
           /\ (ThroughDate(stored') # None => bounds.first <= bounds'.first)
<1>1. /\ DataOK(data) /\ DataOK(data') /\ stored' = ReconstructedMetadata(data)
      /\ \A s \in Source : RowDates(data'[s]) = RowDates(data[s])
  BY SettledRows
<1>2. BaseSources \in SUBSET Source
  BY SourceNames
<1>3. Dates(data', BaseSources) = Dates(data, BaseSources)
  <2>1. \A d : Dates(d, BaseSources) = UNION {RowDates(d[s]) : s \in BaseSources}
    BY DEF Dates, RowDates
  <2>2. \A s \in BaseSources : RowDates(data'[s]) = RowDates(data[s])
    BY <1>1, <1>2
  <2>3. UNION {RowDates(data'[s]) : s \in BaseSources}
        = UNION {RowDates(data[s]) : s \in BaseSources}
    BY <2>2
  <2> QED BY <2>1, <2>3
<1> DEFINE D == Dates(data, BaseSources)
<1>4. bounds' = SourceBounds(D, Today)
  BY <1>3 DEF Finalize
<1>5. IsFiniteSet(D) /\ D \in SUBSET Int
  BY <1>1, <1>2, DatesFinite
<1>6. \A date \in D : bounds.first <= date
  BY DEF IInv, BoundsOK
<1>7. ThroughDate(stored') # None => D # {}
  BY <1>1, ThroughOfRows
<1>8. bounds'.first \in Int /\ bounds'.last \in Int
  <2>1. IInv'
    BY FinalizeInv
  <2> QED BY <2>1 DEF IInv, BoundsOK
<1> HIDE DEF D
<1>9. ASSUME D # {} PROVE bounds.first <= bounds'.first
  <2>1. Min(D) \in D
    BY <1>5, <1>9, MinIsFirst
  <2>2. bounds'.first = Min(D)
    BY <1>4, <1>9 DEF SourceBounds
  <2> QED BY <1>6, <2>1, <2>2
<1> QED BY <1>7, <1>8, <1>9

LEMMA SettledRequest ==
    ASSUME NEW req \in WindowRequests, NEW through \in Int
    PROVE  LET days == IF req.window = None THEN DefaultWindow ELSE req.window
           IN  /\ RequestedRange(req, through).first = WindowStart(through, days)
               /\ RequestedRange(req, through).last = through
               /\ WindowStart(through, days) \in Int
               /\ RequestOK(req)
<1> DEFINE days == IF req.window = None THEN DefaultWindow ELSE req.window
<1>1. PICK w \in SupportedWindows \cup {None} : req = Relative(w)
  BY DEF WindowRequests
<1>2. req.window = w /\ req.first = None /\ req.last = None
  BY <1>1 DEF Relative
<1>3. days \in Int
  BY <1>2, WindowAssumption
<1>4. RequestedRange(req, through) = [first |-> WindowStart(through, days), last |-> through]
  BY <1>2 DEF RequestedRange
<1>5. RequestOK(req)
  BY <1>2, WindowAssumption DEF RequestOK
<1> HIDE DEF days
<1>6. WindowStart(through, days) \in Int
  BY <1>3 DEF WindowStart
<1> QED BY <1>4, <1>5, <1>6 DEF days

LEMMA RunningRequest ==
    ASSUME NEW first \in Int, NEW through \in Int
    PROVE  /\ RequestedRange(Custom(first, through), through).first = first
           /\ RequestedRange(Custom(first, through), through).last = through
           /\ RequestOK(Custom(first, through))
BY NoneAssumption DEF Custom, RequestedRange, Least, RequestOK

\* If the settled view is shown, its window begins within the settled bounds,
\* where the running one was not clamped either.
LEMMA SettlingKeeps ==
    ASSUME IInv, NEW o \in BOOLEAN, NEW a \in BOOLEAN, Finalize(o, a),
           (stored'.mode = "billed") = (data.org # <<>>),
           \A s \in Source : (data'[s] = <<>>) = (data[s] = <<>>),
           NEW req \in WindowRequests
    PROVE  SameMoney(RunningView(req), BuildView(data', stored', bounds', req))
<1> DEFINE D == data'
           B == bounds'
           meta == ReconstructedMetadata(data)
           through == ThroughDate(meta)
           days == IF req.window = None THEN DefaultWindow ELSE req.window
           start == RunningStart(through, days)
           settled == BuildView(D, meta, B, req)
<1>1. /\ DataOK(data) /\ DataOK(D) /\ data.user \in Seq(Row["user"])
      /\ \A s \in Source \ {"user"} : D[s] = data[s]
      /\ D.user = data.user \/ D.user = BoundUserRows(data.user)
      /\ stored' = meta
  BY SettledRows
<1>2. /\ B.first \in Int /\ B.last \in Int
      /\ through # None => bounds.first <= B.first
  BY <1>1, SettledWindow
<1>3. status = "running"
  BY DEF Finalize
<1>4. SUFFICES ASSUME RunningView(req).kind = "view", settled.kind = "view"
               PROVE  Money(settled) = Money(RunningView(req))
  BY <1>1 DEF SameMoney
<1>5. through # None
  <2>1. ASSUME through = None PROVE FALSE
    <3>1. RunningView(req) = BuildView(data, meta, bounds, Custom(bounds.first, bounds.last))
      BY <2>1 DEF RunningView
    <3>2. BuildView(data, meta, bounds, Custom(bounds.first, bounds.last)).kind = "empty"
      BY <2>1, EmptyIsAnswered
    <3> QED BY <1>4, <3>1, <3>2
  <2> QED BY <2>1
<1>6. /\ through \in Int /\ bounds.first \in Int /\ bounds.last \in Int
      /\ start \in Int
      /\ RunningView(req) = BuildView(data, meta, bounds, Custom(start, through))
  BY <1>3, <1>5, RunningRange
<1>7. /\ RequestedRange(req, through).first = WindowStart(through, days)
      /\ RequestedRange(req, through).last = through
      /\ WindowStart(through, days) \in Int
      /\ RequestOK(req)
  BY <1>6, SettledRequest
<1>8. /\ RequestedRange(Custom(start, through), through).first = start
      /\ RequestedRange(Custom(start, through), through).last = through
      /\ RequestOK(Custom(start, through))
  <2> HIDE DEF start, through
  <2> QED BY <1>6, RunningRequest
<1> HIDE DEF D, B, meta, days
<1>9. /\ B.first <= RequestedRange(req, through).first
      /\ \E range : /\ range.first = RequestedRange(req, through).first
                    /\ range.last = RequestedRange(req, through).last
                    /\ range = [kind |-> "range", first |-> range.first, last |-> range.last]
                    /\ settled = ViewForRange(D, meta, RateIndex(D.rate), range)
  BY <1>2, <1>4, <1>6, <1>7, ViewOfRange
<1>10. start = WindowStart(through, days)
  BY <1>2, <1>5, <1>6, <1>7, <1>9 DEF RunningStart, Greatest
<1>11. \E range : /\ range.first = start
                  /\ range.last = through
                  /\ range = [kind |-> "range", first |-> range.first, last |-> range.last]
                  /\ RunningView(req) = ViewForRange(data, meta, RateIndex(data.rate), range)
  <2> DEFINE custom == Custom(start, through)
  <2>1. BuildView(data, meta, bounds, custom).kind = "view"
    BY <1>4, <1>6
  <2>2. /\ RequestOK(custom) /\ bounds.first \in Int /\ bounds.last \in Int /\ through \in Int
        /\ RequestedRange(custom, through).first = start
        /\ RequestedRange(custom, through).last = through
    BY <1>6, <1>8
  <2> HIDE DEF custom, start
  <2>3. \E range : /\ range.first = RequestedRange(custom, through).first
                   /\ range.last = RequestedRange(custom, through).last
                   /\ range = [kind |-> "range", first |-> range.first, last |-> range.last]
                   /\ BuildView(data, meta, bounds, custom) =
                          ViewForRange(data, meta, RateIndex(data.rate), range)
    BY <2>1, <2>2, ViewOfRange
  <2> QED BY <1>6, <2>2, <2>3 DEF custom
<1> DEFINE range == [kind |-> "range", first |-> start, last |-> through]
<1>12. settled = ViewForRange(D, meta, RateIndex(D.rate), range)
  BY <1>7, <1>9, <1>10
<1>13. RunningView(req) = ViewForRange(data, meta, RateIndex(data.rate), range)
  BY <1>11
<1>14. D.rate = data.rate
  BY <1>1, SourceNames
<1>15. RatesOK(RateIndex(data.rate))
  BY <1>1, RatesType
<1> HIDE DEF range, settled, start, through
<1>16. Money(ViewForRange(D, meta, RateIndex(data.rate), range))
       = Money(ViewForRange(data, meta, RateIndex(data.rate), range))
  BY <1>1, <1>15, ViewKeepsMoney
<1> QED BY <1>12, <1>13, <1>14, <1>16

\* finalize_run: the numbers that a client polled do not move when the run
\* settles, if no group collapsed and the mode is the one the rows imply.
THEOREM SettlingIsSeamless == Spec => SettlingKeepsTheNumbers
<1> DEFINE Kept ==
        /\ status = "running" /\ status' = "completed"
        /\ (stored'.mode = "billed") = (data.org # <<>>)
        /\ \A s \in Source : (data'[s] = <<>>) = (data[s] = <<>>)
        => \A req \in WindowRequests :
               SameMoney(RunningView(req), BuildView(data', stored', bounds', req))
<1>1. IInv /\ [Next]_vars => [Kept]_vars
  <2> SUFFICES ASSUME IInv, Next, status = "running", status' = "completed",
                      (stored'.mode = "billed") = (data.org # <<>>),
                      \A s \in Source : (data'[s] = <<>>) = (data[s] = <<>>),
                      NEW req \in WindowRequests
               PROVE  SameMoney(RunningView(req), BuildView(data', stored', bounds', req))
    OBVIOUS
  <2>1. PICK o \in BOOLEAN, a \in BOOLEAN : Finalize(o, a)
    BY DEF Next, Land, LandDeferred, Fail
  <2> QED BY <2>1, SettlingKeeps
<1>2. Spec => [][Kept]_vars
  <2>1. Spec => []IInv
    BY Inductive
  <2> HIDE DEF Kept
  <2> QED BY <1>1, <2>1, PTL DEF Spec
<1> QED BY <1>2 DEF SettlingKeepsTheNumbers

=============================================================================
