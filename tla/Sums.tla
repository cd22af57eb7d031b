-------------------------------- MODULE Sums --------------------------------
(***************************************************************************)
(* Facts about the sum of a function over a finite set, as the community   *)
(* modules define it (SumFunctionOnSet), and about least and greatest      *)
(* numbers.  They are proved by induction over sets: a set of              *)
(* counterexamples that is not empty has a member of which no element can  *)
(* be removed (MinimalSubset), so that no operator has to be instantiated. *)
(* CacheDatabaseProofs and FinancialDataProofs use them.                   *)
(***************************************************************************)
EXTENDS Integers, FiniteSetsExt, Functions, FiniteSetTheorems,
        WellFoundedInduction, TLAPS

(* Of sets that are subsets of a finite set, one is minimal.               *)
LEMMA MinimalSubset ==
  ASSUME NEW S, IsFiniteSet(S), NEW F, F \subseteq SUBSET S, F # {}
  PROVE  \E T \in F : \A x \in T : T \ {x} \notin F
<1>1. IsWellFoundedOn(StrictSubsetOrdering(S), FiniteSubsetsOf(S))
  BY FS_StrictSubsetOrderingWellFounded
<1>2. F \subseteq FiniteSubsetsOf(S)
  BY FS_Subset DEF FiniteSubsetsOf
<1>3. PICK T \in F : \A U \in F : ~(<<U, T>> \in StrictSubsetOrdering(S))
  BY <1>1, <1>2, WFMin
<1>4. ASSUME NEW x \in T, T \ {x} \in F PROVE FALSE
  BY <1>3, <1>4 DEF StrictSubsetOrdering
<1> QED
  BY <1>3, <1>4

(* Of a set of numbers, one has no predecessor in the set.                 *)
LEMMA FirstNumber ==
  ASSUME NEW S \in SUBSET Nat, S # {}
  PROVE  \E n \in S : n = 0 \/ n - 1 \notin S
<1>1. PICK m \in S : TRUE
  OBVIOUS
<1> DEFINE Below(n) == {i \in 1..m : i <= n}
           F == {T \in SUBSET (1..m) : \E n \in S : n <= m /\ T = Below(n)}
<1>2. Below(m) \in F
  OBVIOUS
<1>3. PICK T \in F : \A x \in T : T \ {x} \notin F
  <2>1. F \subseteq SUBSET (1..m) /\ IsFiniteSet(1..m)
    BY FS_Interval
  <2> HIDE DEF F
  <2> QED
    BY <1>2, <2>1, MinimalSubset
<1>4. PICK n \in S : n <= m /\ T = Below(n)
  OBVIOUS
<1>5. ASSUME n # 0, n - 1 \in S PROVE FALSE
  <2>1. n \in T /\ T \ {n} = Below(n - 1)
    BY <1>4, <1>5
  <2>2. T \ {n} \in F
    BY <1>4, <1>5, <2>1
  <2> QED
    BY <1>3, <2>1, <2>2
<1> QED
  BY <1>5

(* Min of numbers is the least of them.                                    *)
LEMMA LeastMember ==
  ASSUME NEW S \in SUBSET Nat, S # {}
  PROVE  Min(S) \in S /\ \A n \in S : Min(S) <= n
<1> DEFINE T == {n \in Nat : \E k \in S : k <= n}
<1>1. PICK n \in T : n = 0 \/ n - 1 \notin T
  <2>1. S \subseteq T
    OBVIOUS
  <2>2. T \in SUBSET Nat /\ T # {}
    BY <2>1
  <2> HIDE DEF T
  <2> QED
    BY <2>2, FirstNumber
<1>2. \A k \in S : n <= k
  <2> SUFFICES ASSUME NEW k \in S, k < n PROVE FALSE
    OBVIOUS
  <2>1. n - 1 \in Nat /\ k <= n - 1
    OBVIOUS
  <2> QED
    BY <1>1, <2>1
<1>3. n \in S
  <2>1. PICK k \in S : k <= n
    OBVIOUS
  <2> QED
    BY <1>2, <2>1
<1>4. \E x \in S : \A y \in S : x <= y
  BY <1>2, <1>3
<1> QED
  BY <1>4 DEF Min

(* Max of numbers that are bounded is the greatest of them.                *)
LEMMA GreatestMember ==
  ASSUME NEW m \in Nat, NEW S \in SUBSET (1..m), S # {}
  PROVE  Max(S) \in S /\ \A n \in S : n <= Max(S)
<1> DEFINE T == {n \in Nat : \A k \in S : k <= n}
<1>1. PICK n \in T : n = 0 \/ n - 1 \notin T
  <2>1. T \in SUBSET Nat /\ m \in T
    OBVIOUS
  <2> HIDE DEF T
  <2> QED
    BY <2>1, FirstNumber
<1>2. n \in S
  <2> SUFFICES ASSUME n \notin S PROVE FALSE
    OBVIOUS
  <2>1. \A k \in S : k \in Nat /\ 1 <= k /\ k <= n /\ k # n
    OBVIOUS
  <2>2. n - 1 \in Nat
    <3>1. PICK k \in S : TRUE
      OBVIOUS
    <3> QED
      BY <2>1, <3>1
  <2>3. \A k \in S : k <= n - 1
    BY <2>1, <2>2
  <2> QED
    BY <1>1, <2>1, <2>2, <2>3
<1>3. \E x \in S : \A y \in S : x >= y
  BY <1>2
<1>4. Max(S) \in S /\ \A y \in S : Max(S) >= y
  BY <1>3 DEF Max
<1> QED
  BY <1>4

(* The element that the definition of the sum takes out first.             *)
Pick(S) == CHOOSE x \in S : TRUE

(* g gives every subset of S its sum.                                      *)
IsPartialSums(f, S, g) ==
  g = [T \in SUBSET S |-> IF T = {} THEN 0 ELSE f[Pick(T)] + g[T \ {Pick(T)}]]

(* The sum is defined by a function from the subsets to their sums.        *)
LEMMA SumUnfold ==
  ASSUME NEW f, NEW S
  PROVE  SumFunctionOnSet(f, S) = (CHOOSE g : IsPartialSums(f, S, g))[S]
BY DEF SumFunctionOnSet, FoldFunctionOnSet, MapThenFoldSet, IsPartialSums, Pick

(* Two such functions agree on the sets that both are defined on.          *)
LEMMA SumsAgree ==
  ASSUME NEW f, NEW S, IsFiniteSet(S), NEW R, NEW T, NEW g, NEW h,
         S \subseteq R, S \subseteq T, IsPartialSums(f, R, g), IsPartialSums(f, T, h)
  PROVE  g[S] = h[S]
<1> DEFINE F == {U \in SUBSET S : g[U] # h[U]}
<1> SUFFICES ASSUME F # {} PROVE FALSE
  OBVIOUS
<1>1. PICK U \in F : \A x \in U : U \ {x} \notin F
  <2> HIDE DEF F
  <2>1. F \subseteq SUBSET S
    BY DEF F
  <2> QED
    BY <2>1, MinimalSubset
<1>2. U \in SUBSET R /\ U \in SUBSET T
  OBVIOUS
<1>3. CASE U = {}
  BY <1>1, <1>2, <1>3 DEF IsPartialSums
<1>4. CASE U # {}
  <2>1. Pick(U) \in U
    BY <1>4 DEF Pick
  <2>2. g[U \ {Pick(U)}] = h[U \ {Pick(U)}]
    BY <1>1, <2>1
  <2>3. g[U] = f[Pick(U)] + g[U \ {Pick(U)}]
    BY <1>2, <1>4 DEF IsPartialSums
  <2>4. h[U] = f[Pick(U)] + h[U \ {Pick(U)}]
    BY <1>2, <1>4 DEF IsPartialSums
  <2> QED
    BY <1>1, <2>2, <2>3, <2>4
<1> QED
  BY <1>3, <1>4

(* Over a finite set there is such a function.                             *)
LEMMA SumsExist ==
  ASSUME NEW f, NEW S, IsFiniteSet(S)
  PROVE  \E g : IsPartialSums(f, S, g)
<1> DEFINE F == {T \in SUBSET S : ~ \E g : IsPartialSums(f, T, g)}
<1> SUFFICES ASSUME F # {} PROVE FALSE
  BY DEF F
<1>1. PICK T \in F : \A x \in T : T \ {x} \notin F
  <2>1. F \subseteq SUBSET S
    OBVIOUS
  <2> HIDE DEF F
  <2> QED
    BY <2>1, MinimalSubset
<1> DEFINE G(x) == CHOOSE g : IsPartialSums(f, T \ {x}, g)
           Out(U) == CHOOSE x \in T : x \notin U
           Low(U) == G(Out(U))[U]
           k == [U \in SUBSET T |-> IF U = {} THEN 0
                   ELSE f[Pick(U)] + Low(U \ {Pick(U)})]
<1>2. \A x \in T : IsPartialSums(f, T \ {x}, G(x))
  <2> SUFFICES ASSUME NEW x \in T PROVE IsPartialSums(f, T \ {x}, G(x))
    OBVIOUS
  <2>1. \E g : IsPartialSums(f, T \ {x}, g)
    BY <1>1
  <2> QED
    BY <2>1
<1>3. ASSUME NEW U \in SUBSET T, U # T PROVE k[U] = Low(U)
  <2>1. Out(U) \in T /\ Out(U) \notin U
    BY <1>3
  <2>2. IsPartialSums(f, T \ {Out(U)}, G(Out(U)))
    BY <1>2, <2>1
  <2>3. U \in SUBSET (T \ {Out(U)})
    BY <2>1
  <2>4. CASE U = {}
    BY <2>2, <2>3, <2>4 DEF IsPartialSums
  <2>5. CASE U # {}
    <3> DEFINE V == U \ {Pick(U)}
    <3>1. Pick(U) \in U
      BY <2>5 DEF Pick
    <3>2. V \in SUBSET T /\ V # T
      BY <3>1
    <3>3. Out(V) \in T /\ Out(V) \notin V
      BY <3>2
    <3>4. IsPartialSums(f, T \ {Out(V)}, G(Out(V)))
      BY <1>2, <3>3
    <3>5. V \subseteq T \ {Out(V)} /\ V \subseteq T \ {Out(U)}
      BY <2>3, <3>3
    <3>6. IsFiniteSet(V)
      BY FS_Subset
    <3>7. G(Out(V))[V] = G(Out(U))[V]
      <4> HIDE DEF V, G, Out
      <4> QED
        BY <2>2, <3>4, <3>5, <3>6, SumsAgree
    <3>8. Low(U) = f[Pick(U)] + G(Out(U))[V]
      <4> DEFINE X == T \ {Out(U)}
                 g == G(Out(U))
      <4>1. IsPartialSums(f, X, g) /\ U \in SUBSET X
        BY <2>2, <2>3
      <4> HIDE DEF X, g
      <4>2. g[U] = f[Pick(U)] + g[V]
        BY <4>1, <2>5 DEF IsPartialSums
      <4> QED
        BY <4>2 DEF g
    <3>9. k[U] = f[Pick(U)] + Low(V)
      BY <2>5
    <3> QED
      BY <3>7, <3>8, <3>9
  <2> QED
    BY <2>4, <2>5
<1>4. \A U \in SUBSET T : U # {} => k[U \ {Pick(U)}] = Low(U \ {Pick(U)})
  <2> SUFFICES ASSUME NEW U \in SUBSET T, U # {}
               PROVE  k[U \ {Pick(U)}] = Low(U \ {Pick(U)})
    OBVIOUS
  <2>1. Pick(U) \in U
    BY DEF Pick
  <2> HIDE DEF k, Low
  <2> QED
    BY <1>3, <2>1
<1>5. IsPartialSums(f, T, k)
  <2>1. \A U \in SUBSET T :
          k[U] = IF U = {} THEN 0 ELSE f[Pick(U)] + k[U \ {Pick(U)}]
    <3> SUFFICES ASSUME NEW U \in SUBSET T
                 PROVE  k[U] = IF U = {} THEN 0
                               ELSE f[Pick(U)] + k[U \ {Pick(U)}]
      OBVIOUS
    <3>1. k[U] = IF U = {} THEN 0 ELSE f[Pick(U)] + Low(U \ {Pick(U)})
      OBVIOUS
    <3> HIDE DEF k, Low
    <3> QED
      BY <1>4, <3>1
  <2>2. k = [U \in SUBSET T |-> k[U]]
    OBVIOUS
  <2> HIDE DEF k
  <2>3. [U \in SUBSET T |-> k[U]] =
          [U \in SUBSET T |->
             IF U = {} THEN 0 ELSE f[Pick(U)] + k[U \ {Pick(U)}]]
    BY <2>1
  <2> QED
    BY <2>2, <2>3 DEF IsPartialSums
<1> QED
  BY <1>1, <1>5

(* Its values are the sums.                                                *)
LEMMA SumIsSums ==
  ASSUME NEW f, NEW S, IsFiniteSet(S), NEW g, IsPartialSums(f, S, g),
         NEW T \in SUBSET S
  PROVE  SumFunctionOnSet(f, T) = g[T]
<1>1. IsFiniteSet(T)
  BY FS_Subset
<1> DEFINE h == CHOOSE e : IsPartialSums(f, T, e)
<1>2. IsPartialSums(f, T, h)
  BY <1>1, SumsExist
<1>3. SumFunctionOnSet(f, T) = h[T]
  BY SumUnfold
<1> HIDE DEF h
<1> QED
  BY <1>1, <1>2, <1>3, SumsAgree

(* The sum of nothing is 0.                                                *)
LEMMA SumEmpty ==
  ASSUME NEW f
  PROVE  SumFunctionOnSet(f, {}) = 0
<1>1. IsFiniteSet({})
  BY FS_EmptySet
<1>2. PICK g : IsPartialSums(f, {}, g)
  BY <1>1, SumsExist
<1>3. g[{}] = 0
  BY <1>2 DEF IsPartialSums
<1> QED
  BY <1>1, <1>2, <1>3, SumIsSums

(* A sum is that of one index and of the others.                           *)
LEMMA SumPick ==
  ASSUME NEW f, NEW S, IsFiniteSet(S), S # {}
  PROVE  /\ Pick(S) \in S
         /\ SumFunctionOnSet(f, S) =
              f[Pick(S)] + SumFunctionOnSet(f, S \ {Pick(S)})
<1>1. PICK g : IsPartialSums(f, S, g)
  BY SumsExist
<1>2. g[S] = f[Pick(S)] + g[S \ {Pick(S)}]
  BY <1>1 DEF IsPartialSums
<1> QED
  BY <1>1, <1>2, SumIsSums DEF Pick

(* A sum of integers is an integer.                                        *)
LEMMA SumType ==
  ASSUME NEW f, NEW S, IsFiniteSet(S), \A x \in S : f[x] \in Int
  PROVE  SumFunctionOnSet(f, S) \in Int
<1> DEFINE F == {T \in SUBSET S : SumFunctionOnSet(f, T) \notin Int}
<1> SUFFICES ASSUME F # {} PROVE FALSE
  OBVIOUS
<1>1. PICK T \in F : \A x \in T : T \ {x} \notin F
  <2>1. F \subseteq SUBSET S
    OBVIOUS
  <2> HIDE DEF F
  <2> QED
    BY <2>1, MinimalSubset
<1>2. T # {}
  BY <1>1, SumEmpty
<1>3. IsFiniteSet(T)
  BY FS_Subset
<1>4. /\ Pick(T) \in T
      /\ SumFunctionOnSet(f, T) =
           f[Pick(T)] + SumFunctionOnSet(f, T \ {Pick(T)})
  BY <1>2, <1>3, SumPick
<1>5. SumFunctionOnSet(f, T \ {Pick(T)}) \in Int
  BY <1>1, <1>4
<1> QED
  BY <1>1, <1>4, <1>5

(* Which index is taken out first does not matter.                         *)
LEMMA SumRemove ==
  ASSUME NEW f, NEW S, IsFiniteSet(S), \A x \in S : f[x] \in Int, NEW x \in S
  PROVE  SumFunctionOnSet(f, S) = f[x] + SumFunctionOnSet(f, S \ {x})
<1> DEFINE F == {T \in SUBSET S : \E y \in T :
                   SumFunctionOnSet(f, T) #
                     f[y] + SumFunctionOnSet(f, T \ {y})}
<1> SUFFICES ASSUME F # {} PROVE FALSE
  OBVIOUS
<1>1. PICK T \in F : \A y \in T : T \ {y} \notin F
  <2>1. F \subseteq SUBSET S
    OBVIOUS
  <2> HIDE DEF F
  <2> QED
    BY <2>1, MinimalSubset
<1>2. PICK y \in T : SumFunctionOnSet(f, T) #
                       f[y] + SumFunctionOnSet(f, T \ {y})
  BY <1>1
<1>3. \A U \in SUBSET S : IsFiniteSet(U) /\ SumFunctionOnSet(f, U) \in Int
  BY FS_Subset, SumType
<1> DEFINE z == Pick(T)
<1>4. z \in T /\ SumFunctionOnSet(f, T) = f[z] + SumFunctionOnSet(f, T \ {z})
  BY <1>2, <1>3, SumPick
<1> HIDE DEF z
<1>5. y # z
  BY <1>2, <1>4
<1>6. SumFunctionOnSet(f, T \ {z}) =
        f[y] + SumFunctionOnSet(f, (T \ {z}) \ {y})
  BY <1>1, <1>4, <1>5
<1>7. SumFunctionOnSet(f, T \ {y}) =
        f[z] + SumFunctionOnSet(f, (T \ {y}) \ {z})
  BY <1>1, <1>4, <1>5
<1>8. (T \ {y}) \ {z} = (T \ {z}) \ {y}
  OBVIOUS
<1>9. SumFunctionOnSet(f, (T \ {y}) \ {z}) \in Int
  BY <1>3
<1>10. f[y] \in Int /\ f[z] \in Int
  BY <1>4
<1> QED
  BY <1>2, <1>4, <1>6, <1>7, <1>8, <1>9, <1>10

(* The values of a function on a finite set are finitely many.             *)
LEMMA FiniteImage ==
  ASSUME NEW S, IsFiniteSet(S), NEW m
  PROVE  IsFiniteSet({m[x] : x \in S})
<1> DEFINE T == {m[x] : x \in S}
           e == [x \in S |-> m[x]]
<1>1. e \in Surjection(S, T)
  BY DEF Surjection
<1> HIDE DEF e, T
<1>2. IsFiniteSet(T)
  BY <1>1, FS_Surjection
<1> QED
  BY <1>2 DEF T

(* Functions that agree on a set have the same sum over it.                *)
LEMMA SumEqual ==
  ASSUME NEW f, NEW g, NEW S, IsFiniteSet(S), \A x \in S : f[x] = g[x]
  PROVE  SumFunctionOnSet(f, S) = SumFunctionOnSet(g, S)
<1> DEFINE F == {T \in SUBSET S :
                   SumFunctionOnSet(f, T) # SumFunctionOnSet(g, T)}
<1> SUFFICES ASSUME F # {} PROVE FALSE
  OBVIOUS
<1>1. PICK T \in F : \A x \in T : T \ {x} \notin F
  <2>1. F \subseteq SUBSET S
    OBVIOUS
  <2> HIDE DEF F
  <2> QED
    BY <2>1, MinimalSubset
<1>2. T # {}
  BY <1>1, SumEmpty
<1>3. IsFiniteSet(T)
  BY FS_Subset
<1> DEFINE z == Pick(T)
<1>4. /\ z \in T
      /\ SumFunctionOnSet(f, T) = f[z] + SumFunctionOnSet(f, T \ {z})
      /\ SumFunctionOnSet(g, T) = g[z] + SumFunctionOnSet(g, T \ {z})
  BY <1>2, <1>3, SumPick
<1> HIDE DEF z
<1>5. SumFunctionOnSet(f, T \ {z}) = SumFunctionOnSet(g, T \ {z})
  BY <1>1, <1>4
<1> QED
  BY <1>1, <1>4, <1>5

(* A sum is that of a part and of the rest.                                *)
LEMMA SumUnion ==
  ASSUME NEW f, NEW S, IsFiniteSet(S), \A x \in S : f[x] \in Int,
         NEW T \in SUBSET S
  PROVE  SumFunctionOnSet(f, S) =
           SumFunctionOnSet(f, T) + SumFunctionOnSet(f, S \ T)
<1> DEFINE F == {U \in SUBSET T : SumFunctionOnSet(f, (S \ T) \cup U) #
                   SumFunctionOnSet(f, U) + SumFunctionOnSet(f, S \ T)}
<1>1. ASSUME F # {} PROVE FALSE
  <2>1. PICK U \in F : \A x \in U : U \ {x} \notin F
    <3>1. F \subseteq SUBSET T /\ IsFiniteSet(T)
      BY FS_Subset
    <3> HIDE DEF F
    <3> QED
      BY <1>1, <3>1, MinimalSubset
  <2>2. \A V \in SUBSET S : IsFiniteSet(V) /\ SumFunctionOnSet(f, V) \in Int
    BY FS_Subset, SumType
  <2>3. U # {}
    <3> SUFFICES ASSUME U = {} PROVE FALSE
      OBVIOUS
    <3>1. (S \ T) \cup U = S \ T /\ SumFunctionOnSet(f, U) = 0
      BY SumEmpty
    <3>2. SumFunctionOnSet(f, S \ T) \in Int
      BY <2>2
    <3> QED
      BY <2>1, <3>1, <3>2
  <2>4. PICK x \in U : TRUE
    BY <2>3
  <2> DEFINE V == U \ {x}
  <2>5. SumFunctionOnSet(f, (S \ T) \cup V) =
          SumFunctionOnSet(f, V) + SumFunctionOnSet(f, S \ T)
    BY <2>1
  <2>6. SumFunctionOnSet(f, U) = f[x] + SumFunctionOnSet(f, V)
    BY <2>2, SumRemove
  <2>7. SumFunctionOnSet(f, (S \ T) \cup U) =
          f[x] + SumFunctionOnSet(f, (S \ T) \cup V)
    <3>1. ((S \ T) \cup U) \ {x} = (S \ T) \cup V
      OBVIOUS
    <3>2. (S \ T) \cup U \in SUBSET S /\ x \in (S \ T) \cup U
      OBVIOUS
    <3>3. IsFiniteSet((S \ T) \cup U)
      BY <2>2, <3>2
    <3> HIDE DEF V
    <3> QED
      BY <3>1, <3>2, <3>3, SumRemove
  <2>8. /\ f[x] \in Int
        /\ SumFunctionOnSet(f, V) \in Int
        /\ SumFunctionOnSet(f, S \ T) \in Int
    BY <2>2
  <2> HIDE DEF V
  <2> QED
    BY <2>1, <2>5, <2>6, <2>7, <2>8
<1>2. T \in SUBSET T /\ (S \ T) \cup T = S
  OBVIOUS
<1> QED
  BY <1>1, <1>2

(* The sum over groups of the groups' sums is the sum.                     *)
LEMMA SumOfGroups ==
  ASSUME NEW f, NEW S, IsFiniteSet(S), \A x \in S : f[x] \in Int,
         NEW K, IsFiniteSet(K), NEW c, \A x \in S : c[x] \in K
  PROVE  SumFunctionOnSet(
             [k \in K |-> SumFunctionOnSet(f, {x \in S : c[x] = k})], K)
           = SumFunctionOnSet(f, S)
<1> DEFINE In(k) == {x \in S : c[x] = k}
           On(L) == {x \in S : c[x] \in L}
           h == [k \in K |-> SumFunctionOnSet(f, In(k))]
           F == {L \in SUBSET K :
                   SumFunctionOnSet(h, L) # SumFunctionOnSet(f, On(L))}
<1>1. ASSUME F # {} PROVE FALSE
  <2>1. PICK L \in F : \A k \in L : L \ {k} \notin F
    <3>1. F \subseteq SUBSET K
      OBVIOUS
    <3> HIDE DEF F
    <3> QED
      BY <1>1, <3>1, MinimalSubset
  <2>2. \A V \in SUBSET S : IsFiniteSet(V) /\ SumFunctionOnSet(f, V) \in Int
    BY FS_Subset, SumType
  <2>3. L # {}
    <3>1. On({}) = {}
      OBVIOUS
    <3> QED
      BY <2>1, <3>1, SumEmpty
  <2>4. PICK k \in L : TRUE
    BY <2>3
  <2> DEFINE M == L \ {k}
  <2>5. SumFunctionOnSet(h, M) = SumFunctionOnSet(f, On(M))
    BY <2>1
  <2>6. \A j \in K : h[j] \in Int
    <3>1. \A j \in K : In(j) \in SUBSET S
      OBVIOUS
    <3> QED
      BY <2>2, <3>1
  <2>7. SumFunctionOnSet(h, L) = h[k] + SumFunctionOnSet(h, M)
    <3>1. IsFiniteSet(L)
      BY FS_Subset
    <3> HIDE DEF h
    <3> QED
      BY <2>6, <3>1, SumRemove
  <2>8. SumFunctionOnSet(f, On(L)) =
          SumFunctionOnSet(f, In(k)) + SumFunctionOnSet(f, On(M))
    <3>1. /\ On(L) \in SUBSET S
          /\ In(k) \in SUBSET On(L)
          /\ On(L) \ In(k) = On(M)
      OBVIOUS
    <3>2. IsFiniteSet(On(L)) /\ \A x \in On(L) : f[x] \in Int
      BY <2>2, <3>1
    <3>3. \A A, B \in SUBSET S :
            IsFiniteSet(A) /\ B \subseteq A =>
              SumFunctionOnSet(f, A) =
                SumFunctionOnSet(f, B) + SumFunctionOnSet(f, A \ B)
      BY SumUnion
    <3> HIDE DEF On, In
    <3> QED
      BY <3>1, <3>2, <3>3
  <2>9. h[k] = SumFunctionOnSet(f, In(k))
    OBVIOUS
  <2> HIDE DEF M, h, In, On
  <2> QED
    BY <2>1, <2>5, <2>7, <2>8, <2>9
<1>2. K \in SUBSET K /\ On(K) = S
  OBVIOUS
<1> QED
  BY <1>1, <1>2

(* A sum does not depend on how its indices are named.                     *)
LEMMA SumRenamed ==
  ASSUME NEW f, NEW S, IsFiniteSet(S), NEW g, NEW T, NEW m,
         \A x \in S : m[x] \in T /\ g[m[x]] = f[x],
         \A x, y \in S : m[x] = m[y] => x = y,
         \A y \in T : \E x \in S : m[x] = y,
         \A x \in S : f[x] \in Int
  PROVE  SumFunctionOnSet(g, T) = SumFunctionOnSet(f, S)
<1> DEFINE Im(U) == {m[x] : x \in U}
           F == {U \in SUBSET S :
                   SumFunctionOnSet(g, Im(U)) # SumFunctionOnSet(f, U)}
<1>1. ASSUME F # {} PROVE FALSE
  <2>1. PICK U \in F : \A x \in U : U \ {x} \notin F
    <3>1. F \subseteq SUBSET S
      OBVIOUS
    <3> HIDE DEF F
    <3> QED
      BY <1>1, <3>1, MinimalSubset
  <2>2. IsFiniteSet(U) /\ IsFiniteSet(Im(U))
    BY FS_Subset, FiniteImage
  <2>3. U # {}
    <3>1. Im({}) = {}
      OBVIOUS
    <3> QED
      BY <2>1, <3>1, SumEmpty
  <2>4. PICK x \in U : TRUE
    BY <2>3
  <2>5. SumFunctionOnSet(f, U) = f[x] + SumFunctionOnSet(f, U \ {x})
    BY <2>2, SumRemove
  <2>6. SumFunctionOnSet(g, Im(U)) =
          g[m[x]] + SumFunctionOnSet(g, Im(U) \ {m[x]})
    <3>1. m[x] \in Im(U) /\ \A y \in Im(U) : g[y] \in Int
      OBVIOUS
    <3> HIDE DEF Im
    <3> QED
      BY <2>2, <3>1, SumRemove
  <2>7. Im(U) \ {m[x]} = Im(U \ {x})
    OBVIOUS
  <2>8. SumFunctionOnSet(g, Im(U \ {x})) = SumFunctionOnSet(f, U \ {x})
    BY <2>1
  <2> HIDE DEF Im
  <2> QED
    BY <2>1, <2>5, <2>6, <2>7, <2>8
<1>2. S \in SUBSET S /\ Im(S) = T
  OBVIOUS
<1> QED
  BY <1>1, <1>2
=============================================================================
