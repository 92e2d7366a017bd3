----------------------------- MODULE FiniteSums -----------------------------
(***************************************************************************)
(* What the proofs about money and counts need to know of the community    *)
(* modules' SumFunctionOnSet(f, S), the sum of f[x] over the finite set S. *)
(* It is a fold: a recursive function on the subsets of S that takes one   *)
(* element, whichever CHOOSE names, off at a time.                         *)
(***************************************************************************)
EXTENDS FiniteSetTheorems, Functions, TLAPS

\* Induction on the subsets of a finite set: a collection that holds a subset
\* whenever it holds all the smaller ones holds them all.
LEMMA SmallerFirst ==
    ASSUME NEW S, IsFiniteSet(S), NEW T \in SUBSET (SUBSET S),
           \A U \in SUBSET S : ((SUBSET U) \ {U} \subseteq T) => U \in T
    PROVE  T = SUBSET S
PROOF
<1> DEFINE Rest == (SUBSET S) \ T
<1> SUFFICES ASSUME Rest # {} PROVE FALSE
  OBVIOUS
<1>1. IsWellFoundedOn(StrictSubsetOrdering(S), SUBSET S)
  <2>1. IsWellFoundedOn(StrictSubsetOrdering(S), FiniteSubsetsOf(S))
    BY FS_StrictSubsetOrderingWellFounded
  <2> QED
    BY <2>1, FS_FiniteSubsetsOfFinite
<1>2. PICK U \in Rest : \A V \in Rest : <<V, U>> \notin StrictSubsetOrdering(S)
  <2>1. Rest \subseteq SUBSET S
    OBVIOUS
  <2> HIDE DEF Rest
  <2> QED
    BY <1>1, <2>1, WFMin
<1>3. (SUBSET U) \ {U} \subseteq T
  BY <1>2 DEF StrictSubsetOrdering
<1> QED
  BY <1>2, <1>3

-----------------------------------------------------------------------------
(* The sum satisfies the equation it is defined by.                        *)

First(S) == CHOOSE x \in S : TRUE

IsSum(it, f, S) ==
    it = [s \in SUBSET S |-> IF s = {} THEN 0 ELSE f[First(s)] + it[s \ {First(s)}]]

LEMMA SumIsChosen ==
    ASSUME NEW f, NEW S
    PROVE  SumFunctionOnSet(f, S) = (CHOOSE it : IsSum(it, f, S))[S]
BY DEF SumFunctionOnSet, FoldFunctionOnSet, MapThenFoldSet, IsSum, First

LEMMA FirstIsIn == ASSUME NEW S, S # {} PROVE First(S) \in S
BY DEF First

LEMMA SumsAgree ==
    ASSUME NEW S, IsFiniteSet(S), NEW W, S \subseteq W, NEW f, NEW g, NEW h,
           IsSum(g, f, S), IsSum(h, f, W)
    PROVE  g[S] = h[S]
PROOF
<1> DEFINE T == {s \in SUBSET S : g[s] = h[s]}
<1>1. ASSUME NEW U \in SUBSET S, (SUBSET U) \ {U} \subseteq T PROVE U \in T
  <2>1. CASE U = {}
    BY <2>1 DEF IsSum
  <2>2. CASE U # {}
    <3>1. U \ {First(U)} \in T
      BY <1>1, <2>2, FirstIsIn
    <3>2. g[U \ {First(U)}] = h[U \ {First(U)}]
      BY <3>1
    <3>3. /\ g[U] = f[First(U)] + g[U \ {First(U)}]
          /\ h[U] = f[First(U)] + h[U \ {First(U)}]
      BY <2>2 DEF IsSum
    <3> QED
      BY <3>2, <3>3
  <2> QED
    BY <2>1, <2>2
<1>2. T = SUBSET S
  <2> HIDE DEF T
  <2>1. T \in SUBSET (SUBSET S)
    BY DEF T
  <2> QED
    BY <1>1, <2>1, SmallerFirst
<1> QED
  BY <1>2

LEMMA SumExists ==
    ASSUME NEW S, IsFiniteSet(S), NEW f
    PROVE  \E it : IsSum(it, f, S)
PROOF
<1> DEFINE T == {s \in SUBSET S : \E it : IsSum(it, f, s)}
           Value(s) == SumFunctionOnSet(f, s)
<1>1. ASSUME NEW U \in SUBSET S, (SUBSET U) \ {U} \subseteq T PROVE U \in T
  <2> DEFINE it == [s \in SUBSET U |->
                      IF s = {} THEN 0 ELSE f[First(s)] + Value(s \ {First(s)})]
             its(s) == CHOOSE i : IsSum(i, f, s)
  <2>1. ASSUME NEW s \in SUBSET U, s # U PROVE IsSum(its(s), f, s)
    <3>1. \E i : IsSum(i, f, s)
      BY <1>1, <2>1
    <3> QED
      BY <3>1
  <2>2. ASSUME NEW s \in SUBSET U, s # U, s # {}
        PROVE  Value(s) = f[First(s)] + Value(s \ {First(s)})
    <3> DEFINE r == s \ {First(s)}
    <3>1. r \in SUBSET U /\ r # U /\ r \subseteq s /\ IsFiniteSet(r)
      BY <2>2, FirstIsIn, FS_Subset
    <3>2. IsSum(its(s), f, s) /\ IsSum(its(r), f, r)
      BY <2>1, <2>2, <3>1
    <3>3. its(r)[r] = its(s)[r]
      <4> HIDE DEF its, r
      <4> QED
        BY <3>1, <3>2, SumsAgree
    <3>4. its(s)[s] = f[First(s)] + its(s)[r]
      <4> HIDE DEF its
      <4> QED
        BY <2>2, <3>2 DEF IsSum
    <3>5. Value(s) = its(s)[s] /\ Value(r) = its(r)[r]
      BY SumIsChosen
    <3> QED
      BY <3>3, <3>4, <3>5
  <2>3. Value({}) = 0
    <3>1. IsSum([s \in SUBSET {} |-> 0], f, {})
      BY DEF IsSum
    <3>2. IsSum(its({}), f, {})
      BY <3>1
    <3>3. its({})[{}] = 0
      <4> HIDE DEF its
      <4> QED
        BY <3>2 DEF IsSum
    <3> QED
      BY <3>3, SumIsChosen
  <2>4. ASSUME NEW s \in SUBSET U, s # {}
        PROVE  it[s] = f[First(s)] + it[s \ {First(s)}]
    <3>1. s \ {First(s)} \in SUBSET U /\ s \ {First(s)} # U
      BY <2>4, FirstIsIn
    <3>2. it[s \ {First(s)}] = Value(s \ {First(s)})
      <4> HIDE DEF Value
      <4> QED
        BY <2>2, <2>3, <3>1
    <3> QED
      BY <2>4, <3>2
  <2>5. IsSum(it, f, U)
    <3>1. it = [s \in SUBSET U |-> it[s]]
      OBVIOUS
    <3>2. it[{}] = 0
      OBVIOUS
    <3> HIDE DEF it
    <3> QED
      BY <2>4, <3>1, <3>2 DEF IsSum
  <2> QED
    BY <2>5
<1>2. T = SUBSET S
  <2> HIDE DEF T
  <2>1. T \in SUBSET (SUBSET S)
    BY DEF T
  <2> QED
    BY <1>1, <2>1, SmallerFirst
<1> QED
  BY <1>2

LEMMA SumOfNone == ASSUME NEW f PROVE SumFunctionOnSet(f, {}) = 0
PROOF
<1>1. PICK it : IsSum(it, f, {})
  BY SumExists, FS_EmptySet
<1>2. IsSum(CHOOSE i : IsSum(i, f, {}), f, {})
  BY <1>1
<1> QED
  BY <1>2, SumIsChosen DEF IsSum

LEMMA SumByFirst ==
    ASSUME NEW S, IsFiniteSet(S), S # {}, NEW f
    PROVE  SumFunctionOnSet(f, S) = f[First(S)] + SumFunctionOnSet(f, S \ {First(S)})
PROOF
<1> DEFINE r == S \ {First(S)}
           its(s) == CHOOSE i : IsSum(i, f, s)
<1>1. r \subseteq S /\ IsFiniteSet(r)
  BY FS_Subset
<1>2. IsSum(its(S), f, S) /\ IsSum(its(r), f, r)
  <2>1. (\E i : IsSum(i, f, S)) /\ \E i : IsSum(i, f, r)
    BY <1>1, SumExists
  <2> QED
    BY <2>1
<1>3. SumFunctionOnSet(f, S) = its(S)[S] /\ SumFunctionOnSet(f, r) = its(r)[r]
  BY SumIsChosen
<1> HIDE DEF its
<1>4. its(r)[r] = its(S)[r]
  <2> HIDE DEF r
  <2> QED
    BY <1>1, <1>2, SumsAgree
<1>5. its(S)[S] = f[First(S)] + its(S)[r]
  BY <1>2 DEF IsSum
<1> QED
  BY <1>3, <1>4, <1>5

-----------------------------------------------------------------------------
(* Sums of integers, whatever the order the elements are taken in.          *)

\* A sum of integers is an integer, a sum of naturals a natural number.
LEMMA SumType ==
    ASSUME NEW S, IsFiniteSet(S), NEW N \in {Nat, Int}, NEW f, \A x \in S : f[x] \in N
    PROVE  SumFunctionOnSet(f, S) \in N
PROOF
<1> DEFINE T == {s \in SUBSET S : SumFunctionOnSet(f, s) \in N}
<1>1. ASSUME NEW U \in SUBSET S, (SUBSET U) \ {U} \subseteq T PROVE U \in T
  <2>1. CASE U = {}
    BY <2>1, SumOfNone
  <2>2. CASE U # {}
    <3>1. First(U) \in U /\ IsFiniteSet(U) /\ U \ {First(U)} \in T
      BY <1>1, <2>2, FirstIsIn, FS_Subset
    <3>2. SumFunctionOnSet(f, U) = f[First(U)] + SumFunctionOnSet(f, U \ {First(U)})
      BY <2>2, <3>1, SumByFirst
    <3>3. f[First(U)] \in N /\ SumFunctionOnSet(f, U \ {First(U)}) \in N
      BY <3>1
    <3> QED
      BY <3>2, <3>3
  <2> QED
    BY <2>1, <2>2
<1>2. T = SUBSET S
  <2> HIDE DEF T
  <2>1. T \in SUBSET (SUBSET S)
    BY DEF T
  <2> QED
    BY <1>1, <2>1, SmallerFirst
<1> QED
  BY <1>2

\* Any element can be taken out first.
LEMMA SumByElement ==
    ASSUME NEW S, IsFiniteSet(S), NEW f, \A x \in S : f[x] \in Int, NEW e \in S
    PROVE  SumFunctionOnSet(f, S) = f[e] + SumFunctionOnSet(f, S \ {e})
PROOF
<1> DEFINE Sum(s) == SumFunctionOnSet(f, s)
           T == {s \in SUBSET S : \A x \in s : Sum(s) = f[x] + Sum(s \ {x})}
<1>1. ASSUME NEW U \in SUBSET S, (SUBSET U) \ {U} \subseteq T PROVE U \in T
  <2> SUFFICES ASSUME NEW x \in U PROVE Sum(U) = f[x] + Sum(U \ {x})
    OBVIOUS
  <2> DEFINE c == First(U)
  <2>1. c \in U /\ IsFiniteSet(U)
    BY FirstIsIn, FS_Subset
  <2>2. Sum(U) = f[c] + Sum(U \ {c})
    BY <2>1, SumByFirst
  <2>3. CASE x = c
    BY <2>2, <2>3
  <2>4. CASE x # c
    <3> HIDE DEF c
    <3>1. /\ U \ {c} \in T /\ x \in U \ {c}
          /\ U \ {x} \in T /\ c \in U \ {x}
      BY <1>1, <2>1, <2>4
    <3> DEFINE r == (U \ {c}) \ {x}
    <3>2. Sum(U \ {c}) = f[x] + Sum(r)
      BY <3>1
    <3>3. Sum(U \ {x}) = f[c] + Sum(r)
      <4>1. Sum(U \ {x}) = f[c] + Sum((U \ {x}) \ {c})
        BY <3>1
      <4>2. (U \ {x}) \ {c} = r
        OBVIOUS
      <4> QED
        BY <4>1, <4>2
    <3>4. f[x] \in Int /\ f[c] \in Int /\ Sum(r) \in Int
      <4>1. IsFiniteSet(r) /\ r \subseteq S
        BY <2>1, FS_Subset
      <4> HIDE DEF r
      <4> QED
        BY <2>1, <4>1, SumType
    <3> HIDE DEF Sum, r
    <3>5. Sum(U) = f[x] + Sum(U \ {x})
      BY <2>2, <3>2, <3>3, <3>4
    <3> QED
      BY <3>5
  <2> QED
    BY <2>3, <2>4
<1>2. T = SUBSET S
  <2> HIDE DEF T
  <2>1. T \in SUBSET (SUBSET S)
    BY DEF T
  <2> QED
    BY <1>1, <2>1, SmallerFirst
<1> HIDE DEF Sum
<1>3. \A x \in S : Sum(S) = f[x] + Sum(S \ {x})
  BY <1>2
<1> QED
  BY <1>3 DEF Sum

\* One more element adds its value.
LEMMA SumAdd ==
    ASSUME NEW S, IsFiniteSet(S), NEW e, e \notin S,
           NEW f, \A x \in S \cup {e} : f[x] \in Int
    PROVE  SumFunctionOnSet(f, S \cup {e}) = f[e] + SumFunctionOnSet(f, S)
PROOF
<1>1. IsFiniteSet(S \cup {e}) /\ e \in S \cup {e} /\ (S \cup {e}) \ {e} = S
  BY FS_AddElement
<1>2. SumFunctionOnSet(f, S \cup {e})
          = f[e] + SumFunctionOnSet(f, (S \cup {e}) \ {e})
  BY <1>1, SumByElement
<1> QED
  BY <1>1, <1>2

\* Only the values on the set count.
LEMMA SumSame ==
    ASSUME NEW S, IsFiniteSet(S), NEW f, NEW g, \A x \in S : f[x] = g[x]
    PROVE  SumFunctionOnSet(f, S) = SumFunctionOnSet(g, S)
PROOF
<1> DEFINE T == {s \in SUBSET S : SumFunctionOnSet(f, s) = SumFunctionOnSet(g, s)}
<1>1. ASSUME NEW U \in SUBSET S, (SUBSET U) \ {U} \subseteq T PROVE U \in T
  <2>1. CASE U = {}
    BY <2>1, SumOfNone
  <2>2. CASE U # {}
    <3>1. First(U) \in U /\ IsFiniteSet(U) /\ U \ {First(U)} \in T
      BY <1>1, <2>2, FirstIsIn, FS_Subset
    <3>2. /\ SumFunctionOnSet(f, U) = f[First(U)] + SumFunctionOnSet(f, U \ {First(U)})
          /\ SumFunctionOnSet(g, U) = g[First(U)] + SumFunctionOnSet(g, U \ {First(U)})
      BY <2>2, <3>1, SumByFirst
    <3>3. f[First(U)] = g[First(U)]
      BY <3>1
    <3> QED
      BY <3>1, <3>2, <3>3
  <2> QED
    BY <2>1, <2>2
<1>2. T = SUBSET S
  <2> HIDE DEF T
  <2>1. T \in SUBSET (SUBSET S)
    BY DEF T
  <2> QED
    BY <1>1, <2>1, SmallerFirst
<1> QED
  BY <1>2

\* The sum of termwise larger values is larger.
LEMMA SumMonotone ==
    ASSUME NEW S, IsFiniteSet(S), NEW f, NEW g,
           \A x \in S : f[x] \in Int /\ g[x] \in Int /\ f[x] <= g[x]
    PROVE  SumFunctionOnSet(f, S) <= SumFunctionOnSet(g, S)
PROOF
<1> DEFINE T == {s \in SUBSET S : SumFunctionOnSet(f, s) <= SumFunctionOnSet(g, s)}
<1>1. ASSUME NEW U \in SUBSET S, (SUBSET U) \ {U} \subseteq T PROVE U \in T
  <2>1. CASE U = {}
    BY <2>1, SumOfNone
  <2>2. CASE U # {}
    <3> DEFINE c == First(U)
    <3>1. c \in U /\ IsFiniteSet(U) /\ IsFiniteSet(U \ {c}) /\ U \ {c} \in T
      BY <1>1, <2>2, FirstIsIn, FS_Subset
    <3>2. /\ SumFunctionOnSet(f, U) = f[c] + SumFunctionOnSet(f, U \ {c})
          /\ SumFunctionOnSet(g, U) = g[c] + SumFunctionOnSet(g, U \ {c})
      BY <2>2, <3>1, SumByFirst
    <3>3. /\ f[c] \in Int /\ g[c] \in Int /\ f[c] <= g[c]
          /\ SumFunctionOnSet(f, U \ {c}) \in Int
          /\ SumFunctionOnSet(g, U \ {c}) \in Int
          /\ SumFunctionOnSet(f, U \ {c}) <= SumFunctionOnSet(g, U \ {c})
      BY <3>1, SumType
    <3> HIDE DEF c
    <3> QED
      BY <3>2, <3>3
  <2> QED
    BY <2>1, <2>2
<1>2. T = SUBSET S
  <2> HIDE DEF T
  <2>1. T \in SUBSET (SUBSET S)
    BY DEF T
  <2> QED
    BY <1>1, <2>1, SmallerFirst
<1> QED
  BY <1>2

\* The sum of termwise sums is the sum of the sums.
LEMMA SumPlus ==
    ASSUME NEW S, IsFiniteSet(S), NEW f, NEW g, NEW h,
           \A x \in S : f[x] \in Int /\ g[x] \in Int /\ h[x] = f[x] + g[x]
    PROVE  SumFunctionOnSet(h, S) = SumFunctionOnSet(f, S) + SumFunctionOnSet(g, S)
PROOF
<1> DEFINE F(s) == SumFunctionOnSet(f, s)
           G(s) == SumFunctionOnSet(g, s)
           H(s) == SumFunctionOnSet(h, s)
           T == {s \in SUBSET S : H(s) = F(s) + G(s)}
<1>1. ASSUME NEW U \in SUBSET S, (SUBSET U) \ {U} \subseteq T PROVE U \in T
  <2>1. CASE U = {}
    BY <2>1, SumOfNone
  <2>2. CASE U # {}
    <3> DEFINE c == First(U)
    <3>1. c \in U /\ IsFiniteSet(U) /\ IsFiniteSet(U \ {c}) /\ U \ {c} \in T
      BY <1>1, <2>2, FirstIsIn, FS_Subset
    <3>2. /\ F(U) = f[c] + F(U \ {c})
          /\ G(U) = g[c] + G(U \ {c})
          /\ H(U) = h[c] + H(U \ {c})
      BY <2>2, <3>1, SumByFirst
    <3>3. /\ f[c] \in Int /\ g[c] \in Int /\ h[c] = f[c] + g[c]
          /\ F(U \ {c}) \in Int /\ G(U \ {c}) \in Int
          /\ H(U \ {c}) = F(U \ {c}) + G(U \ {c})
      BY <3>1, SumType
    <3> HIDE DEF c, F, G, H
    <3>4. H(U) = F(U) + G(U)
      BY <3>2, <3>3
    <3> QED
      BY <3>4
  <2> QED
    BY <2>1, <2>2
<1>2. T = SUBSET S
  <2> HIDE DEF T
  <2>1. T \in SUBSET (SUBSET S)
    BY DEF T
  <2> QED
    BY <1>1, <2>1, SmallerFirst
<1> QED
  BY <1>2

-----------------------------------------------------------------------------
(* Sums by group.                                                          *)

\* Values of 0 and 1 count: the sum of ones is the size of the set.
LEMMA SumOfOnes ==
    ASSUME NEW S, IsFiniteSet(S), NEW f, \A x \in S : f[x] = 1
    PROVE  SumFunctionOnSet(f, S) = Cardinality(S)
PROOF
<1> DEFINE T == {s \in SUBSET S : SumFunctionOnSet(f, s) = Cardinality(s)}
<1>1. ASSUME NEW U \in SUBSET S, (SUBSET U) \ {U} \subseteq T PROVE U \in T
  <2>1. CASE U = {}
    BY <2>1, SumOfNone, FS_EmptySet
  <2>2. CASE U # {}
    <3>1. First(U) \in U /\ IsFiniteSet(U) /\ U \ {First(U)} \in T
      BY <1>1, <2>2, FirstIsIn, FS_Subset
    <3>2. SumFunctionOnSet(f, U) = f[First(U)] + SumFunctionOnSet(f, U \ {First(U)})
      BY <2>2, <3>1, SumByFirst
    <3>3. /\ Cardinality(U \ {First(U)}) = Cardinality(U) - 1
          /\ Cardinality(U) \in Nat
      BY <3>1, FS_RemoveElement, FS_CardinalityType
    <3> QED
      BY <3>1, <3>2, <3>3
  <2> QED
    BY <2>1, <2>2
<1>2. T = SUBSET S
  <2> HIDE DEF T
  <2>1. T \in SUBSET (SUBSET S)
    BY DEF T
  <2> QED
    BY <1>1, <2>1, SmallerFirst
<1> QED
  BY <1>2

\* Two sets without a common element.
LEMMA SumUnion ==
    ASSUME NEW S, IsFiniteSet(S), NEW R, IsFiniteSet(R), S \cap R = {},
           NEW f, \A x \in S \cup R : f[x] \in Int
    PROVE  SumFunctionOnSet(f, S \cup R)
               = SumFunctionOnSet(f, S) + SumFunctionOnSet(f, R)
PROOF
<1> DEFINE Sum(s) == SumFunctionOnSet(f, s)
           T == {s \in SUBSET S : Sum(s \cup R) = Sum(s) + Sum(R)}
<1>1. ASSUME NEW U \in SUBSET S, (SUBSET U) \ {U} \subseteq T PROVE U \in T
  <2>1. Sum(R) \in Int
    BY SumType
  <2>2. CASE U = {}
    <3>1. Sum(U) = 0
      BY <2>2, SumOfNone
    <3>2. U \cup R = R
      BY <2>2
    <3>3. Sum(U \cup R) = Sum(R)
      BY <3>2
    <3> HIDE DEF Sum
    <3> QED
      BY <2>1, <3>1, <3>3
  <2>3. CASE U # {}
    <3> DEFINE c == First(U)
    <3>1. c \in U /\ IsFiniteSet(U) /\ IsFiniteSet(U \ {c}) /\ U \ {c} \in T
      BY <1>1, <2>3, FirstIsIn, FS_Subset
    <3>2. /\ IsFiniteSet(U \cup R) /\ c \in U \cup R
          /\ (U \cup R) \ {c} = (U \ {c}) \cup R
      BY <3>1, FS_Union
    <3>3. Sum(U) = f[c] + Sum(U \ {c})
      BY <3>1, SumByElement
    <3>4. Sum(U \cup R) = f[c] + Sum((U \ {c}) \cup R)
      <4>1. Sum(U \cup R) = f[c] + Sum((U \cup R) \ {c})
        BY <3>2, SumByElement
      <4> QED
        BY <3>2, <4>1
    <3>5. f[c] \in Int /\ Sum(U \ {c}) \in Int
      BY <3>1, SumType
    <3> HIDE DEF c, Sum
    <3>6. Sum(U \cup R) = Sum(U) + Sum(R)
      BY <2>1, <3>1, <3>2, <3>3, <3>4, <3>5
    <3> QED
      BY <3>6
  <2> QED
    BY <2>2, <2>3
<1>2. T = SUBSET S
  <2> HIDE DEF T
  <2>1. T \in SUBSET (SUBSET S)
    BY DEF T
  <2> QED
    BY <1>1, <2>1, SmallerFirst
<1> QED
  BY <1>2

\* The sums of the groups of a set add up to the sum of the set.
LEMMA SumByGroup ==
    ASSUME NEW K, IsFiniteSet(K), NEW S, IsFiniteSet(S),
           NEW f, \A x \in S : f[x] \in Int,
           NEW group, \A x \in S : group[x] \in K,
           NEW part, \A k \in K : part[k] = {x \in S : group[x] = k},
           NEW sums, \A k \in K : sums[k] = SumFunctionOnSet(f, part[k])
    PROVE  SumFunctionOnSet(sums, K) = SumFunctionOnSet(f, S)
PROOF
<1> DEFINE In(L) == {x \in S : group[x] \in L}
           T == {L \in SUBSET K : SumFunctionOnSet(sums, L) = SumFunctionOnSet(f, In(L))}
<1>1. ASSUME NEW U \in SUBSET K, (SUBSET U) \ {U} \subseteq T PROVE U \in T
  <2>1. CASE U = {}
    <3>1. In(U) = {}
      BY <2>1
    <3> HIDE DEF In
    <3> QED
      BY <2>1, <3>1, SumOfNone
  <2>2. CASE U # {}
    <3> DEFINE k == First(U)
               here == {x \in S : group[x] = k}
    <3>1. k \in U /\ k \in K /\ IsFiniteSet(U) /\ U \ {k} \in T
      BY <1>1, <2>2, FirstIsIn, FS_Subset
    <3>2. SumFunctionOnSet(sums, U) = sums[k] + SumFunctionOnSet(sums, U \ {k})
      BY <2>2, <3>1, SumByFirst
    <3> HIDE DEF k
    <3>3. /\ In(U) = here \cup In(U \ {k}) /\ here \cap In(U \ {k}) = {}
          /\ here \subseteq S /\ In(U \ {k}) \subseteq S
      BY <3>1
    <3>4. IsFiniteSet(here) /\ IsFiniteSet(In(U \ {k}))
      BY <3>3, FS_Subset
    <3>5. sums[k] = SumFunctionOnSet(f, here)
      BY <3>1
    <3>6. SumFunctionOnSet(sums, U \ {k}) = SumFunctionOnSet(f, In(U \ {k}))
      BY <3>1
    <3> HIDE DEF here, In
    <3>7. SumFunctionOnSet(f, In(U))
             = SumFunctionOnSet(f, here) + SumFunctionOnSet(f, In(U \ {k}))
      <4> DEFINE others == In(U \ {k})
      <4>1. /\ IsFiniteSet(here) /\ IsFiniteSet(others) /\ here \cap others = {}
            /\ \A x \in here \cup others : f[x] \in Int
        BY <3>3, <3>4
      <4> HIDE DEF others
      <4>2. SumFunctionOnSet(f, here \cup others)
               = SumFunctionOnSet(f, here) + SumFunctionOnSet(f, others)
        BY <4>1, SumUnion
      <4> QED
        BY <3>3, <4>2 DEF others
    <3>8. SumFunctionOnSet(sums, U) = SumFunctionOnSet(f, In(U))
      BY <3>2, <3>5, <3>6, <3>7
    <3> QED
      BY <3>8
  <2> QED
    BY <2>1, <2>2
<1>2. T = SUBSET K
  <2> HIDE DEF T
  <2>1. T \in SUBSET (SUBSET K)
    BY DEF T
  <2> QED
    BY <1>1, <2>1, SmallerFirst
<1>3. In(K) = S
  OBVIOUS
<1>4. K \in T
  BY <1>2
<1> QED
  BY <1>3, <1>4

\* The sizes of the groups of a set add up to the size of the set.
LEMMA CountByGroup ==
    ASSUME NEW K, IsFiniteSet(K), NEW S, IsFiniteSet(S),
           NEW group, \A x \in S : group[x] \in K,
           NEW part, \A k \in K : part[k] = {x \in S : group[x] = k},
           NEW sizes, \A k \in K : sizes[k] = Cardinality(part[k])
    PROVE  SumFunctionOnSet(sizes, K) = Cardinality(S)
PROOF
<1> DEFINE one == [x \in S |-> 1]
<1>1. \A x \in S : one[x] = 1 /\ one[x] \in Int
  OBVIOUS
<1> HIDE DEF one
<1>2. ASSUME NEW k \in K PROVE sizes[k] = SumFunctionOnSet(one, part[k])
  <2>1. part[k] \subseteq S /\ IsFiniteSet(part[k])
    <3>1. part[k] \in SUBSET S
      OBVIOUS
    <3> QED
      BY <3>1, FS_Subset
  <2>2. \A x \in part[k] : one[x] = 1
    BY <1>1, <2>1
  <2>3. SumFunctionOnSet(one, part[k]) = Cardinality(part[k])
    BY <2>1, <2>2, SumOfOnes
  <2> QED
    BY <2>3
<1>3. SumFunctionOnSet(one, S) = Cardinality(S)
  BY <1>1, SumOfOnes
<1>4. SumFunctionOnSet(sizes, K) = SumFunctionOnSet(one, S)
  BY <1>1, <1>2, SumByGroup
<1> QED
  BY <1>3, <1>4

\* Leaving out elements that count for nothing changes nothing, and leaving out
\* natural numbers adds nothing.
LEMMA SumOfPart ==
    ASSUME NEW S, IsFiniteSet(S), NEW R \in SUBSET S,
           NEW f, \A x \in S : f[x] \in Nat
    PROVE  /\ SumFunctionOnSet(f, R) <= SumFunctionOnSet(f, S)
           /\ (\A x \in S \ R : f[x] = 0) => SumFunctionOnSet(f, R) = SumFunctionOnSet(f, S)
PROOF
<1> DEFINE rest == S \ R
           zero == [x \in rest |-> 0]
<1>1. IsFiniteSet(R) /\ IsFiniteSet(rest) /\ R \cap rest = {} /\ R \cup rest = S
  BY FS_Subset
<1> HIDE DEF rest
<1>2. SumFunctionOnSet(f, S) = SumFunctionOnSet(f, R) + SumFunctionOnSet(f, rest)
  <2>1. SumFunctionOnSet(f, R \cup rest)
            = SumFunctionOnSet(f, R) + SumFunctionOnSet(f, rest)
    BY <1>1, SumUnion
  <2> QED
    BY <1>1, <2>1
<1>3. SumFunctionOnSet(f, R) \in Nat /\ SumFunctionOnSet(f, rest) \in Nat
  BY <1>1, SumType
<1>4. ASSUME \A x \in rest : f[x] = 0 PROVE SumFunctionOnSet(f, rest) = 0
  <2>1. \A x \in rest : f[x] \in Int /\ zero[x] \in Int /\ f[x] = zero[x]
                        /\ zero[x] = zero[x] + zero[x]
    BY <1>4
  <2>2. SumFunctionOnSet(f, rest) = SumFunctionOnSet(zero, rest)
    BY <1>1, <2>1, SumSame
  <2>3. SumFunctionOnSet(zero, rest)
            = SumFunctionOnSet(zero, rest) + SumFunctionOnSet(zero, rest)
    BY <1>1, <2>1, SumPlus
  <2> HIDE DEF zero
  <2> QED
    BY <1>3, <2>2, <2>3
<1> QED
  BY <1>2, <1>3, <1>4 DEF rest
=============================================================================
