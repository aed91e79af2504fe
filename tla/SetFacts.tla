------------------------------- MODULE SetFacts -------------------------------
(* Facts about finite sets and sums over them that the proofs of the          *)
(* components share.  Inductions are done on a least counterexample, which    *)
(* the well-foundedness of < and of inclusion gives.                          *)
EXTENDS Integers, FiniteSetsExt, FiniteSetTheorems, NaturalsInduction, WellFoundedInduction, TLAPS

\* A set of numbers has a least.
LEMMA LeastNatural == ASSUME NEW T \in SUBSET Nat, T # {} PROVE \E x \in T : \A y \in T : x <= y
<1>1. \E x \in T : \A y \in T : <<y, x>> \notin OpToRel(<, Nat)
  BY NatLessThanWellFounded, WFMin
<1>2. ASSUME NEW x \in Nat, NEW y \in Nat, y < x
      PROVE  <<y, x>> \in OpToRel(<, Nat)
  BY <1>2 DEF OpToRel
<1>3. \A x, y \in Nat : ~(y < x) => x <= y
  OBVIOUS
<1> QED BY <1>1, <1>2, <1>3

\* What a function makes of a finite set.
LEMMA ImageIsFinite == ASSUME NEW S, IsFiniteSet(S), NEW f, DOMAIN f = S
                       PROVE  IsFiniteSet({f[x] : x \in S})
<1> DEFINE g == [x \in S |-> f[x]]
<1>1. g \in Surjection(S, {f[x] : x \in S})
  BY DEF Surjection
<1> QED BY <1>1, FS_Surjection

\* A sum over a set, in the form the components write theirs in.
SumOf(f, S) == MapThenSumSet(LAMBDA x : f[x], S)

Pick(s) == CHOOSE x \in s : TRUE

IsSum(it, f, S) ==
  it = [s \in SUBSET S |-> IF s = {} THEN 0 ELSE f[Pick(s)] + it[s \ {Pick(s)}]]

\* The sum is the value of the function that IsSum tells apart.
LEMMA SumIs == ASSUME NEW f, NEW S PROVE SumOf(f, S) = (CHOOSE it : IsSum(it, f, S))[S]
BY DEF SumOf, MapThenSumSet, MapThenFoldSet, IsSum, Pick

\* Among the subsets of a finite set that are bad there is one all of whose
\* proper subsets are not.
LEMMA LeastSubset ==
  ASSUME NEW S, IsFiniteSet(S), NEW B \in SUBSET (SUBSET S), B # {}
  PROVE  \E T \in B : \A U \in B : U \subseteq T => U = T
<1>1. B \subseteq FiniteSubsetsOf(S)
  BY FS_Subset DEF FiniteSubsetsOf
<1>2. \E T \in B : \A U \in B : <<U, T>> \notin StrictSubsetOrdering(S)
  BY <1>1, FS_StrictSubsetOrderingWellFounded, WFMin
<1>3. ASSUME NEW T \in B, NEW U \in B, U \subseteq T, U # T
      PROVE  <<U, T>> \in StrictSubsetOrdering(S)
  BY <1>3 DEF StrictSubsetOrdering
<1> QED BY <1>2, <1>3

\* What is picked is one of them.
LEMMA PickIn == ASSUME NEW s, s # {} PROVE Pick(s) \in s
BY DEF Pick

\* A function that is a sum on a set is one on each of its subsets.
LEMMA SumOnSubset ==
  ASSUME NEW f, NEW S, NEW T \in SUBSET S, NEW it, IsSum(it, f, S)
  PROVE  IsSum([s \in SUBSET T |-> it[s]], f, T)
<1> DEFINE jt == [s \in SUBSET T |-> it[s]]
<1>1. ASSUME NEW s \in SUBSET T
      PROVE  jt[s] = IF s = {} THEN 0 ELSE f[Pick(s)] + jt[s \ {Pick(s)}]
  <2>1. s \in SUBSET S /\ s \ {Pick(s)} \in SUBSET T
    OBVIOUS
  <2>2. it[s] = IF s = {} THEN 0 ELSE f[Pick(s)] + it[s \ {Pick(s)}]
    BY <2>1 DEF IsSum
  <2> QED BY <2>1, <2>2
<1>2. jt = [s \in SUBSET T |-> IF s = {} THEN 0 ELSE f[Pick(s)] + jt[s \ {Pick(s)}]]
  BY <1>1
<1> QED BY <1>2 DEF IsSum

\* Two sums of f agree.
LEMMA SumUnique ==
  ASSUME NEW f, NEW S, IsFiniteSet(S), NEW it, NEW jt, IsSum(it, f, S), IsSum(jt, f, S)
  PROVE  it = jt
<1> DEFINE B == {s \in SUBSET S : it[s] # jt[s]}
<1>1. \A s \in SUBSET S : /\ it[s] = IF s = {} THEN 0 ELSE f[Pick(s)] + it[s \ {Pick(s)}]
                          /\ jt[s] = IF s = {} THEN 0 ELSE f[Pick(s)] + jt[s \ {Pick(s)}]
  BY DEF IsSum
<1>2. B = {}
  <2> SUFFICES ASSUME B # {} PROVE FALSE
    OBVIOUS
  <2>1. PICK T \in B : \A U \in B : U \subseteq T => U = T
    <3>1. B \in SUBSET (SUBSET S)
      OBVIOUS
    <3> HIDE DEF B
    <3> QED BY <3>1, LeastSubset
  <2>2. T # {} /\ T \in SUBSET S
    BY <1>1
  <2>3. T \ {Pick(T)} \notin B /\ T \ {Pick(T)} \in SUBSET S
    BY <2>1, <2>2, PickIn
  <2> QED BY <1>1, <2>2, <2>3
<1>3. \A s \in SUBSET S : it[s] = jt[s]
  BY <1>2
<1>4. DOMAIN it = SUBSET S /\ DOMAIN jt = SUBSET S
  BY DEF IsSum
<1>5. it = [s \in SUBSET S |-> it[s]] /\ jt = [s \in SUBSET S |-> jt[s]]
  BY DEF IsSum
<1> QED BY <1>3, <1>5

\* There is one.
LEMMA SumExists ==
  ASSUME NEW f, NEW S, IsFiniteSet(S)
  PROVE  \E it : IsSum(it, f, S)
<1> DEFINE B == {T \in SUBSET S : ~\E it : IsSum(it, f, T)}
<1> SUFFICES ASSUME B # {} PROVE FALSE
  OBVIOUS
<1>1. PICK T \in B : \A U \in B : U \subseteq T => U = T
  <2>1. B \in SUBSET (SUBSET S)
    OBVIOUS
  <2> HIDE DEF B
  <2> QED BY <2>1, LeastSubset
<1>2. IsFiniteSet(T) /\ T \in SUBSET S
  BY FS_Subset
<1> DEFINE Of(U) == CHOOSE it : IsSum(it, f, U)
           jt == [s \in SUBSET T |-> IF s = {} THEN 0 ELSE f[Pick(s)] + Of(s \ {Pick(s)})[s \ {Pick(s)}]]
<1>3. ASSUME NEW U \in SUBSET T, U # T PROVE IsSum(Of(U), f, U)
  <2>1. U \notin B /\ U \in SUBSET S
    BY <1>1, <1>3
  <2> QED BY <2>1
<1>4. ASSUME NEW U \in SUBSET T, U # T, NEW V \in SUBSET U PROVE Of(U)[V] = Of(V)[V]
  <2>1. IsSum(Of(U), f, U) /\ IsSum(Of(V), f, V)
    BY <1>3, <1>4
  <2> HIDE DEF Of
  <2>2. IsSum([s \in SUBSET V |-> Of(U)[s]], f, V)
    BY <2>1, SumOnSubset
  <2>3. [s \in SUBSET V |-> Of(U)[s]] = Of(V)
    BY <1>2, <2>1, <2>2, SumUnique, FS_Subset
  <2> QED BY <2>3
<1>5. ASSUME NEW s \in SUBSET T
      PROVE  jt[s] = IF s = {} THEN 0 ELSE f[Pick(s)] + jt[s \ {Pick(s)}]
  <2>1. CASE s = {}
    BY <2>1
  <2>2. CASE s # {}
    <3> DEFINE r == s \ {Pick(s)}
    <3>1. r \in SUBSET T /\ r # T /\ r \subseteq s
      BY <2>2, PickIn
    <3>2. jt[s] = f[Pick(s)] + Of(r)[r]
      BY <2>2
    <3>3. jt[r] = Of(r)[r]
      <4>1. IsSum(Of(r), f, r)
        BY <1>3, <3>1
      <4>2. Of(r)[r] = IF r = {} THEN 0 ELSE f[Pick(r)] + Of(r)[r \ {Pick(r)}]
        BY <4>1 DEF IsSum
      <4>3. CASE r = {}
        BY <3>1, <4>2, <4>3
      <4>4. CASE r # {}
        <5>1. Of(r)[r \ {Pick(r)}] = Of(r \ {Pick(r)})[r \ {Pick(r)}]
          BY <1>4, <3>1
        <5> QED BY <3>1, <4>2, <4>4, <5>1
      <4> QED BY <4>3, <4>4
    <3> QED BY <2>2, <3>2, <3>3
  <2> QED BY <2>1, <2>2
<1>6. IsSum(jt, f, T)
  <2>1. jt = [s \in SUBSET T |-> jt[s]]
    OBVIOUS
  <2> HIDE DEF jt
  <2>2. jt = [s \in SUBSET T |-> IF s = {} THEN 0 ELSE f[Pick(s)] + jt[s \ {Pick(s)}]]
    BY <2>1, <1>5
  <2> QED BY <2>2 DEF IsSum
<1> QED BY <1>6

\* What the sum over a set computes.
LEMMA SumStep ==
  ASSUME NEW f, NEW S, IsFiniteSet(S)
  PROVE  SumOf(f, S) = IF S = {} THEN 0 ELSE f[Pick(S)] + SumOf(f, S \ {Pick(S)})
<1> DEFINE Of(U) == CHOOSE it : IsSum(it, f, U)
           T == S \ {Pick(S)}
<1>1. IsFiniteSet(T) /\ T \in SUBSET S
  BY FS_Subset
<1>2. IsSum(Of(S), f, S) /\ IsSum(Of(T), f, T)
  BY <1>1, SumExists
<1>3. SumOf(f, S) = Of(S)[S] /\ SumOf(f, T) = Of(T)[T]
  BY SumIs
<1> HIDE DEF Of
<1>4. IsSum([s \in SUBSET T |-> Of(S)[s]], f, T)
  BY <1>1, <1>2, SumOnSubset
<1>5. [s \in SUBSET T |-> Of(S)[s]] = Of(T)
  BY <1>1, <1>2, <1>4, SumUnique
<1>6. Of(S)[T] = Of(T)[T]
  BY <1>5
<1>7. Of(S)[S] = IF S = {} THEN 0 ELSE f[Pick(S)] + Of(S)[T]
  BY <1>2 DEF IsSum
<1> QED BY <1>3, <1>6, <1>7

\* Nothing adds up to nothing.
LEMMA SumEmpty == ASSUME NEW f PROVE SumOf(f, {}) = 0
BY SumStep, FS_EmptySet

\* A sum of integers is one.
LEMMA SumType ==
  ASSUME NEW f, NEW S, IsFiniteSet(S), \A x \in S : f[x] \in Int
  PROVE  SumOf(f, S) \in Int
<1> DEFINE B == {T \in SUBSET S : SumOf(f, T) \notin Int}
<1> SUFFICES ASSUME B # {} PROVE FALSE
  OBVIOUS
<1>1. PICK T \in B : \A U \in B : U \subseteq T => U = T
  <2>1. B \in SUBSET (SUBSET S)
    OBVIOUS
  <2> HIDE DEF B
  <2> QED BY <2>1, LeastSubset
<1>2. IsFiniteSet(T) /\ T \in SUBSET S
  BY FS_Subset
<1>3. T # {}
  BY SumEmpty
<1>4. Pick(T) \in T /\ SumOf(f, T \ {Pick(T)}) \in Int
  BY <1>1, <1>2, <1>3, PickIn
<1>5. SumOf(f, T) = f[Pick(T)] + SumOf(f, T \ {Pick(T)})
  BY <1>2, <1>3, SumStep
<1> QED BY <1>2, <1>4, <1>5

\* It does not matter which element is added first.
LEMMA SumRemove ==
  ASSUME NEW f, NEW S, IsFiniteSet(S), \A x \in S : f[x] \in Int, NEW y \in S
  PROVE  SumOf(f, S) = f[y] + SumOf(f, S \ {y})
<1> DEFINE B == {T \in SUBSET S : \E z \in T : SumOf(f, T) # f[z] + SumOf(f, T \ {z})}
<1>0. \A T \in SUBSET S : IsFiniteSet(T) /\ SumOf(f, T) \in Int
  BY FS_Subset, SumType
<1> SUFFICES ASSUME B # {} PROVE FALSE
  OBVIOUS
<1>1. PICK T \in B : \A U \in B : U \subseteq T => U = T
  <2>1. B \in SUBSET (SUBSET S)
    OBVIOUS
  <2> HIDE DEF B
  <2> QED BY <2>1, LeastSubset
<1>2. T \in SUBSET S
  OBVIOUS
<1>3. PICK z \in T : SumOf(f, T) # f[z] + SumOf(f, T \ {z})
  OBVIOUS
<1> DEFINE p == Pick(T)
<1>4. p \in T /\ SumOf(f, T) = f[p] + SumOf(f, T \ {p})
  BY <1>0, <1>2, <1>3, SumStep, PickIn
<1>5. p # z
  BY <1>3, <1>4
<1>6. \A U \in SUBSET T : U # T => U \in SUBSET S /\ \A x \in U : SumOf(f, U) = f[x] + SumOf(f, U \ {x})
  BY <1>1, <1>2
<1> HIDE DEF B, p
<1>7. SumOf(f, T \ {p}) = f[z] + SumOf(f, (T \ {p}) \ {z})
  BY <1>4, <1>5, <1>6
<1>8. SumOf(f, T \ {z}) = f[p] + SumOf(f, (T \ {z}) \ {p})
  BY <1>4, <1>5, <1>6
<1>9. (T \ {p}) \ {z} = (T \ {z}) \ {p}
  OBVIOUS
<1>10. /\ f[z] \in Int /\ f[p] \in Int /\ SumOf(f, (T \ {p}) \ {z}) \in Int
  BY <1>0, <1>2, <1>4
<1>11. \A a, b, c \in Int : a + (b + c) = b + (a + c)
  OBVIOUS
<1>12. SumOf(f, T) = f[p] + (f[z] + SumOf(f, (T \ {p}) \ {z}))
  BY <1>4, <1>7
<1>13. SumOf(f, T) = f[z] + (f[p] + SumOf(f, (T \ {p}) \ {z}))
  BY <1>10, <1>11, <1>12
<1> QED BY <1>3, <1>8, <1>9, <1>13

\* Sums of functions that are ordered, element by element.
LEMMA SumOrder ==
  ASSUME NEW f, NEW g, NEW S, IsFiniteSet(S), \A x \in S : f[x] \in Int /\ g[x] \in Int /\ f[x] <= g[x]
  PROVE  SumOf(f, S) <= SumOf(g, S)
<1> DEFINE B == {T \in SUBSET S : ~(SumOf(f, T) <= SumOf(g, T))}
<1>0. \A T \in SUBSET S : IsFiniteSet(T) /\ SumOf(f, T) \in Int /\ SumOf(g, T) \in Int
  BY FS_Subset, SumType
<1> SUFFICES ASSUME B # {} PROVE FALSE
  OBVIOUS
<1>1. PICK T \in B : \A U \in B : U \subseteq T => U = T
  <2>1. B \in SUBSET (SUBSET S)
    OBVIOUS
  <2> HIDE DEF B
  <2> QED BY <2>1, LeastSubset
<1>2. T # {}
  BY SumEmpty
<1>3. Pick(T) \in T /\ SumOf(f, T \ {Pick(T)}) <= SumOf(g, T \ {Pick(T)})
  BY <1>1, <1>2, PickIn
<1>4. /\ SumOf(f, T) = f[Pick(T)] + SumOf(f, T \ {Pick(T)})
      /\ SumOf(g, T) = g[Pick(T)] + SumOf(g, T \ {Pick(T)})
  BY <1>0, <1>2, SumStep
<1> QED BY <1>0, <1>3, <1>4

\* Functions that agree have the same sum.
LEMMA SumEqual ==
  ASSUME NEW f, NEW g, NEW S, IsFiniteSet(S), \A x \in S : f[x] \in Int /\ f[x] = g[x]
  PROVE  SumOf(f, S) = SumOf(g, S)
<1>1. SumOf(f, S) <= SumOf(g, S) /\ SumOf(g, S) <= SumOf(f, S)
  BY SumOrder
<1>2. SumOf(f, S) \in Int /\ SumOf(g, S) \in Int
  BY SumType
<1> QED BY <1>1, <1>2

\* A sum of naturals is one, and no term of it exceeds it.
LEMMA SumNat ==
  ASSUME NEW f, NEW S, IsFiniteSet(S), \A x \in S : f[x] \in Nat
  PROVE  SumOf(f, S) \in Nat /\ \A x \in S : f[x] <= SumOf(f, S)
<1> DEFINE zero == [x \in S |-> 0]
<1>1. ASSUME NEW T \in SUBSET S PROVE SumOf(f, T) \in Int /\ SumOf(f, T) >= 0
  <2> DEFINE B == {U \in SUBSET T : ~(SumOf(f, U) \in Int /\ SumOf(f, U) >= 0)}
  <2>1. SUFFICES ASSUME B # {} PROVE FALSE
    OBVIOUS
  <2>2. PICK U \in B : \A V \in B : V \subseteq U => V = U
    <3>1. B \in SUBSET (SUBSET T) /\ IsFiniteSet(T)
      BY FS_Subset
    <3> HIDE DEF B
    <3> QED BY <2>1, <3>1, LeastSubset
  <2>3. IsFiniteSet(U) /\ U \in SUBSET S /\ U # {}
    <3>1. U \in SUBSET S
      OBVIOUS
    <3>2. U # {}
      BY SumEmpty
    <3> QED BY <3>1, <3>2, FS_Subset
  <2>4. Pick(U) \in U /\ U \ {Pick(U)} \notin B /\ U \ {Pick(U)} \in SUBSET T
    BY <2>2, <2>3, PickIn
  <2>5. SumOf(f, U \ {Pick(U)}) \in Int /\ SumOf(f, U \ {Pick(U)}) >= 0 /\ f[Pick(U)] \in Nat
    BY <2>3, <2>4
  <2>6. SumOf(f, U) = f[Pick(U)] + SumOf(f, U \ {Pick(U)})
    BY <2>3, SumStep
  <2> QED BY <2>5, <2>6
<1>2. SumOf(f, S) \in Nat
  BY <1>1
<1>3. ASSUME NEW x \in S PROVE f[x] <= SumOf(f, S)
  <2>1. SumOf(f, S) = f[x] + SumOf(f, S \ {x})
    BY SumRemove
  <2>2. SumOf(f, S \ {x}) \in Int /\ SumOf(f, S \ {x}) >= 0
    BY <1>1
  <2> QED BY <2>1, <2>2
<1> QED BY <1>2, <1>3

\* A sum after one term of it has changed.
LEMMA SumChange ==
  ASSUME NEW f, NEW g, NEW S, IsFiniteSet(S), NEW y \in S,
         \A x \in S : f[x] \in Int /\ g[x] \in Int, \A x \in S \ {y} : g[x] = f[x]
  PROVE  SumOf(g, S) = SumOf(f, S) - f[y] + g[y]
<1>1. SumOf(f, S) = f[y] + SumOf(f, S \ {y}) /\ SumOf(g, S) = g[y] + SumOf(g, S \ {y})
  BY SumRemove
<1>2. SumOf(g, S \ {y}) = SumOf(f, S \ {y}) /\ SumOf(f, S \ {y}) \in Int
  <2>1. IsFiniteSet(S \ {y})
    BY FS_Subset
  <2> QED BY <2>1, SumEqual, SumType
<1>3. \A a, b, c, d \in Int : d = b + c => d = a + c - a + b
  OBVIOUS
<1>4. f[y] \in Int /\ g[y] \in Int /\ SumOf(g, S) \in Int
  BY SumType
<1> QED BY <1>1, <1>2, <1>4

\* A sum in two parts.
LEMMA SumSplit ==
  ASSUME NEW f, NEW S, IsFiniteSet(S), \A x \in S : f[x] \in Int, NEW A \in SUBSET S
  PROVE  SumOf(f, S) = SumOf(f, A) + SumOf(f, S \ A)
<1> DEFINE B == {T \in SUBSET S : SumOf(f, S) # SumOf(f, T) + SumOf(f, S \ T)}
<1>0. \A T \in SUBSET S : IsFiniteSet(T) /\ SumOf(f, T) \in Int
  BY FS_Subset, SumType
<1> SUFFICES ASSUME B # {} PROVE FALSE
  OBVIOUS
<1>1. PICK T \in B : \A U \in B : U \subseteq T => U = T
  <2>1. B \in SUBSET (SUBSET S)
    OBVIOUS
  <2> HIDE DEF B
  <2> QED BY <2>1, LeastSubset
<1>2. T \in SUBSET S /\ SumOf(f, S) # SumOf(f, T) + SumOf(f, S \ T)
  OBVIOUS
<1>3. T # {}
  <2>1. S \ {} = S /\ S \in SUBSET S
    OBVIOUS
  <2>2. SumOf(f, {}) = 0 /\ SumOf(f, S) \in Int
    BY <1>0, <2>1, SumEmpty
  <2>3. SumOf(f, S) = SumOf(f, {}) + SumOf(f, S \ {})
    BY <2>1, <2>2
  <2> QED BY <1>2, <2>3
<1> DEFINE y == Pick(T)
<1>4. y \in T /\ T \ {y} \in SUBSET S /\ T \ {y} \notin B
  BY <1>1, <1>2, <1>3, PickIn
<1>5. SumOf(f, S) = SumOf(f, T \ {y}) + SumOf(f, S \ (T \ {y}))
  BY <1>4
<1> HIDE DEF B, y
<1>6. SumOf(f, T) = f[y] + SumOf(f, T \ {y})
  BY <1>0, <1>2, <1>4, SumRemove
<1>7. SumOf(f, S \ (T \ {y})) = f[y] + SumOf(f, S \ T)
  <2>1. (S \ (T \ {y})) \ {y} = S \ T /\ y \in S \ (T \ {y}) /\ S \ (T \ {y}) \in SUBSET S
    BY <1>2, <1>4
  <2> QED BY <1>0, <2>1, SumRemove
<1>8. \A a, b, c \in Int : b + (a + c) = (a + b) + c
  OBVIOUS
<1>9. f[y] \in Int /\ SumOf(f, T \ {y}) \in Int /\ SumOf(f, S \ T) \in Int
  BY <1>0, <1>2, <1>4
<1> QED BY <1>2, <1>5, <1>6, <1>7, <1>8, <1>9

\* A sum of noughts and ones counts the ones.
LEMMA SumOfOnes ==
  ASSUME NEW f, NEW S, IsFiniteSet(S), \A x \in S : f[x] \in {0, 1}
  PROVE  SumOf(f, S) = Cardinality({x \in S : f[x] = 1})
<1> DEFINE Ones(T) == {x \in T : f[x] = 1}
           B == {T \in SUBSET S : SumOf(f, T) # Cardinality(Ones(T))}
<1>0. \A T \in SUBSET S : IsFiniteSet(T) /\ IsFiniteSet(Ones(T)) /\ SumOf(f, T) \in Int
  <2>1. ASSUME NEW T \in SUBSET S PROVE IsFiniteSet(T) /\ Ones(T) \in SUBSET S
    BY FS_Subset
  <2>2. \A x \in S : f[x] \in Int
    OBVIOUS
  <2> QED BY <2>1, <2>2, FS_Subset, SumType
<1> SUFFICES ASSUME B # {} PROVE FALSE
  OBVIOUS
<1>1. PICK T \in B : \A U \in B : U \subseteq T => U = T
  <2>1. B \in SUBSET (SUBSET S)
    OBVIOUS
  <2> HIDE DEF B
  <2> QED BY <2>1, LeastSubset
<1>2. T \in SUBSET S /\ SumOf(f, T) # Cardinality(Ones(T))
  OBVIOUS
<1>3. T # {}
  <2>1. Ones({}) = {}
    OBVIOUS
  <2> QED BY <1>2, <2>1, SumEmpty, FS_EmptySet
<1> DEFINE y == Pick(T)
<1>4. y \in T /\ T \ {y} \in SUBSET S /\ SumOf(f, T \ {y}) = Cardinality(Ones(T \ {y}))
  BY <1>1, <1>2, <1>3, PickIn
<1> HIDE DEF B, y
<1>5. SumOf(f, T) = f[y] + SumOf(f, T \ {y})
  <2>1. IsFiniteSet(T) /\ \A x \in T : f[x] \in Int
    BY <1>0, <1>2
  <2> QED BY <1>4, <2>1, SumRemove
<1>6. Ones(T \ {y}) = Ones(T) \ {y}
  OBVIOUS
<1>7. Cardinality(Ones(T) \ {y}) = IF y \in Ones(T) THEN Cardinality(Ones(T)) - 1 ELSE Cardinality(Ones(T))
  BY <1>0, <1>2, FS_RemoveElement
<1>8. Cardinality(Ones(T)) \in Nat
  BY <1>0, <1>2, FS_CardinalityType
<1>9. y \in Ones(T) <=> f[y] = 1
  BY <1>4
<1>10. f[y] \in {0, 1}
  BY <1>2, <1>4
<1> HIDE DEF Ones
<1>11. SumOf(f, T) = f[y] + Cardinality(Ones(T) \ {y})
  BY <1>4, <1>5, <1>6
<1>12. CASE f[y] = 1
  BY <1>2, <1>7, <1>8, <1>9, <1>11, <1>12
<1>13. CASE f[y] = 0
  BY <1>2, <1>7, <1>8, <1>9, <1>11, <1>13
<1> QED BY <1>10, <1>12, <1>13

\* A factor common to the terms.
LEMMA SumTimes ==
  ASSUME NEW c \in Int, NEW f, NEW h, NEW S, IsFiniteSet(S), \A x \in S : f[x] \in Int /\ h[x] = c * f[x]
  PROVE  SumOf(h, S) = c * SumOf(f, S)
<1> DEFINE B == {T \in SUBSET S : SumOf(h, T) # c * SumOf(f, T)}
<1>0. \A T \in SUBSET S : IsFiniteSet(T) /\ SumOf(f, T) \in Int
  BY FS_Subset, SumType
<1> SUFFICES ASSUME B # {} PROVE FALSE
  OBVIOUS
<1>1. PICK T \in B : \A U \in B : U \subseteq T => U = T
  <2>1. B \in SUBSET (SUBSET S)
    OBVIOUS
  <2> HIDE DEF B
  <2> QED BY <2>1, LeastSubset
<1>2. T # {}
  <2>1. c * 0 = 0
    OBVIOUS
  <2> QED BY <2>1, SumEmpty
<1>3. Pick(T) \in T /\ Pick(T) \in S /\ SumOf(h, T \ {Pick(T)}) = c * SumOf(f, T \ {Pick(T)})
  BY <1>1, <1>2, PickIn
<1>4. /\ SumOf(f, T) = f[Pick(T)] + SumOf(f, T \ {Pick(T)})
      /\ SumOf(h, T) = h[Pick(T)] + SumOf(h, T \ {Pick(T)})
  BY <1>0, <1>2, SumStep
<1>5. \A a, b \in Int : c * (a + b) = c * a + c * b
  OBVIOUS
<1>6. SumOf(f, T \ {Pick(T)}) \in Int /\ f[Pick(T)] \in Int /\ h[Pick(T)] = c * f[Pick(T)]
  BY <1>0, <1>3
<1>7. SumOf(h, T) = c * SumOf(f, T)
  BY <1>3, <1>4, <1>5, <1>6
<1> QED BY <1>7

\* The smaller and the larger of two numbers.
LEMMA MinOfTwo ==
  ASSUME NEW a \in Int, NEW b \in Int
  PROVE  Min({a, b}) \in {a, b} /\ Min({a, b}) <= a /\ Min({a, b}) <= b
<1>1. \E x \in {a, b} : \A y \in {a, b} : x <= y
  <2>1. CASE a <= b
    BY <2>1
  <2>2. CASE b <= a
    BY <2>2
  <2> QED BY <2>1, <2>2
<1> QED BY <1>1 DEF Min

\* And the larger.
LEMMA MaxOfTwo ==
  ASSUME NEW a \in Int, NEW b \in Int
  PROVE  Max({a, b}) \in {a, b} /\ Max({a, b}) >= a /\ Max({a, b}) >= b
<1>1. \E x \in {a, b} : \A y \in {a, b} : x >= y
  <2>1. CASE a <= b
    BY <2>1
  <2>2. CASE b <= a
    BY <2>2
  <2> QED BY <2>1, <2>2
<1> QED BY <1>1 DEF Max

\* A finite set whose elements are all equal has at most one.
LEMMA AtMostOne ==
  ASSUME NEW S, \A x, y \in S : x = y
  PROVE  IsFiniteSet(S) /\ Cardinality(S) <= 1
<1>1. CASE S = {}
  BY <1>1, FS_EmptySet
<1>2. CASE S # {}
  <2>1. PICK x \in S : S = {x}
    BY <1>2
  <2>2. IsFiniteSet({x}) /\ Cardinality({x}) = 1
    BY FS_Singleton
  <2> QED BY <2>1, <2>2
<1> QED BY <1>1, <1>2

\* And conversely.
LEMMA OneAtMost ==
  ASSUME NEW S, IsFiniteSet(S), Cardinality(S) <= 1
  PROVE  \A x, y \in S : x = y
<1> SUFFICES ASSUME NEW x \in S, NEW y \in S, x # y PROVE FALSE
  OBVIOUS
<1>1. {x, y} \subseteq S
  OBVIOUS
<1>2. Cardinality({x, y}) = 2
  <2>1. IsFiniteSet({x}) /\ Cardinality({x}) = 1 /\ {x, y} = {x} \cup {y}
    BY FS_Singleton
  <2> QED BY <2>1, FS_AddElement
<1>3. Cardinality({x, y}) <= Cardinality(S)
  BY <1>1, FS_Subset
<1>4. Cardinality(S) \in Nat
  BY FS_CardinalityType
<1> QED BY <1>2, <1>3, <1>4

\* A function that tells elements apart leaves as many.
LEMMA ImageKeepsCount ==
  ASSUME NEW S, IsFiniteSet(S), NEW f, DOMAIN f = S, \A x, y \in S : f[x] = f[y] => x = y
  PROVE  IsFiniteSet({f[x] : x \in S}) /\ Cardinality({f[x] : x \in S}) = Cardinality(S)
<1> DEFINE g == [x \in S |-> f[x]]
<1>1. g \in Bijection(S, {f[x] : x \in S})
  BY DEF Bijection, Injection, Surjection, IsInjective
<1> QED BY <1>1, FS_Bijection DEF ExistsBijection

\* The rank of a number in a finite set of them: how many are smaller.
Rank(x, S) == Cardinality({y \in S : y < x})

\* Each rank counts what is below, and below a larger number there is more.
LEMMA RanksCount ==
  ASSUME NEW S, IsFiniteSet(S), \A x, y \in S : Rank(x, S) = Rank(y, S) => x = y
  PROVE  /\ IsFiniteSet({Rank(x, S) : x \in S})
         /\ Cardinality({Rank(x, S) : x \in S}) = Cardinality(S)
<1> DEFINE rank == [x \in S |-> Rank(x, S)]
<1>1. DOMAIN rank = S /\ \A x, y \in S : rank[x] = rank[y] => x = y
  OBVIOUS
<1>2. {rank[x] : x \in S} = {Rank(x, S) : x \in S}
  OBVIOUS
<1>3. ASSUME NEW f, DOMAIN f = S, \A x, y \in S : f[x] = f[y] => x = y
      PROVE  IsFiniteSet({f[x] : x \in S}) /\ Cardinality({f[x] : x \in S}) = Cardinality(S)
  BY <1>3, ImageKeepsCount
<1> HIDE DEF rank
<1>4. IsFiniteSet({rank[x] : x \in S}) /\ Cardinality({rank[x] : x \in S}) = Cardinality(S)
  BY <1>1, <1>3
<1> QED BY <1>2, <1>4

\* Ranks tell the numbers of a set apart, and run from 0 up.
LEMMA RanksAre ==
  ASSUME NEW S \in SUBSET Nat, IsFiniteSet(S)
  PROVE  /\ \A x \in S : Rank(x, S) \in 0..(Cardinality(S) - 1)
         /\ \A x, y \in S : Rank(x, S) = Rank(y, S) => x = y
         /\ \A k \in 0..(Cardinality(S) - 1) : \E x \in S : Rank(x, S) = k
<1>0. Cardinality(S) \in Nat
  BY FS_CardinalityType
<1>1. ASSUME NEW x \in S, NEW y \in S, x < y
      PROVE  Rank(x, S) < Rank(y, S)
  <2> DEFINE X == {z \in S : z < x}
             Y == {z \in S : z < y}
  <2>0. x \in Nat /\ y \in Nat /\ \A z \in S : z \in Nat
    OBVIOUS
  <2>1. X \in SUBSET Y /\ Y \in SUBSET S /\ x \in Y /\ x \notin X
    <3>1. \A z \in S : z < x => z < y
      BY <1>1, <2>0
    <3>2. ~(x < x)
      BY <2>0
    <3> QED BY <1>1, <3>1, <3>2
  <2> HIDE DEF X, Y
  <2>2. IsFiniteSet(Y) /\ IsFiniteSet(X) /\ Cardinality(X) <= Cardinality(Y) /\ Cardinality(X) # Cardinality(Y)
    BY <2>1, FS_Subset
  <2>3. Cardinality(X) \in Nat /\ Cardinality(Y) \in Nat
    BY <2>2, FS_CardinalityType
  <2> QED BY <2>2, <2>3 DEF Rank, X, Y
<1>2. \A x, y \in S : x < y \/ y < x \/ x = y
  OBVIOUS
<1>3. ASSUME NEW x \in S PROVE Rank(x, S) \in 0..(Cardinality(S) - 1)
  <2> DEFINE X == {z \in S : z < x}
  <2>1. X \in SUBSET S /\ x \in S /\ x \notin X
    OBVIOUS
  <2> HIDE DEF X
  <2>2. IsFiniteSet(X) /\ Cardinality(X) <= Cardinality(S) /\ Cardinality(X) # Cardinality(S)
    BY <2>1, FS_Subset
  <2>3. Cardinality(X) \in Nat
    BY <2>2, FS_CardinalityType
  <2> QED BY <1>0, <2>2, <2>3 DEF Rank, X
<1>4. ASSUME NEW x \in S, NEW y \in S, Rank(x, S) = Rank(y, S) PROVE x = y
  <2>1. Rank(x, S) \in Nat /\ Rank(y, S) \in Nat
    BY <1>3
  <2>2. ~(Rank(x, S) < Rank(y, S)) /\ ~(Rank(y, S) < Rank(x, S))
    BY <1>4, <2>1
  <2> QED BY <1>1, <1>2, <2>2
<1> DEFINE image == {Rank(x, S) : x \in S}
           all == 0..(Cardinality(S) - 1)
<1>5. IsFiniteSet(image) /\ Cardinality(image) = Cardinality(S)
  BY <1>4, RanksCount
<1>6. IsFiniteSet(all) /\ Cardinality(all) = Cardinality(S)
  <2>1. \A b \in Int : IsFiniteSet(0..b) /\ Cardinality(0..b) = IF 0 > b THEN 0 ELSE b - 0 + 1
    BY FS_Interval
  <2> QED BY <1>0, <2>1
<1>7. image \in SUBSET all
  BY <1>3
<1>8. image = all
  <2> HIDE DEF image, all
  <2> QED BY <1>5, <1>6, <1>7, FS_Subset
<1>9. \A k \in all : \E x \in S : Rank(x, S) = k
  BY <1>8
<1> QED BY <1>3, <1>4, <1>9

\* A finite set of numbers has a largest.
LEMMA LargestNatural ==
  ASSUME NEW T \in SUBSET Nat, IsFiniteSet(T), T # {} PROVE \E x \in T : \A y \in T : y <= x
<1>1. Cardinality(T) \in Nat /\ Cardinality(T) # 0
  BY FS_CardinalityType, FS_EmptySet
<1>2. Cardinality(T) - 1 \in 0..(Cardinality(T) - 1)
  BY <1>1
<1>3. PICK x \in T : Rank(x, T) = Cardinality(T) - 1
  BY <1>2, RanksAre
<1>4. ASSUME NEW y \in T, x < y PROVE FALSE
  <2> DEFINE X == {z \in T : z < x}
             Y == {z \in T : z < y}
  <2>0. x \in Nat /\ y \in Nat /\ \A z \in T : z \in Nat
    OBVIOUS
  <2>1. X \in SUBSET Y /\ Y \in SUBSET T /\ x \in Y /\ x \notin X /\ y \notin Y
    <3>1. \A z \in T : z < x => z < y
      BY <1>4, <2>0
    <3>2. ~(x < x) /\ ~(y < y)
      BY <2>0
    <3> QED BY <1>4, <3>1, <3>2
  <2>2. Cardinality(X) = Cardinality(T) - 1
    BY <1>3 DEF Rank
  <2> HIDE DEF X, Y
  <2>3. IsFiniteSet(Y) /\ IsFiniteSet(X) /\ Cardinality(X) <= Cardinality(Y) /\ Cardinality(X) # Cardinality(Y)
        /\ Cardinality(Y) <= Cardinality(T) /\ Cardinality(Y) # Cardinality(T)
    BY <2>1, FS_Subset
  <2>4. Cardinality(X) \in Nat /\ Cardinality(Y) \in Nat
    BY <2>3, FS_CardinalityType
  <2> QED BY <1>1, <2>2, <2>3, <2>4
<1> QED BY <1>4
===============================================================================
