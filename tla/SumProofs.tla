------------------------------ MODULE SumProofs ------------------------------
(***************************************************************************)
(* Sums over finite sets and sequences.  SumFunctionOnSet and              *)
(* MapThenSumSet take the elements one after the other, in some fixed      *)
(* order; a sum of integers does not depend on it.  The provers see a      *)
(* recursive function as a CHOOSE of one that satisfies its equation, so   *)
(* that one exists and that it is determined is shown first, by a smallest *)
(* counterexample.                                                         *)
(***************************************************************************)
EXTENDS Integers, Sequences, Functions, FiniteSetsExt, TLAPS, FiniteSetTheorems, WellFoundedInduction

\* The element that a sum over s takes first.
First(s) == CHOOSE x \in s : TRUE

\* The equation that the recursive function under SumFunctionOnSet satisfies.
SumsOf(f, S, iter) ==
  iter = [s \in SUBSET S |-> IF s = {} THEN 0 ELSE f[First(s)] + iter[s \ {First(s)}]]

\* A set of finite sets has a member with no other member inside it.
LEMMA SmallestSubset ==
  ASSUME NEW S, IsFiniteSet(S), NEW B, B \subseteq SUBSET S, B # {}
  PROVE  \E T \in B : IsFiniteSet(T) /\ \A U \in B : U \subseteq T => U = T
  <1>1. FiniteSubsetsOf(S) = SUBSET S
    BY FS_FiniteSubsetsOfFinite
  <1>2. PICK T \in B : \A U \in B : <<U, T>> \notin StrictSubsetOrdering(S)
    BY <1>1, FS_StrictSubsetOrderingWellFounded, WFMin
  <1>3. IsFiniteSet(T)
    BY FS_Subset
  <1>4. ASSUME NEW U \in B, U \subseteq T, U # T PROVE FALSE
    <2>1. <<U, T>> \in (SUBSET S) \X (SUBSET S)
      OBVIOUS
    <2> QED
      BY <1>2, <1>4, <2>1 DEF StrictSubsetOrdering
  <1> QED
    BY <1>3, <1>4

LEMMA FirstIsMember == ASSUME NEW s, s # {} PROVE First(s) \in s
  BY DEF First

\* The equation determines the sum of each subset.
LEMMA SumsUnique ==
  ASSUME NEW f, NEW S, IsFiniteSet(S), NEW T, NEW g, NEW h, SumsOf(f, S, g), SumsOf(f, T, h)
  PROVE  \A s \in SUBSET S : s \in SUBSET T => g[s] = h[s]
  <1> DEFINE bad == {s \in SUBSET S : s \in SUBSET T /\ g[s] # h[s]}
  <1> SUFFICES ASSUME bad # {} PROVE FALSE
    OBVIOUS
  <1>1. PICK s \in bad : \A u \in bad : u \subseteq s => u = s
    <2>1. bad \subseteq SUBSET S
      OBVIOUS
    <2> HIDE DEF bad
    <2> QED
      BY <2>1, SmallestSubset
  <1>2. /\ g[s] = IF s = {} THEN 0 ELSE f[First(s)] + g[s \ {First(s)}]
        /\ h[s] = IF s = {} THEN 0 ELSE f[First(s)] + h[s \ {First(s)}]
    BY DEF SumsOf
  <1>3. s # {}
    BY <1>2
  <1>4. s \ {First(s)} \notin bad
    BY <1>1, <1>3, FirstIsMember
  <1> QED
    BY <1>2, <1>3, <1>4

\* The equation has a solution.
LEMMA SumsExist ==
  ASSUME NEW f, NEW S, IsFiniteSet(S)
  PROVE  \E iter : SumsOf(f, S, iter)
  <1> DEFINE bad == {s \in SUBSET S : ~\E iter : SumsOf(f, s, iter)}
  <1> SUFFICES ASSUME bad # {} PROVE FALSE
    OBVIOUS
  <1>1. PICK s \in bad : \A u \in bad : u \subseteq s => u = s
    <2>1. bad \subseteq SUBSET S
      OBVIOUS
    <2> HIDE DEF bad
    <2> QED
      BY <2>1, SmallestSubset
  <1> DEFINE Sub(u) == CHOOSE iter : SumsOf(f, u, iter)
             Rest(u) == u \ {First(u)}
             g == [u \in SUBSET s |->
                     IF u = {} THEN 0 ELSE f[First(u)] + Sub(Rest(u))[Rest(u)]]
  <1>2. ASSUME NEW u \in SUBSET s, u # s PROVE SumsOf(f, u, Sub(u))
    <2>1. \E iter : SumsOf(f, u, iter)
      BY <1>1, <1>2
    <2> QED
      BY <2>1
  <1>3. ASSUME NEW u \in SUBSET s, u # {} PROVE g[u] = f[First(u)] + g[Rest(u)]
    <2> DEFINE v == Rest(u)
    <2>1. First(u) \in u /\ v \in SUBSET s /\ v # s
      BY <1>3, FirstIsMember
    <2>2. SumsOf(f, v, Sub(v)) /\ IsFiniteSet(v)
      BY <1>2, <2>1, FS_Subset
    <2>3. g[v] = Sub(v)[v]
      <3>1. CASE v = {}
        BY <2>1, <2>2, <3>1 DEF SumsOf
      <3>2. CASE v # {}
        <4>1. First(v) \in v /\ Rest(v) \in SUBSET s /\ Rest(v) # s /\ Rest(v) \in SUBSET v
          BY <2>1, <3>2, FirstIsMember
        <4>2. SumsOf(f, Rest(v), Sub(Rest(v)))
          BY <1>2, <4>1
        <4>3. Sub(v)[Rest(v)] = Sub(Rest(v))[Rest(v)]
          BY <2>2, <4>1, <4>2, SumsUnique
        <4>4. Sub(v)[v] = f[First(v)] + Sub(v)[Rest(v)]
          BY <2>2, <3>2 DEF SumsOf
        <4>5. g[v] = f[First(v)] + Sub(Rest(v))[Rest(v)]
          BY <2>1, <3>2
        <4> QED
          BY <4>3, <4>4, <4>5
      <3> QED
        BY <3>1, <3>2
    <2>4. g[u] = f[First(u)] + Sub(v)[v]
      BY <1>3
    <2> QED
      BY <2>3, <2>4
  <1>4. g[{}] = 0
    OBVIOUS
  <1>5. SumsOf(f, s, g)
    <2>1. g = [u \in SUBSET s |-> g[u]]
      OBVIOUS
    <2> HIDE DEF g
    <2>2. \A u \in SUBSET s : g[u] = IF u = {} THEN 0 ELSE f[First(u)] + g[u \ {First(u)}]
      BY <1>3, <1>4
    <2> QED
      BY <2>1, <2>2 DEF SumsOf
  <1> QED
    BY <1>5

\* The sum over a finite set is given by the equation.
LEMMA SumIsSums ==
  ASSUME NEW f, NEW S, IsFiniteSet(S)
  PROVE  \E iter : SumsOf(f, S, iter) /\ SumFunctionOnSet(f, S) = iter[S]
  <1>1. SumFunctionOnSet(f, S) = (CHOOSE iter : SumsOf(f, S, iter))[S]
    BY DEF SumFunctionOnSet, FoldFunctionOnSet, MapThenFoldSet, SumsOf, First
  <1> QED
    BY <1>1, SumsExist

LEMMA SumEmpty == ASSUME NEW f PROVE SumFunctionOnSet(f, {}) = 0
  <1>1. PICK iter : SumsOf(f, {}, iter) /\ SumFunctionOnSet(f, {}) = iter[{}]
    BY SumIsSums, FS_EmptySet
  <1> QED
    BY <1>1 DEF SumsOf

\* The sum depends on the values on the set only.
LEMMA SumSame ==
  ASSUME NEW f, NEW g, NEW S, IsFiniteSet(S), \A x \in S : f[x] = g[x]
  PROVE  SumFunctionOnSet(f, S) = SumFunctionOnSet(g, S)
  <1>1. PICK if : SumsOf(f, S, if) /\ SumFunctionOnSet(f, S) = if[S]
    BY SumIsSums
  <1>2. PICK ig : SumsOf(g, S, ig) /\ SumFunctionOnSet(g, S) = ig[S]
    BY SumIsSums
  <1>3. \A s \in SUBSET S : s # {} => f[First(s)] = g[First(s)]
    BY FirstIsMember
  <1>4. SumsOf(g, S, if)
    BY <1>1, <1>3 DEF SumsOf
  <1> QED
    BY <1>1, <1>2, <1>4, SumsUnique

\* One step of the sum.
LEMMA SumFirst ==
  ASSUME NEW f, NEW S, IsFiniteSet(S), S # {}
  PROVE  SumFunctionOnSet(f, S) = f[First(S)] + SumFunctionOnSet(f, S \ {First(S)})
  <1> DEFINE T == S \ {First(S)}
  <1>1. IsFiniteSet(T) /\ T \subseteq S
    BY FS_Subset
  <1>2. PICK i : SumsOf(f, S, i) /\ SumFunctionOnSet(f, S) = i[S]
    BY SumIsSums
  <1>3. PICK j : SumsOf(f, T, j) /\ SumFunctionOnSet(f, T) = j[T]
    BY <1>1, SumIsSums
  <1>4. i[S] = f[First(S)] + i[T]
    BY <1>2 DEF SumsOf
  <1>5. i[T] = j[T]
    BY <1>1, <1>2, <1>3, SumsUnique
  <1> QED
    BY <1>2, <1>3, <1>4, <1>5

LEMMA SumType ==
  ASSUME NEW f, NEW S, IsFiniteSet(S), \A x \in S : f[x] \in Int
  PROVE  SumFunctionOnSet(f, S) \in Int
  <1> DEFINE bad == {s \in SUBSET S : SumFunctionOnSet(f, s) \notin Int}
  <1> SUFFICES ASSUME bad # {} PROVE FALSE
    OBVIOUS
  <1>1. PICK s \in bad : IsFiniteSet(s) /\ \A u \in bad : u \subseteq s => u = s
    <2>1. bad \subseteq SUBSET S
      OBVIOUS
    <2> HIDE DEF bad
    <2> QED
      BY <2>1, SmallestSubset
  <1>2. s # {}
    BY SumEmpty
  <1>3. First(s) \in s
    BY <1>2, FirstIsMember
  <1>4. s \ {First(s)} \notin bad /\ f[First(s)] \in Int
    BY <1>1, <1>3
  <1>5. SumFunctionOnSet(f, s) = f[First(s)] + SumFunctionOnSet(f, s \ {First(s)})
    BY <1>1, <1>2, SumFirst
  <1> QED
    BY <1>4, <1>5

\* Any element may be taken out first.
LEMMA SumRemove ==
  ASSUME NEW f, NEW S, IsFiniteSet(S), \A y \in S : f[y] \in Int, NEW x \in S
  PROVE  SumFunctionOnSet(f, S) = f[x] + SumFunctionOnSet(f, S \ {x})
  <1> DEFINE Total(s) == SumFunctionOnSet(f, s)
             bad == {s \in SUBSET S : \E y \in s : Total(s) # f[y] + Total(s \ {y})}
  <1> SUFFICES ASSUME bad # {} PROVE FALSE
    OBVIOUS
  <1>1. PICK s \in bad : IsFiniteSet(s) /\ \A u \in bad : u \subseteq s => u = s
    <2>1. bad \subseteq SUBSET S
      OBVIOUS
    <2> HIDE DEF bad
    <2> QED
      BY <2>1, SmallestSubset
  <1>2. PICK y \in s : Total(s) # f[y] + Total(s \ {y})
    OBVIOUS
  <1> DEFINE z == First(s)
             r == (s \ {y}) \ {z}
  <1>3. z \in s /\ Total(s) = f[z] + Total(s \ {z})
    BY <1>1, SumFirst, FirstIsMember
  <1>4. y # z
    BY <1>2, <1>3
  <1>5. Total(s \ {y}) = f[z] + Total(r)
    <2>1. s \ {y} \in SUBSET S /\ s \ {y} \notin bad /\ z \in s \ {y}
      BY <1>1, <1>3, <1>4
    <2> QED
      BY <2>1
  <1>6. Total(s \ {z}) = f[y] + Total(r)
    <2>1. s \ {z} \in SUBSET S /\ s \ {z} \notin bad /\ y \in s \ {z}
      BY <1>1, <1>3, <1>4
    <2>2. r = (s \ {z}) \ {y}
      OBVIOUS
    <2> QED
      BY <2>1, <2>2
  <1>7. Total(r) \in Int /\ f[y] \in Int /\ f[z] \in Int
    <2>1. IsFiniteSet(r) /\ r \subseteq S
      BY <1>1, FS_Subset
    <2> QED
      BY <1>3, <2>1, SumType
  <1> HIDE DEF Total, z, r
  <1> QED
    BY <1>2, <1>3, <1>5, <1>6, <1>7

\* One value of the function is replaced.
LEMMA SumReplace ==
  ASSUME NEW f, NEW g, NEW S, IsFiniteSet(S), NEW x \in S, g[x] \in Int,
         \A y \in S : f[y] \in Int, \A y \in S \ {x} : g[y] = f[y]
  PROVE  SumFunctionOnSet(g, S) = SumFunctionOnSet(f, S) - f[x] + g[x]
  <1>1. IsFiniteSet(S \ {x})
    BY FS_Subset
  <1>2. SumFunctionOnSet(g, S \ {x}) = SumFunctionOnSet(f, S \ {x})
    BY <1>1, SumSame
  <1>3. SumFunctionOnSet(f, S \ {x}) \in Int
    BY <1>1, SumType
  <1>4. \A y \in S : g[y] \in Int
    OBVIOUS
  <1>5. /\ SumFunctionOnSet(g, S) = g[x] + SumFunctionOnSet(g, S \ {x})
        /\ SumFunctionOnSet(f, S) = f[x] + SumFunctionOnSet(f, S \ {x})
    BY <1>4, SumRemove
  <1> QED
    BY <1>2, <1>3, <1>5

\* The set grows by one element.
LEMMA SumAdd ==
  ASSUME NEW f, NEW g, NEW S, IsFiniteSet(S), NEW x, x \notin S, g[x] \in Int,
         \A y \in S : f[y] \in Int /\ g[y] = f[y]
  PROVE  SumFunctionOnSet(g, S \cup {x}) = SumFunctionOnSet(f, S) + g[x]
  <1> DEFINE T == S \cup {x}
  <1>1. IsFiniteSet(T) /\ x \in T /\ T \ {x} = S
    BY FS_AddElement
  <1>2. \A y \in T : g[y] \in Int
    OBVIOUS
  <1>3. SumFunctionOnSet(g, T) = g[x] + SumFunctionOnSet(g, S)
    <2> HIDE DEF T
    <2> QED
      BY <1>1, <1>2, SumRemove
  <1>4. SumFunctionOnSet(g, S) = SumFunctionOnSet(f, S)
    BY SumSame
  <1>5. SumFunctionOnSet(f, S) \in Int
    BY SumType
  <1> QED
    BY <1>3, <1>4, <1>5

\* A sum of zeros.
LEMMA SumZero ==
  ASSUME NEW f, NEW S, IsFiniteSet(S), \A x \in S : f[x] = 0
  PROVE  SumFunctionOnSet(f, S) = 0
  <1> DEFINE bad == {s \in SUBSET S : SumFunctionOnSet(f, s) # 0}
  <1> SUFFICES ASSUME bad # {} PROVE FALSE
    OBVIOUS
  <1>1. PICK s \in bad : IsFiniteSet(s) /\ \A u \in bad : u \subseteq s => u = s
    <2>1. bad \subseteq SUBSET S
      OBVIOUS
    <2> HIDE DEF bad
    <2> QED
      BY <2>1, SmallestSubset
  <1>2. s # {}
    BY SumEmpty
  <1>3. First(s) \in s
    BY <1>2, FirstIsMember
  <1>4. s \ {First(s)} \notin bad /\ f[First(s)] = 0
    BY <1>1, <1>3
  <1>5. SumFunctionOnSet(f, s) = f[First(s)] + SumFunctionOnSet(f, s \ {First(s)})
    BY <1>1, <1>2, SumFirst
  <1> QED
    BY <1>4, <1>5

\* A sum of the opposite values.
LEMMA SumNegated ==
  ASSUME NEW f, NEW g, NEW S, IsFiniteSet(S), \A x \in S : f[x] \in Int /\ g[x] = -f[x]
  PROVE  SumFunctionOnSet(g, S) = -SumFunctionOnSet(f, S)
  <1> DEFINE bad == {s \in SUBSET S : SumFunctionOnSet(g, s) # -SumFunctionOnSet(f, s)}
  <1> SUFFICES ASSUME bad # {} PROVE FALSE
    OBVIOUS
  <1>1. PICK s \in bad : IsFiniteSet(s) /\ \A u \in bad : u \subseteq s => u = s
    <2>1. bad \subseteq SUBSET S
      OBVIOUS
    <2> HIDE DEF bad
    <2> QED
      BY <2>1, SmallestSubset
  <1>2. s # {}
    BY SumEmpty
  <1>3. First(s) \in s /\ First(s) \in S
    BY <1>2, FirstIsMember
  <1> DEFINE r == s \ {First(s)}
  <1>4. r \in SUBSET S /\ r \notin bad
    BY <1>1, <1>3
  <1>5. SumFunctionOnSet(f, r) \in Int
    <2>1. IsFiniteSet(r) /\ \A x \in r : f[x] \in Int
      BY <1>1, FS_Subset
    <2> QED
      BY <2>1, SumType
  <1>6. /\ SumFunctionOnSet(f, s) = f[First(s)] + SumFunctionOnSet(f, r)
        /\ SumFunctionOnSet(g, s) = g[First(s)] + SumFunctionOnSet(g, r)
    BY <1>1, <1>2, SumFirst
  <1>7. SumFunctionOnSet(g, r) = -SumFunctionOnSet(f, r)
    BY <1>4
  <1>8. f[First(s)] \in Int /\ g[First(s)] = -f[First(s)]
    BY <1>3
  <1> QED
    BY <1>5, <1>6, <1>7, <1>8

\* The sum of a sequence of results: empty, and with one result more.
LEMMA SumOfNoResults == SumFunction(<< >>) = 0
  <1>1. DOMAIN << >> = {}
    OBVIOUS
  <1> QED
    BY <1>1, SumEmpty DEF SumFunction

LEMMA SumAppend ==
  ASSUME NEW R, R \subseteq Int, NEW s \in Seq(R), NEW e \in R
  PROVE  SumFunction(Append(s, e)) = SumFunction(s) + e
  <1> DEFINE t == Append(s, e)
             n == Len(s)
             I == 1 .. n
  <1>1. n \in Nat /\ DOMAIN s = I /\ DOMAIN t = I \cup {n + 1} /\ n + 1 \notin I
    OBVIOUS
  <1>2. t[n + 1] = e /\ t[n + 1] \in Int
    OBVIOUS
  <1>3. \A i \in I : s[i] \in Int /\ t[i] = s[i]
    <2>1. \A i \in I : s[i] \in R
      OBVIOUS
    <2>2. \A i \in I : t[i] = s[i]
      OBVIOUS
    <2> QED
      BY <2>1, <2>2
  <1>4. IsFiniteSet(I)
    BY <1>1, FS_Interval
  <1> HIDE DEF t, n, I
  <1>5. SumFunctionOnSet(t, I \cup {n + 1}) = SumFunctionOnSet(s, I) + t[n + 1]
    BY <1>1, <1>2, <1>3, <1>4, SumAdd
  <1>6. SumFunction(t) = SumFunction(s) + e
    BY <1>1, <1>2, <1>5 DEF SumFunction
  <1> QED
    BY <1>6 DEF t

\* An element, if it is there, is taken out.
LEMMA SumPeel ==
  ASSUME NEW f, NEW S, IsFiniteSet(S), \A y \in S : f[y] \in Int, NEW x
  PROVE  /\ SumFunctionOnSet(f, S) = (IF x \in S THEN f[x] ELSE 0) + SumFunctionOnSet(f, S \ {x})
         /\ IsFiniteSet(S \ {x})
  <1>1. IsFiniteSet(S \ {x})
    BY FS_Subset
  <1>2. CASE x \in S
    BY <1>1, <1>2, SumRemove
  <1>3. CASE x \notin S
    <2> DEFINE T == S \ {x}
    <2>1. T = S
      BY <1>3
    <2> HIDE DEF T
    <2>2. SumFunctionOnSet(f, S) = 0 + SumFunctionOnSet(f, T)
      BY <2>1, SumType
    <2> QED
      BY <1>1, <1>3, <2>2 DEF T
  <1> QED
    BY <1>2, <1>3
=============================================================================
