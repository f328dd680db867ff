----------------------------- MODULE FiniteSums -----------------------------
(***************************************************************************)
(* The laws of MapThenSumSet, by which the modules count credits: a sum    *)
(* over a finite set is what it is over the rest and the value of any one  *)
(* element.                                                                *)
(*                                                                         *)
(* Induction is by a least counterexample: strict inclusion of the finite  *)
(* subsets of a set is well-founded.                                       *)
(***************************************************************************)
EXTENDS FiniteSetsExt, FiniteSetTheorems, WellFoundedInduction, TLAPS

SumOver(f, S) == MapThenSumSet(LAMBDA x : f[x], S)

AnyOf(s) == CHOOSE x \in s : TRUE
Rest(s) == s \ {AnyOf(s)}

\* What the recursion of the library says of the sums of f over the subsets of T.
Adds(g, f, T) == g = [s \in SUBSET T |-> IF s = {} THEN 0 ELSE f[AnyOf(s)] + g[Rest(s)]]

\* The definition, unfolded.
LEMMA SumIs == \A f, S : SumOver(f, S) = (CHOOSE g : Adds(g, f, S))[S]
BY DEF SumOver, MapThenSumSet, MapThenFoldSet, Adds, AnyOf, Rest

LEMMA RestIs ==
  ASSUME NEW S, NEW s \in SUBSET S, s # {}
  PROVE  AnyOf(s) \in s /\ Rest(s) \in SUBSET S /\ Rest(s) \subseteq s /\ Rest(s) # s
BY DEF AnyOf, Rest

\* A set of finite sets that is not empty has one with no strict subset in it.
LEMMA LeastSet ==
  ASSUME NEW B, B # {}, \A s \in B : IsFiniteSet(s)
  PROVE  \E s \in B : \A t \in B : ~(t \subseteq s /\ t # s)
<1> DEFINE S == UNION B
<1>1. B \subseteq FiniteSubsetsOf(S)
  BY DEF FiniteSubsetsOf
<1>2. PICK s \in B : \A t \in B : ~(<<t, s>> \in StrictSubsetOrdering(S))
  BY <1>1, FS_StrictSubsetOrderingWellFounded, WFMin
<1>3. \A t \in B : t \subseteq s /\ t # s => <<t, s>> \in StrictSubsetOrdering(S)
  BY DEF StrictSubsetOrdering
<1>4. \A t \in B : ~(t \subseteq s /\ t # s)
  BY <1>2, <1>3
<1>5. QED
  BY <1>4

\* Two functions that add f up agree where both are defined.
LEMMA AddsAgree ==
  ASSUME NEW f, NEW S, NEW T, NEW g, NEW h, Adds(g, f, S), Adds(h, f, T),
         NEW u \in SUBSET (S \cap T), IsFiniteSet(u)
  PROVE  g[u] = h[u]
<1> DEFINE B == {s \in SUBSET (S \cap T) : IsFiniteSet(s) /\ g[s] # h[s]}
<1>1. SUFFICES ASSUME B # {} PROVE FALSE
  OBVIOUS
<1>2. PICK s \in B : \A t \in B : ~(t \subseteq s /\ t # s)
  <2>1. \A s \in B : IsFiniteSet(s)
    OBVIOUS
  <2> HIDE DEF B
  <2>2. QED
    BY <1>1, <2>1, LeastSet
<1>3. s \in SUBSET S /\ s \in SUBSET T /\ IsFiniteSet(s) /\ g[s] # h[s]
  BY <1>2
<1>4. /\ \A t \in SUBSET S : g[t] = IF t = {} THEN 0 ELSE f[AnyOf(t)] + g[Rest(t)]
      /\ \A t \in SUBSET T : h[t] = IF t = {} THEN 0 ELSE f[AnyOf(t)] + h[Rest(t)]
  BY DEF Adds
<1>5. s # {}
  BY <1>3, <1>4
<1>6. Rest(s) \in SUBSET (S \cap T) /\ Rest(s) \subseteq s /\ Rest(s) # s /\ IsFiniteSet(Rest(s))
  BY <1>3, <1>5, RestIs, FS_Subset
<1>7. g[Rest(s)] = h[Rest(s)]
  BY <1>2, <1>6
<1>8. QED
  BY <1>3, <1>4, <1>5, <1>7

\* There is such a function for every finite set.
LEMMA AddsExist ==
  ASSUME NEW f, NEW S, IsFiniteSet(S)
  PROVE  \E g : Adds(g, f, S)
<1> DEFINE B == {T \in SUBSET S : ~\E g : Adds(g, f, T)}
<1>1. SUFFICES ASSUME B # {} PROVE FALSE
  OBVIOUS
<1>2. PICK T \in B : \A U \in B : ~(U \subseteq T /\ U # T)
  <2>1. \A U \in B : IsFiniteSet(U)
    BY FS_Subset
  <2> HIDE DEF B
  <2>2. QED
    BY <1>1, <2>1, LeastSet
<1>3. T \in SUBSET S /\ IsFiniteSet(T) /\ ~\E g : Adds(g, f, T)
  BY <1>2, FS_Subset
<1> DEFINE At(U) == CHOOSE g : Adds(g, f, U)
<1>4. \A U \in SUBSET T : U # T => Adds(At(U), f, U)
  <2>1. ASSUME NEW U \in SUBSET T, U # T PROVE \E g : Adds(g, f, U)
    BY <1>2, <1>3, <2>1
  <2>2. QED
    BY <2>1
<1> HIDE DEF At, B
<1> DEFINE g == [s \in SUBSET T |-> IF s = {} THEN 0 ELSE f[AnyOf(s)] + At(Rest(s))[Rest(s)]]
<1>5. ASSUME NEW s \in SUBSET T, s # {} PROVE g[Rest(s)] = At(Rest(s))[Rest(s)]
  <2>1. Rest(s) \in SUBSET T /\ Rest(s) # T
    BY <1>5, RestIs
  <2>2. Adds(At(Rest(s)), f, Rest(s))
    BY <1>4, <2>1
  <2>3. At(Rest(s))[Rest(s)] = IF Rest(s) = {} THEN 0 ELSE f[AnyOf(Rest(s))] + At(Rest(s))[Rest(Rest(s))]
    BY <2>2 DEF Adds
  <2>4. CASE Rest(s) = {}
    BY <2>1, <2>3, <2>4
  <2>5. CASE Rest(s) # {}
    <3>1. /\ Rest(Rest(s)) \in SUBSET Rest(s) /\ Rest(Rest(s)) \in SUBSET T /\ Rest(Rest(s)) # T
          /\ IsFiniteSet(Rest(Rest(s)))
      BY <1>3, <2>1, <2>5, RestIs, FS_Subset
    <3>2. Adds(At(Rest(Rest(s))), f, Rest(Rest(s)))
      BY <1>4, <3>1
    <3>3. At(Rest(s))[Rest(Rest(s))] = At(Rest(Rest(s)))[Rest(Rest(s))]
      BY <2>2, <3>1, <3>2, AddsAgree
    <3>4. g[Rest(s)] = f[AnyOf(Rest(s))] + At(Rest(Rest(s)))[Rest(Rest(s))]
      BY <2>1, <2>5
    <3>5. QED
      BY <2>3, <2>5, <3>3, <3>4
  <2>6. QED
    BY <2>4, <2>5
<1>6. g = [s \in SUBSET T |-> IF s = {} THEN 0 ELSE f[AnyOf(s)] + g[Rest(s)]]
  BY <1>5
<1>7. QED
  BY <1>3, <1>6 DEF Adds

\* The recursion of the sum over finite sets.
LEMMA SumStep ==
  ASSUME NEW f, NEW S, IsFiniteSet(S)
  PROVE  SumOver(f, S) = IF S = {} THEN 0 ELSE f[AnyOf(S)] + SumOver(f, Rest(S))
<1> DEFINE At(U) == CHOOSE g : Adds(g, f, U)
<1>1. \A U : IsFiniteSet(U) => Adds(At(U), f, U)
  BY AddsExist
<1>2. \A U : SumOver(f, U) = At(U)[U]
  BY SumIs
<1> HIDE DEF At
<1>3. At(S)[S] = IF S = {} THEN 0 ELSE f[AnyOf(S)] + At(S)[Rest(S)]
  BY <1>1 DEF Adds
<1>4. CASE S # {}
  <2>1. Rest(S) \in SUBSET S /\ IsFiniteSet(Rest(S))
    BY <1>4, RestIs, FS_Subset
  <2>2. At(S)[Rest(S)] = At(Rest(S))[Rest(S)]
    BY <1>1, <2>1, AddsAgree
  <2>3. QED
    BY <1>2, <1>3, <1>4, <2>2
<1>5. QED
  BY <1>2, <1>3, <1>4

\* A sum of numbers is a number.
LEMMA SumType ==
  ASSUME NEW f, NEW S, IsFiniteSet(S), \A x \in S : f[x] \in Int
  PROVE  SumOver(f, S) \in Int /\ ((\A x \in S : f[x] >= 0) => SumOver(f, S) >= 0)
<1> DEFINE Ok(T) == SumOver(f, T) \in Int /\ ((\A x \in T : f[x] >= 0) => SumOver(f, T) >= 0)
           B == {T \in SUBSET S : ~Ok(T)}
<1>1. SUFFICES ASSUME B # {} PROVE FALSE
  OBVIOUS
<1>2. PICK T \in B : \A U \in B : ~(U \subseteq T /\ U # T)
  <2>1. \A U \in B : IsFiniteSet(U)
    BY FS_Subset
  <2> HIDE DEF B
  <2>2. QED
    BY <1>1, <2>1, LeastSet
<1>3. T \in SUBSET S /\ IsFiniteSet(T) /\ ~Ok(T)
  BY <1>2, FS_Subset
<1>4. SumOver(f, T) = IF T = {} THEN 0 ELSE f[AnyOf(T)] + SumOver(f, Rest(T))
  BY <1>3, SumStep
<1>5. T # {}
  BY <1>3, <1>4
<1>6. AnyOf(T) \in T /\ Rest(T) \in SUBSET S /\ Rest(T) \subseteq T /\ Rest(T) # T
  BY <1>3, <1>5, RestIs
<1>7. Ok(Rest(T))
  BY <1>2, <1>6
<1>8. f[AnyOf(T)] \in Int
  BY <1>3, <1>6
<1>9. QED
  BY <1>3, <1>4, <1>5, <1>6, <1>7, <1>8

\* Any element can be taken out.
LEMMA SumTake ==
  ASSUME NEW f, NEW S, IsFiniteSet(S), \A x \in S : f[x] \in Int, NEW x \in S
  PROVE  SumOver(f, S) = f[x] + SumOver(f, S \ {x})
<1> DEFINE Ok(T) == \A y \in T : SumOver(f, T) = f[y] + SumOver(f, T \ {y})
           B == {T \in SUBSET S : ~Ok(T)}
<1>1. SUFFICES ASSUME B # {} PROVE FALSE
  OBVIOUS
<1>2. PICK T \in B : \A U \in B : ~(U \subseteq T /\ U # T)
  <2>1. \A U \in B : IsFiniteSet(U)
    BY FS_Subset
  <2> HIDE DEF B
  <2>2. QED
    BY <1>1, <2>1, LeastSet
<1>3. T \in SUBSET S /\ IsFiniteSet(T) /\ ~Ok(T)
  BY <1>2, FS_Subset
<1>4. PICK y \in T : SumOver(f, T) # f[y] + SumOver(f, T \ {y})
  BY <1>3
<1> DEFINE c == AnyOf(T)
<1>5. c \in T /\ Rest(T) = T \ {c} /\ SumOver(f, T) = f[c] + SumOver(f, T \ {c})
  BY <1>3, <1>4, SumStep, RestIs DEF Rest
<1> HIDE DEF c
<1>6. c # y
  BY <1>4, <1>5
<1>7. Ok(T \ {c}) /\ Ok(T \ {y})
  BY <1>2, <1>3, <1>4, <1>5
<1>8. /\ SumOver(f, T \ {c}) = f[y] + SumOver(f, (T \ {c}) \ {y})
      /\ SumOver(f, T \ {y}) = f[c] + SumOver(f, (T \ {y}) \ {c})
  BY <1>4, <1>5, <1>6, <1>7
<1>9. (T \ {c}) \ {y} = (T \ {y}) \ {c}
  OBVIOUS
<1>10. SumOver(f, (T \ {c}) \ {y}) \in Int /\ f[c] \in Int /\ f[y] \in Int
  <2>1. IsFiniteSet((T \ {c}) \ {y})
    BY <1>3, FS_RemoveElement
  <2>2. \A z \in (T \ {c}) \ {y} : f[z] \in Int
    BY <1>3
  <2>3. QED
    BY <1>3, <1>4, <1>5, <2>1, <2>2, SumType
<1> DEFINE all == SumOver(f, T)
           noC == SumOver(f, T \ {c})
           noY == SumOver(f, T \ {y})
           both == SumOver(f, (T \ {c}) \ {y})
<1>11. /\ all = f[c] + noC /\ noC = f[y] + both /\ noY = f[c] + both /\ all # f[y] + noY
       /\ both \in Int /\ f[c] \in Int /\ f[y] \in Int
  BY <1>4, <1>5, <1>8, <1>9, <1>10
<1> HIDE DEF all, noC, noY, both
<1>12. QED
  BY <1>11

\* What is the same everywhere sums up to the same.
LEMMA SumSame ==
  ASSUME NEW f, NEW g, NEW S, IsFiniteSet(S), \A x \in S : f[x] = g[x]
  PROVE  SumOver(f, S) = SumOver(g, S)
<1> DEFINE B == {T \in SUBSET S : SumOver(f, T) # SumOver(g, T)}
<1>1. SUFFICES ASSUME B # {} PROVE FALSE
  OBVIOUS
<1>2. PICK T \in B : \A U \in B : ~(U \subseteq T /\ U # T)
  <2>1. \A U \in B : IsFiniteSet(U)
    BY FS_Subset
  <2> HIDE DEF B
  <2>2. QED
    BY <1>1, <2>1, LeastSet
<1>3. T \in SUBSET S /\ IsFiniteSet(T) /\ SumOver(f, T) # SumOver(g, T)
  BY <1>2, FS_Subset
<1>4. /\ SumOver(f, T) = IF T = {} THEN 0 ELSE f[AnyOf(T)] + SumOver(f, Rest(T))
      /\ SumOver(g, T) = IF T = {} THEN 0 ELSE g[AnyOf(T)] + SumOver(g, Rest(T))
  BY <1>3, SumStep
<1>5. T # {}
  BY <1>3, <1>4
<1>6. AnyOf(T) \in T /\ Rest(T) \in SUBSET S /\ Rest(T) \subseteq T /\ Rest(T) # T
  BY <1>3, <1>5, RestIs
<1>7. SumOver(f, Rest(T)) = SumOver(g, Rest(T))
  BY <1>2, <1>6
<1>8. QED
  BY <1>3, <1>4, <1>5, <1>6, <1>7

\* A value that changes by d changes the sum by d.
LEMMA SumChange ==
  ASSUME NEW f, NEW g, NEW S, IsFiniteSet(S), NEW x \in S, NEW d \in Int,
         \A y \in S : f[y] \in Int, g[x] = f[x] + d, \A y \in S \ {x} : g[y] = f[y]
  PROVE  SumOver(g, S) = SumOver(f, S) + d
<1>1. IsFiniteSet(S \ {x}) /\ f[x] \in Int /\ g[x] \in Int
  BY FS_RemoveElement
<1>2. SumOver(g, S) = g[x] + SumOver(g, S \ {x})
  <2>1. \A y \in S : g[y] \in Int
    BY <1>1
  <2>2. QED
    BY <2>1, SumTake
<1>3. SumOver(f, S) = f[x] + SumOver(f, S \ {x})
  BY SumTake
<1>4. SumOver(g, S \ {x}) = SumOver(f, S \ {x})
  BY <1>1, SumSame
<1>5. SumOver(f, S \ {x}) \in Int
  BY <1>1, SumType
<1>6. QED
  BY <1>1, <1>2, <1>3, <1>4, <1>5

\* An element more.
LEMMA SumGrow ==
  ASSUME NEW f, NEW S, IsFiniteSet(S), NEW x, x \notin S, \A y \in S \cup {x} : f[y] \in Int
  PROVE  SumOver(f, S \cup {x}) = f[x] + SumOver(f, S)
<1>1. IsFiniteSet(S \cup {x}) /\ x \in S \cup {x} /\ (S \cup {x}) \ {x} = S
  BY FS_AddElement
<1>2. QED
  BY <1>1, SumTake

\* The same value everywhere.
LEMMA SumConst ==
  ASSUME NEW f, NEW S, IsFiniteSet(S), NEW c \in Int, \A x \in S : f[x] = c
  PROVE  SumOver(f, S) = c * Cardinality(S)
<1> DEFINE B == {T \in SUBSET S : SumOver(f, T) # c * Cardinality(T)}
<1>1. SUFFICES ASSUME B # {} PROVE FALSE
  OBVIOUS
<1>2. PICK T \in B : \A U \in B : ~(U \subseteq T /\ U # T)
  <2>1. \A U \in B : IsFiniteSet(U)
    BY FS_Subset
  <2> HIDE DEF B
  <2>2. QED
    BY <1>1, <2>1, LeastSet
<1>3. T \in SUBSET S /\ IsFiniteSet(T) /\ SumOver(f, T) # c * Cardinality(T)
  BY <1>2, FS_Subset
<1>4. T # {}
  <2>1. SumOver(f, {}) = 0 /\ Cardinality({}) = 0
    BY FS_EmptySet, SumStep
  <2>2. c * 0 = 0
    OBVIOUS
  <2>3. QED
    BY <1>3, <2>1, <2>2
<1>5. PICK x : x \in T
  BY <1>4
<1> DEFINE U == T \ {x}
<1>6. U \in SUBSET S /\ U \subseteq T /\ U # T /\ IsFiniteSet(U)
  BY <1>3, <1>5, FS_RemoveElement
<1>7. SumOver(f, U) = c * Cardinality(U)
  BY <1>2, <1>6
<1>8. Cardinality(T) = Cardinality(U) + 1 /\ Cardinality(U) \in Nat
  <2>1. Cardinality(U) = Cardinality(T) - 1 /\ Cardinality(T) \in Nat
    BY <1>3, <1>5, FS_RemoveElement, FS_CardinalityType
  <2>2. Cardinality(U) \in Nat
    BY <1>6, FS_CardinalityType
  <2>3. QED
    BY <2>1, <2>2
<1>9. SumOver(f, T) = c + SumOver(f, U)
  BY <1>3, <1>5, SumTake
<1> HIDE DEF U
<1>10. \A n \in Nat : c * (n + 1) = c + c * n
  OBVIOUS
<1>11. QED
  BY <1>3, <1>7, <1>8, <1>9, <1>10

\* A set split by a key has no more elements than its parts are allowed together.
LEMMA SumCovers ==
  ASSUME NEW R, IsFiniteSet(R), NEW key, NEW f, NEW S, IsFiniteSet(S),
         \A a \in S : f[a] \in Int /\ Cardinality({r \in R : key[r] = a}) <= f[a]
  PROVE  Cardinality({r \in R : key[r] \in S}) <= SumOver(f, S)
<1> DEFINE In(T) == {r \in R : key[r] \in T}
           Ok(T) == Cardinality(In(T)) <= SumOver(f, T)
           B == {T \in SUBSET S : ~Ok(T)}
<1>1. SUFFICES ASSUME B # {} PROVE FALSE
  OBVIOUS
<1>2. PICK T \in B : \A U \in B : ~(U \subseteq T /\ U # T)
  <2>1. \A U \in B : IsFiniteSet(U)
    BY FS_Subset
  <2> HIDE DEF B
  <2>2. QED
    BY <1>1, <2>1, LeastSet
<1>3. T \in SUBSET S /\ IsFiniteSet(T) /\ ~Ok(T)
  BY <1>2, FS_Subset
<1>4. T # {}
  <2>1. SumOver(f, {}) = 0 /\ Cardinality({}) = 0
    BY FS_EmptySet, SumStep
  <2>2. In({}) = {}
    OBVIOUS
  <2>3. QED
    BY <1>3, <2>1, <2>2
<1>5. PICK x : x \in T
  BY <1>4
<1> DEFINE U == T \ {x}
           own == {r \in R : key[r] = x}
<1>6. U \in SUBSET S /\ U \subseteq T /\ U # T /\ IsFiniteSet(U)
  BY <1>3, <1>5, FS_RemoveElement
<1>7. Ok(U)
  BY <1>2, <1>6
<1>8. SumOver(f, T) = f[x] + SumOver(f, U) /\ SumOver(f, U) \in Int /\ f[x] \in Int
  <2>1. \A y \in T : f[y] \in Int
    BY <1>3
  <2>2. \A y \in U : f[y] \in Int
    BY <2>1
  <2>3. QED
    BY <1>3, <1>5, <1>6, <2>1, <2>2, SumTake, SumType
<1>9. Cardinality(In(T)) <= Cardinality(In(U)) + Cardinality(own)
  <2>1. In(T) = In(U) \cup own
    BY <1>5
  <2>2. IsFiniteSet(In(U)) /\ IsFiniteSet(own) /\ IsFiniteSet(In(U) \cap own)
    BY FS_Subset
  <2> HIDE DEF In, own
  <2>3. /\ Cardinality(In(U) \cup own)
             = Cardinality(In(U)) + Cardinality(own) - Cardinality(In(U) \cap own)
        /\ Cardinality(In(U)) \in Nat /\ Cardinality(own) \in Nat
        /\ Cardinality(In(U) \cap own) \in Nat
    BY <2>2, FS_Union, FS_CardinalityType
  <2>4. QED
    BY <2>1, <2>3
<1>10. Cardinality(own) <= f[x]
  BY <1>3, <1>5
<1>11. IsFiniteSet(In(T)) /\ IsFiniteSet(In(U)) /\ IsFiniteSet(own)
  BY FS_Subset
<1>12. Cardinality(In(T)) \in Nat /\ Cardinality(In(U)) \in Nat /\ Cardinality(own) \in Nat
  BY <1>11, FS_CardinalityType
<1> DEFINE all == Cardinality(In(T))
           some == Cardinality(In(U))
           one == Cardinality(own)
<1>13. /\ all <= some + one /\ one <= f[x] /\ some <= SumOver(f, U)
       /\ ~(all <= f[x] + SumOver(f, U)) /\ all \in Nat /\ some \in Nat /\ one \in Nat
       /\ f[x] \in Int /\ SumOver(f, U) \in Int
  BY <1>3, <1>7, <1>8, <1>9, <1>10, <1>12
<1> HIDE DEF all, some, one
<1>14. QED
  BY <1>13

\* A sum is at most another one that is no smaller anywhere, and leaves out zeros only.
LEMMA SumWithin ==
  ASSUME NEW g, NEW h, NEW S, IsFiniteSet(S), NEW T \in SUBSET S,
         \A x \in S : g[x] \in Int, \A x \in S \ T : g[x] = 0,
         \A x \in T : h[x] \in Int /\ h[x] >= g[x]
  PROVE  SumOver(g, S) <= SumOver(h, T) /\ SumOver(g, S) \in Int /\ SumOver(h, T) \in Int
<1> DEFINE Ok(U) == SumOver(g, U) <= SumOver(h, U \cap T)
           B == {U \in SUBSET S : ~Ok(U)}
<1>1. ASSUME B # {} PROVE FALSE
  <2>1. PICK U \in B : \A V \in B : ~(V \subseteq U /\ V # U)
    <3>1. \A V \in B : IsFiniteSet(V)
      BY FS_Subset
    <3> HIDE DEF B
    <3>2. QED
      BY <1>1, <3>1, LeastSet
  <2>2. U \in SUBSET S /\ IsFiniteSet(U) /\ ~Ok(U) /\ IsFiniteSet(U \cap T)
    BY <2>1, FS_Subset
  <2>3. U # {}
    <3>1. SumOver(g, {}) = 0 /\ SumOver(h, {}) = 0
      BY FS_EmptySet, SumStep
    <3>2. {} \cap T = {}
      OBVIOUS
    <3>3. Ok({})
      BY <3>1, <3>2
    <3>4. QED
      BY <2>2, <3>3
  <2>4. PICK x \in U : TRUE
    BY <2>3
  <2> DEFINE V == U \ {x}
  <2>5. V \in SUBSET S /\ V \subseteq U /\ V # U /\ IsFiniteSet(V) /\ IsFiniteSet(V \cap T)
    BY <2>2, FS_RemoveElement, FS_Subset
  <2>6. Ok(V)
    BY <2>1, <2>5
  <2>7. /\ SumOver(g, U) = g[x] + SumOver(g, V) /\ SumOver(g, V) \in Int /\ g[x] \in Int
        /\ SumOver(h, V \cap T) \in Int
    <3>1. (\A y \in U : g[y] \in Int) /\ (\A y \in V : g[y] \in Int) /\ \A y \in V \cap T : h[y] \in Int
      BY <2>2, <2>5
    <3>2. QED
      BY <2>2, <2>4, <2>5, <3>1, SumTake, SumType
  <2>8. CASE x \in T
    <3>1. (U \cap T) \ {x} = V \cap T /\ x \in U \cap T /\ \A y \in U \cap T : h[y] \in Int
      BY <2>4, <2>8
    <3>2. SumOver(h, U \cap T) = h[x] + SumOver(h, V \cap T)
      BY <2>2, <3>1, SumTake
    <3>3. h[x] >= g[x] /\ h[x] \in Int
      BY <2>8
    <3>4. SumOver(g, V) <= SumOver(h, V \cap T)
      BY <2>6
    <3> HIDE DEF V
    <3>5. SumOver(g, U) <= SumOver(h, U \cap T)
      BY <2>7, <3>2, <3>3, <3>4
    <3>6. QED
      BY <2>2, <3>5
  <2>9. CASE x \notin T
    <3>1. U \cap T = V \cap T /\ g[x] = 0
      BY <2>2, <2>4, <2>9
    <3>2. SumOver(g, V) <= SumOver(h, V \cap T)
      BY <2>6
    <3> HIDE DEF V
    <3>3. SumOver(g, U) = SumOver(g, V)
      BY <2>7, <3>1
    <3>4. SumOver(g, U) <= SumOver(h, U \cap T)
      BY <3>1, <3>2, <3>3
    <3>5. QED
      BY <2>2, <3>4
  <2>10. QED
    BY <2>8, <2>9
<1>2. Ok(S) /\ S \cap T = T
  BY <1>1
<1>3. SumOver(g, S) \in Int /\ SumOver(h, T) \in Int
  BY FS_Subset, SumType
<1>4. QED
  BY <1>2, <1>3
=============================================================================
