-------------------------------- MODULE Counting --------------------------------
(* What SumFunctionOnSet of the community module Functions computes: the     *)
(* sums of the model's counters are all written with it.  The operator folds *)
(* over CHOOSEn elements by a recursive function, so the first lemmas show   *)
(* that this function exists and is unique, and the next that the order of   *)
(* the elements does not matter.  Induction over a finite set is done with a *)
(* smallest counterexample (SmallestSet), which needs no theorem with an     *)
(* operator parameter.  Then places in sequences, and division: things dealt *)
(* out to places in turn, as list indices modulo a length do.                *)
EXTENDS Integers, Sequences, FiniteSets, Functions, FiniteSetTheorems,
        FunctionTheorems, SequenceTheorems, WellFoundedInduction, TLAPS

\* A segment of the naturals has as many members as its length.
LEMMA IntervalCount ==
  ASSUME NEW n \in Nat
  PROVE  IsFiniteSet(1..n) /\ Cardinality(1..n) = n
<1>1. IsFiniteSet(1..n) /\ Cardinality(1..n) = IF 1 > n THEN 0 ELSE n - 1 + 1
  BY FS_Interval
<1>2. QED
  BY <1>1

-----------------------------------------------------------------------------
Chosen(S) == CHOOSE x \in S : TRUE

\* g is the recursive function by which the sum of f over S is defined.
SumsUpTo(f, g, S) ==
  g = [s \in SUBSET S |->
         IF s = {} THEN 0 ELSE f[Chosen(s)] + g[s \ {Chosen(s)}]]

\* Among sets of subsets of a finite set there is a smallest one.
LEMMA SmallestSet ==
  ASSUME NEW S, IsFiniteSet(S), NEW B \in SUBSET (SUBSET S), B # {}
  PROVE  \E T \in B : \A U \in B : U \subseteq T => U = T
<1>1. IsWellFoundedOn(StrictSubsetOrdering(S), SUBSET S)
  BY FS_StrictSubsetOrderingWellFounded, FS_FiniteSubsetsOfFinite
<1>2. \E T \in B : \A U \in B : ~(<<U, T>> \in StrictSubsetOrdering(S))
  BY <1>1, WFMin
<1>3. QED
  BY <1>2 DEF StrictSubsetOrdering

LEMMA ChosenIn == ASSUME NEW S, S # {} PROVE Chosen(S) \in S
BY DEF Chosen

\* Two such functions agree where both are defined.
LEMMA SumsAgree ==
  ASSUME NEW f, NEW g, NEW h, NEW S, NEW T, SumsUpTo(f, g, S),
         SumsUpTo(f, h, T), NEW U, IsFiniteSet(U), U \subseteq S, U \subseteq T
  PROVE  g[U] = h[U]
<1> DEFINE B == { V \in SUBSET U : g[V] # h[V] }
<1>1. SUFFICES ASSUME B # {} PROVE FALSE
  OBVIOUS
<1>2. PICK V \in B : \A W \in B : W \subseteq V => W = V
  <2>1. B \in SUBSET (SUBSET U)
    OBVIOUS
  <2>2. QED
    <3> HIDE DEF B
    <3> QED BY <1>1, <2>1, SmallestSet
<1>3. \A W \in SUBSET U :
        /\ g[W] = IF W = {} THEN 0 ELSE f[Chosen(W)] + g[W \ {Chosen(W)}]
        /\ h[W] = IF W = {} THEN 0 ELSE f[Chosen(W)] + h[W \ {Chosen(W)}]
  BY DEF SumsUpTo
<1>4. V # {}
  BY <1>3
<1>5. Chosen(V) \in V
  BY <1>4, ChosenIn
<1>6. V \ {Chosen(V)} \notin B
  BY <1>2, <1>5
<1>7. QED
  BY <1>3, <1>4, <1>6

\* On a finite set the recursive function exists.
LEMMA SumsExist ==
  ASSUME NEW f, NEW S, IsFiniteSet(S)
  PROVE  \E g : SumsUpTo(f, g, S)
<1> DEFINE B == { T \in SUBSET S : ~ \E g : SumsUpTo(f, g, T) }
<1>1. SUFFICES ASSUME B # {} PROVE FALSE
  OBVIOUS
<1>2. PICK T \in B : \A U \in B : U \subseteq T => U = T
  <2>1. B \in SUBSET (SUBSET S)
    OBVIOUS
  <2>2. QED
    <3> HIDE DEF B
    <3> QED BY <1>1, <2>1, SmallestSet
<1> DEFINE G(U) == CHOOSE g : SumsUpTo(f, g, U)
           h == [s \in SUBSET T |->
                   IF s = {} THEN 0
                   ELSE f[Chosen(s)] + G(s \ {Chosen(s)})[s \ {Chosen(s)}]]
<1>3. ASSUME NEW U \in SUBSET T, U # T PROVE SumsUpTo(f, G(U), U)
  BY <1>2, <1>3
<1>4. ASSUME NEW U \in SUBSET T, U # T PROVE h[U] = G(U)[U]
  <2>1. SumsUpTo(f, G(U), U)
    BY <1>3, <1>4
  <2>2. G(U)[U] = IF U = {} THEN 0 ELSE f[Chosen(U)] + G(U)[U \ {Chosen(U)}]
    <3> HIDE DEF G
    <3> QED BY <2>1 DEF SumsUpTo
  <2>3. CASE U = {}
    BY <2>2, <2>3
  <2>4. CASE U # {}
    <3> DEFINE W == U \ {Chosen(U)}
    <3>1. W \in SUBSET T /\ W # T /\ W \subseteq U /\ IsFiniteSet(W)
      BY <1>4, <2>4, ChosenIn, FS_Subset
    <3>2. SumsUpTo(f, G(W), W)
      BY <1>3, <3>1
    <3>3. G(U)[W] = G(W)[W]
      <4> HIDE DEF G, W
      <4> QED BY <2>1, <3>1, <3>2, SumsAgree
    <3>4. h[U] = f[Chosen(U)] + G(W)[W]
      <4> HIDE DEF G
      <4> QED BY <2>4
    <3>5. QED
      <4> HIDE DEF G, h
      <4> QED BY <2>2, <2>4, <3>3, <3>4
  <2>5. QED
    BY <2>3, <2>4
<1>5. \A s \in SUBSET T : s # {} =>
        LET x == Chosen(s) IN h[s \ {x}] = G(s \ {x})[s \ {x}]
  <2> HIDE DEF h, G
  <2> QED BY <1>4, ChosenIn
<1>6. SumsUpTo(f, h, T)
  <2>1. \A s \in SUBSET T :
          h[s] = IF s = {} THEN 0
                 ELSE f[Chosen(s)] + G(s \ {Chosen(s)})[s \ {Chosen(s)}]
    <3> HIDE DEF G
    <3> QED OBVIOUS
  <2>2. DOMAIN h = SUBSET T /\ h = [s \in DOMAIN h |-> h[s]]
    <3> HIDE DEF G
    <3> QED OBVIOUS
  <2>3. QED
    <3> HIDE DEF h, G
    <3> QED BY <1>5, <2>1, <2>2 DEF SumsUpTo
<1>7. QED
  BY <1>2, <1>6

LEMMA SumIs ==
  ASSUME NEW f, NEW S
  PROVE  SumFunctionOnSet(f, S) = (CHOOSE g : SumsUpTo(f, g, S))[S]
BY DEF SumFunctionOnSet, FoldFunctionOnSet, MapThenFoldSet, SumsUpTo, Chosen

\* The recursion the operator folds by, as an equation.
LEMMA SumEquation ==
  ASSUME NEW f, NEW S, IsFiniteSet(S)
  PROVE  /\ SumFunctionOnSet(f, {}) = 0
         /\ S # {} => SumFunctionOnSet(f, S) =
              f[Chosen(S)] + SumFunctionOnSet(f, S \ {Chosen(S)})
<1> DEFINE G(U) == CHOOSE g : SumsUpTo(f, g, U)
<1>1. ASSUME NEW U, IsFiniteSet(U) PROVE SumsUpTo(f, G(U), U)
  BY <1>1, SumsExist
<1>2. ASSUME NEW U, IsFiniteSet(U)
      PROVE  /\ SumFunctionOnSet(f, U) = G(U)[U]
             /\ \A V \in SUBSET U :
                  G(U)[V] = IF V = {} THEN 0
                            ELSE f[Chosen(V)] + G(U)[V \ {Chosen(V)}]
  <2>1. SumFunctionOnSet(f, U) = G(U)[U]
    BY SumIs
  <2>2. SumsUpTo(f, G(U), U)
    BY <1>1, <1>2
  <2>3. QED
    <3> HIDE DEF G
    <3> QED BY <2>1, <2>2 DEF SumsUpTo
<1>3. SumFunctionOnSet(f, {}) = 0
  <2> HIDE DEF G
  <2> QED BY <1>2, FS_EmptySet
<1>4. ASSUME S # {}
      PROVE  SumFunctionOnSet(f, S) =
               f[Chosen(S)] + SumFunctionOnSet(f, S \ {Chosen(S)})
  <2> DEFINE W == S \ {Chosen(S)}
  <2>1. W \subseteq S /\ IsFiniteSet(W)
    BY FS_Subset
  <2>2. SumsUpTo(f, G(S), S) /\ SumsUpTo(f, G(W), W)
    <3> HIDE DEF G, W
    <3> QED BY <1>1, <2>1
  <2>3. G(S)[W] = G(W)[W]
    <3> HIDE DEF G, W
    <3> QED BY <2>1, <2>2, SumsAgree
  <2>4. SumFunctionOnSet(f, S) = f[Chosen(S)] + G(S)[W]
    <3> HIDE DEF G
    <3> QED BY <1>2, <1>4
  <2>5. SumFunctionOnSet(f, W) = G(W)[W]
    <3> HIDE DEF G, W
    <3> QED BY <1>2, <2>1
  <2>6. QED
    BY <2>3, <2>4, <2>5
<1>5. QED
  BY <1>3, <1>4

Smallest(B, T) == T \in B /\ \A x \in T : T \ {x} \notin B

\* A set of subsets has a member from which no element can be taken away.
LEMMA LeastCounterexample ==
  ASSUME NEW S, IsFiniteSet(S)
  PROVE  \A B \in SUBSET (SUBSET S) : B # {} =>
           \E T \in SUBSET S : Smallest(B, T) /\ IsFiniteSet(T)
<1> TAKE B \in SUBSET (SUBSET S)
<1> HAVE B # {}
<1>1. PICK T \in B : \A U \in B : U \subseteq T => U = T
  BY SmallestSet
<1>2. \A x \in T : T \ {x} \notin B
  BY <1>1
<1>3. QED
  BY <1>1, <1>2, FS_Subset, ChosenIn DEF Smallest

LEMMA SumInt ==
  ASSUME NEW f, NEW S, IsFiniteSet(S), \A x \in S : f[x] \in Int
  PROVE  SumFunctionOnSet(f, S) \in Int
<1> DEFINE B == { T \in SUBSET S : SumFunctionOnSet(f, T) \notin Int }
<1>1. SUFFICES ASSUME B # {} PROVE FALSE
  OBVIOUS
<1>2. PICK T \in SUBSET S : Smallest(B, T) /\ IsFiniteSet(T)
  <2>1. B \in SUBSET (SUBSET S)
    OBVIOUS
  <2>2. QED
    <3> HIDE DEF B
    <3> QED BY <1>1, <2>1, LeastCounterexample
<1>3. T # {}
  <2>1. SumFunctionOnSet(f, {}) = 0
    BY SumEquation, FS_EmptySet
  <2>2. QED
    BY <1>2, <2>1 DEF Smallest
<1>4. SumFunctionOnSet(f, T) = f[Chosen(T)] + SumFunctionOnSet(f, T \ {Chosen(T)})
  BY <1>2, <1>3, SumEquation, ChosenIn
<1>5. T \ {Chosen(T)} \notin B /\ T \in B
  BY <1>2, <1>3, ChosenIn DEF Smallest
<1>6. SumFunctionOnSet(f, T \ {Chosen(T)}) \in Int
  BY <1>5
<1>7. QED
  BY <1>2, <1>3, <1>4, <1>5, <1>6, ChosenIn

\* The order of the elements does not matter: any one can be taken out first.
LEMMA SumTakeOut ==
  ASSUME NEW f, NEW S, IsFiniteSet(S), \A x \in S : f[x] \in Int, NEW x \in S
  PROVE  SumFunctionOnSet(f, S) = f[x] + SumFunctionOnSet(f, S \ {x})
<1> DEFINE Sum(T) == SumFunctionOnSet(f, T)
           B == { T \in SUBSET S : \E y \in T : Sum(T) # f[y] + Sum(T \ {y}) }
<1>1. SUFFICES ASSUME B # {} PROVE FALSE
  OBVIOUS
<1>2. PICK T \in SUBSET S : Smallest(B, T) /\ IsFiniteSet(T)
  <2>1. B \in SUBSET (SUBSET S)
    OBVIOUS
  <2>2. QED
    <3> HIDE DEF B, Sum
    <3> QED BY <1>1, <2>1, LeastCounterexample
<1>3. PICK y \in T : Sum(T) # f[y] + Sum(T \ {y})
  BY <1>2 DEF Smallest
<1> DEFINE c == Chosen(T)
<1>4. c \in T /\ Sum(T) = f[c] + Sum(T \ {c})
  BY <1>2, <1>3, SumEquation, ChosenIn
<1>5. y # c
  BY <1>3, <1>4
<1>6. \A z \in T : T \ {z} \notin B /\ IsFiniteSet(T \ {z})
  BY <1>2, FS_Subset DEF Smallest
<1>7. Sum(T \ {c}) = f[y] + Sum((T \ {c}) \ {y})
  <2>1. T \ {c} \in SUBSET S /\ T \ {c} \notin B /\ y \in T \ {c}
    BY <1>3, <1>4, <1>5, <1>6
  <2>2. QED
    <3> HIDE DEF Sum, c
    <3> QED BY <2>1
<1>8. Sum(T \ {y}) = f[c] + Sum((T \ {y}) \ {c})
  <2>1. T \ {y} \in SUBSET S /\ T \ {y} \notin B /\ c \in T \ {y}
    BY <1>3, <1>4, <1>5, <1>6
  <2>2. QED
    <3> HIDE DEF Sum, c
    <3> QED BY <2>1
<1>9. (T \ {c}) \ {y} = (T \ {y}) \ {c}
  OBVIOUS
<1>10. /\ f[y] \in Int /\ f[c] \in Int
       /\ Sum((T \ {c}) \ {y}) \in Int
  <2>1. IsFiniteSet((T \ {c}) \ {y}) /\ (T \ {c}) \ {y} \subseteq S
    BY <1>2, FS_Subset
  <2>2. QED
    BY <1>3, <1>4, <2>1, SumInt
<1>11. Sum(T \ {y}) = f[c] + Sum((T \ {c}) \ {y})
  BY <1>8, <1>9
<1>12. QED
  <2> DEFINE W == (T \ {c}) \ {y}
  <2>1. /\ Sum(T \ {c}) = f[y] + Sum(W)
        /\ Sum(T \ {y}) = f[c] + Sum(W)
        /\ Sum(W) \in Int /\ f[y] \in Int /\ f[c] \in Int
    BY <1>7, <1>10, <1>11
  <2>2. f[c] + Sum(T \ {c}) = f[y] + Sum(T \ {y})
    <3> HIDE DEF Sum, c, W
    <3> QED BY <2>1
  <2>3. QED
    BY <1>3, <1>4, <2>2

LEMMA SumNat ==
  ASSUME NEW f, NEW S, IsFiniteSet(S), \A x \in S : f[x] \in Nat
  PROVE  SumFunctionOnSet(f, S) \in Nat
<1> DEFINE B == { T \in SUBSET S : SumFunctionOnSet(f, T) \notin Nat }
<1>1. SUFFICES ASSUME B # {} PROVE FALSE
  OBVIOUS
<1>2. PICK T \in SUBSET S : Smallest(B, T) /\ IsFiniteSet(T)
  <2>1. B \in SUBSET (SUBSET S)
    OBVIOUS
  <2>2. QED
    <3> HIDE DEF B
    <3> QED BY <1>1, <2>1, LeastCounterexample
<1>3. T # {}
  <2>1. SumFunctionOnSet(f, {}) = 0
    BY SumEquation, FS_EmptySet
  <2>2. QED
    BY <1>2, <2>1 DEF Smallest
<1>4. PICK x \in T : TRUE
  BY <1>3
<1>5. SumFunctionOnSet(f, T) = f[x] + SumFunctionOnSet(f, T \ {x})
  <2>1. \A y \in T : f[y] \in Int
    OBVIOUS
  <2>2. QED
    BY <1>2, <2>1, SumTakeOut
<1>6. SumFunctionOnSet(f, T \ {x}) \in Nat /\ T \in B
  BY <1>2 DEF Smallest
<1>7. QED
  BY <1>5, <1>6

\* A sum of smaller terms is no larger.
LEMMA SumMonotone ==
  ASSUME NEW f, NEW g, NEW S, IsFiniteSet(S),
         \A x \in S : f[x] \in Int /\ g[x] \in Int /\ f[x] <= g[x]
  PROVE  SumFunctionOnSet(f, S) <= SumFunctionOnSet(g, S)
<1> DEFINE F(T) == SumFunctionOnSet(f, T)
           G(T) == SumFunctionOnSet(g, T)
           B == { T \in SUBSET S : ~(F(T) <= G(T)) }
<1>1. SUFFICES ASSUME B # {} PROVE FALSE
  OBVIOUS
<1>2. PICK T \in SUBSET S : Smallest(B, T) /\ IsFiniteSet(T)
  <2>1. B \in SUBSET (SUBSET S)
    OBVIOUS
  <2>2. QED
    <3> HIDE DEF B, F, G
    <3> QED BY <1>1, <2>1, LeastCounterexample
<1>3. T # {}
  <2>1. F({}) = 0 /\ G({}) = 0
    BY SumEquation, FS_EmptySet
  <2>2. QED
    <3> HIDE DEF F, G
    <3> QED BY <1>2, <2>1 DEF Smallest
<1>4. PICK x \in T : TRUE
  BY <1>3
<1>5. F(T) = f[x] + F(T \ {x}) /\ G(T) = g[x] + G(T \ {x})
  <2>1. \A y \in T : f[y] \in Int /\ g[y] \in Int
    OBVIOUS
  <2>2. QED
    BY <1>2, <2>1, SumTakeOut
<1>6. F(T \ {x}) \in Int /\ G(T \ {x}) \in Int
  <2>1. IsFiniteSet(T \ {x}) /\ \A y \in T \ {x} : f[y] \in Int /\ g[y] \in Int
    BY <1>2, FS_Subset
  <2>2. QED
    BY <2>1, SumInt
<1>7. F(T \ {x}) <= G(T \ {x}) /\ T \in B
  <2> HIDE DEF F, G
  <2> QED BY <1>2 DEF Smallest
<1>8. f[x] \in Int /\ g[x] \in Int /\ f[x] <= g[x]
  OBVIOUS
<1>9. QED
  <2>1. F(T) <= G(T)
    <3> HIDE DEF F, G
    <3> QED BY <1>5, <1>6, <1>7, <1>8
  <2>2. QED
    BY <1>7, <2>1

\* A sum depends on the values of the terms alone.
LEMMA SumSame ==
  ASSUME NEW f, NEW g, NEW S, IsFiniteSet(S),
         \A x \in S : f[x] \in Int /\ g[x] = f[x]
  PROVE  SumFunctionOnSet(g, S) = SumFunctionOnSet(f, S)
<1>1. /\ \A x \in S : f[x] \in Int /\ g[x] \in Int /\ f[x] <= g[x]
      /\ \A x \in S : g[x] \in Int /\ f[x] \in Int /\ g[x] <= f[x]
  OBVIOUS
<1>2. /\ SumFunctionOnSet(f, S) <= SumFunctionOnSet(g, S)
      /\ SumFunctionOnSet(g, S) <= SumFunctionOnSet(f, S)
  BY <1>1, SumMonotone
<1>3. SumFunctionOnSet(f, S) \in Int /\ SumFunctionOnSet(g, S) \in Int
  BY <1>1, SumInt
<1>4. QED
  BY <1>2, <1>3

\* What one term adds, the sum gains.
LEMMA SumChange ==
  ASSUME NEW f, NEW g, NEW S, IsFiniteSet(S), NEW x \in S,
         \A y \in S : f[y] \in Int /\ g[y] \in Int,
         \A y \in S \ {x} : g[y] = f[y]
  PROVE  SumFunctionOnSet(g, S) = SumFunctionOnSet(f, S) - f[x] + g[x]
<1>1. IsFiniteSet(S \ {x})
  BY FS_Subset
<1>2. SumFunctionOnSet(g, S \ {x}) = SumFunctionOnSet(f, S \ {x})
  BY <1>1, SumSame
<1>3. /\ SumFunctionOnSet(f, S) = f[x] + SumFunctionOnSet(f, S \ {x})
      /\ SumFunctionOnSet(g, S) = g[x] + SumFunctionOnSet(g, S \ {x})
  BY SumTakeOut
<1>4. SumFunctionOnSet(f, S \ {x}) \in Int /\ f[x] \in Int /\ g[x] \in Int
  BY <1>1, SumInt
<1>5. QED
  BY <1>2, <1>3, <1>4

\* A sum over a sequence that has become one longer.
LEMMA SumExtend ==
  ASSUME NEW k \in Nat, NEW f, NEW g, DOMAIN f = 1..k, DOMAIN g = 1..(k + 1),
         \A n \in 1..k : f[n] \in Int /\ g[n] = f[n], g[k + 1] \in Int
  PROVE  SumFunction(g) = SumFunction(f) + g[k + 1]
<1>1. IsFiniteSet(1..k) /\ IsFiniteSet(1..(k + 1))
  BY IntervalCount
<1>2. (1..(k + 1)) \ {k + 1} = 1..k /\ k + 1 \in 1..(k + 1)
  OBVIOUS
<1>3. \A n \in 1..(k + 1) : g[n] \in Int
  <2> SUFFICES ASSUME NEW n \in 1..(k + 1) PROVE g[n] \in Int
    OBVIOUS
  <2>1. n \in 1..k \/ n = k + 1
    OBVIOUS
  <2>2. QED
    BY <2>1
<1>4. SumFunctionOnSet(g, 1..(k + 1)) = g[k + 1] + SumFunctionOnSet(g, 1..k)
  <2>1. SumFunctionOnSet(g, 1..(k + 1))
          = g[k + 1] + SumFunctionOnSet(g, (1..(k + 1)) \ {k + 1})
    BY <1>1, <1>2, <1>3, SumTakeOut
  <2>2. QED
    BY <1>2, <2>1
<1>5. SumFunctionOnSet(g, 1..k) = SumFunctionOnSet(f, 1..k)
  BY <1>1, SumSame
<1>6. SumFunctionOnSet(f, 1..k) \in Int
  BY <1>1, SumInt
<1>7. QED
  BY <1>4, <1>5, <1>6 DEF SumFunction

\* The sum of equal terms is a product.
LEMMA SumConstant ==
  ASSUME NEW f, NEW S, IsFiniteSet(S), NEW c \in Int, \A x \in S : f[x] = c
  PROVE  SumFunctionOnSet(f, S) = c * Cardinality(S)
<1> DEFINE F(T) == SumFunctionOnSet(f, T)
           B == { T \in SUBSET S : F(T) # c * Cardinality(T) }
<1>1. SUFFICES ASSUME B # {} PROVE FALSE
  OBVIOUS
<1>2. PICK T \in SUBSET S : Smallest(B, T) /\ IsFiniteSet(T)
  <2>1. B \in SUBSET (SUBSET S)
    OBVIOUS
  <2>2. QED
    <3> HIDE DEF B, F
    <3> QED BY <1>1, <2>1, LeastCounterexample
<1>3. T # {}
  <2>1. F({}) = 0 /\ Cardinality({}) = 0
    BY SumEquation, FS_EmptySet
  <2>2. QED
    <3> HIDE DEF F
    <3> QED BY <1>2, <2>1 DEF Smallest
<1>4. PICK x \in T : TRUE
  BY <1>3
<1>5. F(T) = c + F(T \ {x})
  <2>1. \A y \in T : f[y] \in Int
    OBVIOUS
  <2>2. QED
    BY <1>2, <2>1, SumTakeOut
<1>6. F(T \ {x}) = c * Cardinality(T \ {x}) /\ T \in B
  <2> HIDE DEF F
  <2> QED BY <1>2 DEF Smallest
<1>7. Cardinality(T \ {x}) = Cardinality(T) - 1 /\ Cardinality(T) \in Nat
  BY <1>2, FS_RemoveElement, FS_CardinalityType
<1>8. c * Cardinality(T) = c + c * (Cardinality(T) - 1)
  BY <1>7
<1>9. QED
  <2>1. F(T) = c * Cardinality(T)
    <3> HIDE DEF F
    <3> QED BY <1>5, <1>6, <1>7, <1>8
  <2>2. QED
    BY <1>6, <2>1

\* Two sums over the same set are one sum.
LEMMA SumPlus ==
  ASSUME NEW f, NEW g, NEW h, NEW S, IsFiniteSet(S),
         \A x \in S : f[x] \in Int /\ g[x] \in Int /\ h[x] = f[x] + g[x]
  PROVE  SumFunctionOnSet(h, S) = SumFunctionOnSet(f, S) + SumFunctionOnSet(g, S)
<1> DEFINE F(T) == SumFunctionOnSet(f, T)
           G(T) == SumFunctionOnSet(g, T)
           H(T) == SumFunctionOnSet(h, T)
           B == { T \in SUBSET S : H(T) # F(T) + G(T) }
<1>1. SUFFICES ASSUME B # {} PROVE FALSE
  OBVIOUS
<1>2. PICK T \in SUBSET S : Smallest(B, T) /\ IsFiniteSet(T)
  <2>1. B \in SUBSET (SUBSET S)
    OBVIOUS
  <2>2. QED
    <3> HIDE DEF B, F, G, H
    <3> QED BY <1>1, <2>1, LeastCounterexample
<1>3. T # {}
  <2>1. F({}) = 0 /\ G({}) = 0 /\ H({}) = 0
    BY SumEquation, FS_EmptySet
  <2>2. QED
    <3> HIDE DEF F, G, H
    <3> QED BY <1>2, <2>1 DEF Smallest
<1>4. PICK x \in T : TRUE
  BY <1>3
<1>5. F(T) = f[x] + F(T \ {x}) /\ G(T) = g[x] + G(T \ {x}) /\ H(T) = h[x] + H(T \ {x})
  <2>1. \A y \in T : f[y] \in Int /\ g[y] \in Int /\ h[y] \in Int
    OBVIOUS
  <2>2. QED
    BY <1>2, <2>1, SumTakeOut
<1>6. F(T \ {x}) \in Int /\ G(T \ {x}) \in Int
  <2>1. IsFiniteSet(T \ {x}) /\ \A y \in T \ {x} : f[y] \in Int /\ g[y] \in Int
    BY <1>2, FS_Subset
  <2>2. QED
    BY <2>1, SumInt
<1>7. H(T \ {x}) = F(T \ {x}) + G(T \ {x}) /\ T \in B
  <2> HIDE DEF F, G, H
  <2> QED BY <1>2 DEF Smallest
<1>8. f[x] \in Int /\ g[x] \in Int /\ h[x] = f[x] + g[x]
  OBVIOUS
<1>9. QED
  <2>1. H(T) = F(T) + G(T)
    <3> HIDE DEF F, G, H
    <3> QED BY <1>5, <1>6, <1>7, <1>8
  <2>2. QED
    BY <1>7, <2>1

\* The sum over two sets that have no element in common.
LEMMA SumUnion ==
  ASSUME NEW f, NEW S, NEW R, IsFiniteSet(S), IsFiniteSet(R), S \cap R = {},
         \A x \in S \cup R : f[x] \in Int
  PROVE  SumFunctionOnSet(f, S \cup R) = SumFunctionOnSet(f, S) + SumFunctionOnSet(f, R)
<1> DEFINE F(T) == SumFunctionOnSet(f, T)
           B == { T \in SUBSET R : F(S \cup T) # F(S) + F(T) }
<1>1. SUFFICES ASSUME B # {} PROVE FALSE
  OBVIOUS
<1>2. PICK T \in SUBSET R : Smallest(B, T) /\ IsFiniteSet(T)
  <2>1. B \in SUBSET (SUBSET R)
    OBVIOUS
  <2>2. QED
    <3> HIDE DEF B, F
    <3> QED BY <1>1, <2>1, LeastCounterexample
<1>3. F(S) \in Int
  BY SumInt
<1>4. T # {}
  <2>1. F({}) = 0 /\ S \cup {} = S
    BY SumEquation, FS_EmptySet
  <2>2. F(S \cup {}) = F(S) + F({})
    <3> HIDE DEF F
    <3> QED BY <1>3, <2>1
  <2>3. QED
    BY <1>2, <2>2 DEF Smallest
<1>5. PICK x \in T : TRUE
  BY <1>4
<1>6. F(T) = f[x] + F(T \ {x})
  <2>1. \A y \in T : f[y] \in Int
    OBVIOUS
  <2>2. QED
    BY <1>2, <2>1, SumTakeOut
<1>7. F(S \cup T) = f[x] + F(S \cup (T \ {x}))
  <2>1. IsFiniteSet(S \cup T) /\ \A y \in S \cup T : f[y] \in Int
    BY <1>2, FS_Union
  <2>2. (S \cup T) \ {x} = S \cup (T \ {x}) /\ x \in S \cup T
    OBVIOUS
  <2>3. F(S \cup T) = f[x] + F((S \cup T) \ {x})
    BY <2>1, <2>2, SumTakeOut
  <2>4. QED
    BY <2>2, <2>3
<1>8. F(S \cup (T \ {x})) = F(S) + F(T \ {x}) /\ T \in B
  <2> HIDE DEF F
  <2> QED BY <1>2 DEF Smallest
<1>9. F(T \ {x}) \in Int /\ f[x] \in Int
  <2>1. IsFiniteSet(T \ {x}) /\ \A y \in T \ {x} : f[y] \in Int
    BY <1>2, FS_Subset
  <2>2. QED
    BY <2>1, SumInt
<1>10. QED
  <2>1. F(S \cup T) = F(S) + F(T)
    <3> HIDE DEF F
    <3> QED BY <1>3, <1>6, <1>7, <1>8, <1>9
  <2>2. QED
    BY <1>8, <2>1

\* A sum of terms that are one number or nothing.
LEMMA SumOfSome ==
  ASSUME NEW f, NEW S, IsFiniteSet(S), NEW T \in SUBSET S, NEW c \in Int,
         \A x \in T : f[x] = c, \A x \in S \ T : f[x] = 0
  PROVE  SumFunctionOnSet(f, S) = c * Cardinality(T)
<1>1. IsFiniteSet(T) /\ IsFiniteSet(S \ T)
  BY FS_Subset
<1>2. SumFunctionOnSet(f, T) = c * Cardinality(T)
  BY <1>1, SumConstant
<1>3. SumFunctionOnSet(f, S \ T) = 0 * Cardinality(S \ T)
  BY <1>1, SumConstant
<1>4. Cardinality(T) \in Nat /\ Cardinality(S \ T) \in Nat
  BY <1>1, FS_CardinalityType
<1>5. SumFunctionOnSet(f, T \cup (S \ T)) = SumFunctionOnSet(f, T) + SumFunctionOnSet(f, S \ T)
  <2>1. \A x \in T \cup (S \ T) : f[x] \in Int
    OBVIOUS
  <2>2. QED
    BY <1>1, <2>1, SumUnion
<1>6. T \cup (S \ T) = S
  OBVIOUS
<1>7. c * Cardinality(T) \in Int /\ 0 * Cardinality(S \ T) = 0
  BY <1>4
<1>8. SumFunctionOnSet(f, S) = c * Cardinality(T) + 0
  <2> DEFINE product == c * Cardinality(T)
  <2>1. SumFunctionOnSet(f, T) = product /\ SumFunctionOnSet(f, S \ T) = 0
    BY <1>2, <1>3, <1>7
  <2>2. SumFunctionOnSet(f, T \cup (S \ T)) = product + 0
    BY <1>5, <2>1
  <2>3. QED
    BY <1>6, <2>2
<1>9. QED
  BY <1>7, <1>8

-----------------------------------------------------------------------------
\* Where a value stands in a sequence.
Places(s, x) == { n \in DOMAIN s : s[n] = x }

LEMMA PlacesFinite ==
  ASSUME NEW T, NEW s \in Seq(T), NEW x
  PROVE  IsFiniteSet(Places(s, x)) /\ Cardinality(Places(s, x)) \in Nat
<1>1. IsFiniteSet(DOMAIN s)
  BY LenProperties, IntervalCount
<1>2. Places(s, x) \subseteq DOMAIN s
  BY DEF Places
<1>3. QED
  BY <1>1, <1>2, FS_Subset, FS_CardinalityType

\* A value stands in a concatenation as often as in its parts.
LEMMA PlacesConcat ==
  ASSUME NEW T, NEW s \in Seq(T), NEW t \in Seq(T), NEW x
  PROVE  Cardinality(Places(s \o t, x)) = Cardinality(Places(s, x)) + Cardinality(Places(t, x))
<1> DEFINE P == Places(s, x)
           Q == Places(t, x)
           k == Len(s)
           M == { n \in (k + 1)..(k + Len(t)) : n - k \in Q }
           f == [n \in M |-> n - k]
<1>1. /\ k \in Nat /\ Len(t) \in Nat /\ DOMAIN s = 1..k /\ DOMAIN t = 1..Len(t)
      /\ DOMAIN (s \o t) = 1..(k + Len(t))
      /\ \A n \in 1..k : (s \o t)[n] = s[n]
      /\ \A n \in (k + 1)..(k + Len(t)) : (s \o t)[n] = t[n - k]
  <2>1. /\ k \in Nat /\ Len(t) \in Nat /\ DOMAIN s = 1..k /\ DOMAIN t = 1..Len(t)
        /\ s \o t \in Seq(T) /\ Len(s \o t) = k + Len(t)
    BY LenProperties, ConcatProperties
  <2>2. DOMAIN (s \o t) = 1..(k + Len(t))
    BY <2>1, LenProperties
  <2>3. \A n \in 1..(k + Len(t)) : (s \o t)[n] = IF n <= k THEN s[n] ELSE t[n - k]
    BY <2>1, ConcatProperties
  <2>4. QED
    BY <2>1, <2>2, <2>3
<1>2. IsFiniteSet(P) /\ IsFiniteSet(Q) /\ Cardinality(P) \in Nat /\ Cardinality(Q) \in Nat
  BY PlacesFinite
<1>3. IsFiniteSet(M) /\ Cardinality(M) = Cardinality(Q)
  <2>1. f \in [M -> Q]
    BY <1>1
  <2>2. \A q \in Q : \E n \in M : f[n] = q
    <3> SUFFICES ASSUME NEW q \in Q PROVE q + k \in M /\ (q + k) - k = q
      OBVIOUS
    <3>1. q \in 1..Len(t)
      BY <1>1 DEF Places
    <3>2. QED
      BY <1>1, <3>1
  <2>3. \A m, n \in M : f[m] = f[n] => m = n
    BY <1>1
  <2>4. f \in Bijection(M, Q)
    <3> HIDE DEF M, Q, f
    <3> QED BY <2>1, <2>2, <2>3, Fun_IsBij
  <2>5. IsFiniteSet(M)
    <3>1. IsFiniteSet((k + 1)..(k + Len(t)))
      BY <1>1, FS_Interval
    <3>2. QED
      BY <3>1, FS_Subset
  <2>6. QED
    <3> HIDE DEF M, Q, f
    <3> QED BY <2>4, <2>5, FS_Bijection DEF ExistsBijection
<1>4. Places(s \o t, x) = P \cup M
  <2>1. ASSUME NEW n PROVE n \in Places(s \o t, x) <=> n \in P \cup M
    BY <1>1 DEF Places
  <2>2. QED
    BY <2>1
<1>5. P \cap M = {}
  BY <1>1 DEF Places
<1>6. Cardinality(P \cup M) = Cardinality(P) + Cardinality(M) - Cardinality(P \cap M)
  <2> HIDE DEF P, M
  <2> QED BY <1>2, <1>3, FS_Union
<1>7. Cardinality(P \cap M) = 0
  BY <1>5, FS_EmptySet
<1>8. Cardinality(P \cup M) = Cardinality(P) + Cardinality(Q)
  <2> HIDE DEF P, Q, M
  <2> QED BY <1>2, <1>3, <1>6, <1>7
<1>9. QED
  BY <1>4, <1>8

-----------------------------------------------------------------------------
\* A nonempty set of naturals has a least member.
LEMMA LeastNatural ==
  ASSUME NEW T \in SUBSET Nat, T # {}
  PROVE  \E x \in T : \A y \in T : x <= y
<1> DEFINE R == { pair \in Nat \X Nat : pair[1] < pair[2] }
<1>1. IsWellFoundedOn(R, Nat)
  BY NatLessThanWellFounded DEF OpToRel
<1>2. PICK x \in T : \A y \in T : ~(<<y, x>> \in R)
  <2> HIDE DEF R
  <2> QED BY <1>1, WFMin
<1>3. ASSUME NEW y \in T PROVE x <= y
  <2>1. x \in Nat /\ y \in Nat /\ ~(y < x)
    BY <1>2
  <2>2. QED
    BY <2>1
<1>4. QED
  BY <1>3

\* Division with remainder.
LEMMA Division ==
  ASSUME NEW P \in Nat \ {0}
  PROVE  /\ \A t \in Nat : /\ t \div P \in Nat /\ t % P \in 0..(P - 1)
                           /\ t = P * (t \div P) + (t % P)
         /\ \A d \in Nat, m \in 0..(P - 1) :
              (P * d + m) \div P = d /\ (P * d + m) % P = m
<1>1. ASSUME NEW t \in Nat
      PROVE  t \div P \in Nat /\ t % P \in 0..(P - 1) /\ t = P * (t \div P) + (t % P)
  OBVIOUS
<1>2. ASSUME NEW d \in Nat, NEW m \in 0..(P - 1)
      PROVE  (P * d + m) \div P = d /\ (P * d + m) % P = m
  <2> DEFINE t == P * d + m
  <2>1. t \in Nat
    OBVIOUS
  <2>2. t \div P \in Nat /\ t % P \in 0..(P - 1) /\ t = P * (t \div P) + (t % P)
    BY <1>1, <2>1
  <2>3. t \div P = d /\ t % P = m
    <3> DEFINE e == t \div P
               n == t % P
    <3>1. P * e + n = P * d + m /\ e \in Nat /\ n \in 0..(P - 1)
      BY <2>2
    <3> HIDE DEF e, n, t
    <3>2. ~(e < d)
      <4> SUFFICES ASSUME e < d PROVE FALSE
        OBVIOUS
      <4> DEFINE f == d - e - 1
      <4>1. f \in Nat /\ d = e + 1 + f
        BY <3>1
      <4>2. P * d = P * e + P + P * f /\ P * f \in Nat /\ P * e \in Nat
        <5> HIDE DEF f
        <5> QED BY <3>1, <4>1
      <4>3. QED
        <5> HIDE DEF f
        <5> QED BY <3>1, <4>2
    <3>3. ~(d < e)
      <4> SUFFICES ASSUME d < e PROVE FALSE
        OBVIOUS
      <4> DEFINE f == e - d - 1
      <4>1. f \in Nat /\ e = d + 1 + f
        BY <3>1
      <4>2. P * e = P * d + P + P * f /\ P * f \in Nat /\ P * d \in Nat
        <5> HIDE DEF f
        <5> QED BY <3>1, <4>1
      <4>3. QED
        <5> HIDE DEF f
        <5> QED BY <3>1, <4>2
    <3>4. e = d
      BY <3>1, <3>2, <3>3
    <3>5. P * d \in Nat
      OBVIOUS
    <3>6. n = m
      BY <3>1, <3>4, <3>5
    <3>7. QED
      BY <3>4, <3>6 DEF e, n
  <2>4. QED
    BY <2>3
<1>3. QED
  BY <1>1, <1>2

\* So a quotient and a remainder are known by their equation.
LEMMA DivisionIs ==
  ASSUME NEW P \in Nat \ {0}, NEW d \in Nat, NEW m \in 0..(P - 1), NEW t, t = P * d + m
  PROVE  t \div P = d /\ t % P = m
<1>1. (P * d + m) \div P = d /\ (P * d + m) % P = m
  BY Division
<1>2. QED
  BY <1>1

\* Things dealt out in turns to P places, from place 0: how many place x has got
\* of the first t.
Turns(P, t, x) == t \div P + (IF x < t % P THEN 1 ELSE 0)

\* The next one is for the place whose turn it is.
LEMMA NextTurn ==
  ASSUME NEW P \in Nat \ {0}, NEW t \in Nat, NEW x \in 0..(P - 1)
  PROVE  /\ Turns(P, 0, x) = 0 /\ Turns(P, t, x) \in Nat
         /\ Turns(P, t + 1, x) = Turns(P, t, x) + (IF t % P = x THEN 1 ELSE 0)
         /\ t % P = x => Turns(P, t, x) = t \div P
<1> DEFINE d == t \div P
           m == t % P
<1>1. d \in Nat /\ m \in 0..(P - 1) /\ t = P * d + m
  BY Division
<1>2. 0 \div P = 0 /\ 0 % P = 0
  <2>1. P * 0 + 0 = 0 /\ 0 \in 0..(P - 1)
    OBVIOUS
  <2>2. QED
    BY <2>1, Division
<1>3. CASE m + 1 < P
  <2>1. t + 1 = P * d + (m + 1) /\ m + 1 \in 0..(P - 1)
    <3> HIDE DEF d, m
    <3> QED BY <1>1, <1>3
  <2>2. (t + 1) \div P = d /\ (t + 1) % P = m + 1
    <3> DEFINE n == m + 1
    <3>1. n \in 0..(P - 1) /\ t + 1 = P * d + n /\ d \in Nat
      BY <1>1, <2>1
    <3> HIDE DEF d, n
    <3>2. (t + 1) \div P = d /\ (t + 1) % P = n
      BY <3>1, DivisionIs, Zenon
    <3>3. QED
      BY <3>2 DEF n
  <2>3. QED
    <3>1. Turns(P, t, x) = d + (IF x < m THEN 1 ELSE 0)
            /\ Turns(P, t + 1, x) = d + (IF x < m + 1 THEN 1 ELSE 0)
            /\ Turns(P, 0, x) = 0
      BY <1>2, <2>2 DEF Turns
    <3>2. QED
      <4>1. (x < m + 1) <=> (x < m \/ m = x)
        <5> HIDE DEF m
        <5> QED BY <1>1
      <4>2. ~(x < m /\ m = x)
        <5> HIDE DEF m
        <5> QED BY <1>1
      <4>3. Turns(P, t + 1, x) = Turns(P, t, x) + (IF m = x THEN 1 ELSE 0)
        <5> HIDE DEF d, m
        <5> QED BY <1>1, <3>1, <4>1, <4>2
      <4>4. QED
        <5>1. m = x => Turns(P, t, x) = d
          <6> HIDE DEF d, m
          <6> QED BY <1>1, <3>1, <4>2
        <5>2. Turns(P, t, x) \in Nat
          <6> HIDE DEF d, m
          <6> QED BY <1>1, <3>1
        <5>3. QED
          BY <3>1, <4>3, <5>1, <5>2
<1>4. CASE m + 1 = P
  <2>1. t + 1 = P * (d + 1) + 0 /\ 0 \in 0..(P - 1) /\ d + 1 \in Nat
    <3> HIDE DEF d, m
    <3> QED BY <1>1, <1>4
  <2>2. (t + 1) \div P = d + 1 /\ (t + 1) % P = 0
    <3> DEFINE e == d + 1
    <3>1. 0 \in 0..(P - 1) /\ t + 1 = P * e + 0 /\ e \in Nat
      BY <2>1
    <3> HIDE DEF d, e
    <3>2. (t + 1) \div P = e /\ (t + 1) % P = 0
      BY <3>1, DivisionIs, Zenon
    <3>3. QED
      BY <3>2 DEF e
  <2>3. Turns(P, t, x) = d + (IF x < m THEN 1 ELSE 0)
          /\ Turns(P, t + 1, x) = d + 1 + (IF x < 0 THEN 1 ELSE 0)
          /\ Turns(P, 0, x) = 0
    BY <1>2, <2>2 DEF Turns
  <2>4. (x < m <=> m # x) /\ ~(x < 0)
    <3> HIDE DEF m
    <3> QED BY <1>1, <1>4
  <2>5. Turns(P, t + 1, x) = Turns(P, t, x) + (IF m = x THEN 1 ELSE 0)
          /\ (m = x => Turns(P, t, x) = d) /\ Turns(P, t, x) \in Nat
    <3> HIDE DEF d, m
    <3> QED BY <1>1, <2>3, <2>4
  <2>6. QED
    BY <2>3, <2>5
<1>5. m + 1 < P \/ m + 1 = P
  <2> HIDE DEF m
  <2> QED BY <1>1
<1>6. QED
  BY <1>3, <1>4, <1>5

\* Of V in a row from turn s on, place x gets what it has got more after them.
LEMMA TurnsTaken ==
  ASSUME NEW P \in Nat \ {0}, NEW s \in Nat, NEW V \in Nat, NEW x \in 0..(P - 1)
  PROVE  Cardinality({ n \in 1..V : (s + n - 1) % P = x }) = Turns(P, s + V, x) - Turns(P, s, x)
<1> DEFINE taken(v) == { n \in 1..v : (s + n - 1) % P = x }
           Holds(v) == Cardinality(taken(v)) = Turns(P, s + v, x) - Turns(P, s, x)
           B == { v \in Nat : ~Holds(v) }
<1>1. SUFFICES ASSUME B # {} PROVE FALSE
  <2>1. V \notin B => Holds(V)
    OBVIOUS
  <2>2. QED
    BY <2>1
<1>2. PICK v \in B : \A y \in B : v <= y
  <2>1. B \in SUBSET Nat
    OBVIOUS
  <2>2. QED
    <3> HIDE DEF B
    <3> QED BY <1>1, <2>1, LeastNatural
<1>3. v \in Nat /\ ~Holds(v)
  OBVIOUS
<1>4. v # 0
  <2>1. taken(0) = {}
    OBVIOUS
  <2>2. Cardinality(taken(0)) = 0
    BY <2>1, FS_EmptySet
  <2>3. Turns(P, s + 0, x) = Turns(P, s, x) /\ Turns(P, s, x) \in Nat
    BY NextTurn
  <2>4. Holds(0)
    <3> HIDE DEF taken
    <3> QED BY <2>2, <2>3
  <2>5. QED
    BY <1>3, <2>4
<1> DEFINE u == v - 1
           t == s + u
<1>5. u \in Nat /\ v = u + 1 /\ t \in Nat /\ s + v = t + 1 /\ s + v - 1 = t
  BY <1>3, <1>4
<1>6. Holds(u)
  <2>1. ~(v <= u)
    BY <1>3, <1>5
  <2>2. u \notin B
    <3> HIDE DEF B, u
    <3> QED BY <1>2, <2>1
  <2>3. QED
    <3> HIDE DEF Holds, u
    <3> QED BY <1>5, <2>2
<1>7. IsFiniteSet(taken(u)) /\ Cardinality(taken(u)) \in Nat /\ v \notin taken(u)
  <2>1. taken(u) \subseteq 1..u /\ IsFiniteSet(1..u)
    BY <1>5, IntervalCount
  <2>2. v \notin 1..u
    BY <1>5
  <2>3. QED
    <3> HIDE DEF taken, u
    <3> QED BY <2>1, <2>2, FS_Subset, FS_CardinalityType
<1>8. taken(v) = IF t % P = x THEN taken(u) \cup {v} ELSE taken(u)
  <2>1. 1..v = 1..u \cup {v}
    BY <1>5
  <2>2. taken(v) = { n \in 1..u \cup {v} : (s + n - 1) % P = x }
    BY <2>1
  <2>3. ((s + v - 1) % P = x) <=> (t % P = x)
    BY <1>5
  <2>4. QED
    <3> HIDE DEF u, t
    <3> QED BY <2>2, <2>3
<1>9. Cardinality(taken(v)) = Cardinality(taken(u)) + (IF t % P = x THEN 1 ELSE 0)
  <2> HIDE DEF taken, u, t
  <2>1. CASE t % P = x
    BY <1>7, <1>8, <2>1, FS_AddElement
  <2>2. CASE t % P # x
    BY <1>7, <1>8, <2>2
  <2>3. QED
    BY <2>1, <2>2
<1>10. /\ Turns(P, t + 1, x) = Turns(P, t, x) + (IF t % P = x THEN 1 ELSE 0)
       /\ Turns(P, t, x) \in Nat /\ Turns(P, s, x) \in Nat
  <2> HIDE DEF t
  <2> QED BY <1>5, NextTurn
<1>11. Holds(v)
  <2>1. Cardinality(taken(u)) = Turns(P, t, x) - Turns(P, s, x)
    BY <1>6
  <2>2. Cardinality(taken(v)) = Turns(P, t + 1, x) - Turns(P, s, x)
    <3> HIDE DEF taken, u, t
    <3> QED BY <1>7, <1>9, <1>10, <2>1
  <2>3. QED
    <3> HIDE DEF taken, u, t
    <3> QED BY <1>5, <2>2
<1>12. QED
  BY <1>3, <1>11

-----------------------------------------------------------------------------
\* A function on a segment is a sequence.
LEMMA FunctionIsSeq ==
  ASSUME NEW S, NEW n \in Nat, NEW f \in [1..n -> S]
  PROVE  f \in Seq(S) /\ Len(f) = n
OBVIOUS

\* CPUs in turn: a slice has as many entries as asked for, all of the list, no CPU
\* twice before the list is used up, and of each CPU as many as its turns.
SliceOf(list, s, V) == [n \in 1..V |-> list[((s + n - 1) % Len(list)) + 1]]

LEMMA SliceFacts ==
  ASSUME NEW list \in Seq(Nat), list # <<>>, IsInjective(list), NEW s \in Nat, NEW V \in Nat \ {0}
  PROVE  /\ SliceOf(list, s, V) \in Seq(Nat) /\ Len(SliceOf(list, s, V)) = V
         /\ DOMAIN SliceOf(list, s, V) = 1..V
         /\ Range(SliceOf(list, s, V)) \subseteq Range(list)
         /\ Cardinality(Range(list)) = Len(list) /\ IsFiniteSet(Range(list))
         /\ Cardinality(Range(SliceOf(list, s, V))) = IF V <= Len(list) THEN V ELSE Len(list)
         /\ \A q \in 1..Len(list) :
              Cardinality(Places(SliceOf(list, s, V), list[q]))
                = Turns(Len(list), s + V, q - 1) - Turns(Len(list), s, q - 1)
<1> DEFINE P == Len(list)
           at(n) == ((s + n - 1) % P) + 1
           slice == SliceOf(list, s, V)
<1>1. P \in Nat \ {0} /\ DOMAIN list = 1..P /\ \A q \in 1..P : list[q] \in Nat
  OBVIOUS
<1>2. ASSUME NEW n \in 1..V PROVE s + n - 1 \in Nat /\ at(n) \in 1..P
  <2>1. s + n - 1 \in Nat
    OBVIOUS
  <2>2. (s + n - 1) % P \in 0..(P - 1)
    <3> HIDE DEF P
    <3> QED BY <1>1, <2>1, Division
  <2>3. QED
    BY <1>1, <2>1, <2>2
<1>3. /\ slice = [n \in 1..V |-> list[at(n)]]
      /\ DOMAIN slice = 1..V /\ \A n \in 1..V : slice[n] = list[at(n)]
  BY DEF SliceOf
<1>4. slice \in Seq(Nat) /\ Len(slice) = V
  <2>1. \A n \in 1..V : slice[n] \in Nat
    <3> HIDE DEF at, P, slice
    <3> QED BY <1>1, <1>2, <1>3
  <2>2. slice \in [1..V -> Nat]
    BY <1>3, <2>1
  <2>3. QED
    <3> HIDE DEF slice
    <3> QED BY <1>3, <2>2, FunctionIsSeq
<1>5. Range(slice) \subseteq Range(list)
  <2> HIDE DEF slice, at, P
  <2> QED BY <1>1, <1>2, <1>3 DEF Range
<1>6. \A p, q \in 1..P : list[p] = list[q] => p = q
  BY <1>1 DEF IsInjective
<1>7. ASSUME NEW N \in Nat, NEW f, DOMAIN f = 1..N, \A m, n \in 1..N : f[m] = f[n] => m = n
      PROVE  IsFiniteSet(Range(f)) /\ Cardinality(Range(f)) = N
  <2> DEFINE g == [n \in 1..N |-> f[n]]
  <2>1. g \in Bijection(1..N, Range(f))
    <3>1. g \in [1..N -> Range(f)]
      BY <1>7 DEF Range
    <3>2. \A m, n \in 1..N : g[m] = g[n] => m = n
      BY <1>7
    <3>3. \A y \in Range(f) : \E n \in 1..N : g[n] = y
      BY <1>7 DEF Range
    <3>4. QED
      <4> HIDE DEF g
      <4> QED BY <3>1, <3>2, <3>3, Fun_IsBij
  <2>2. QED
    <3> HIDE DEF g
    <3> QED BY <2>1, IntervalCount, FS_Bijection DEF ExistsBijection
<1>8. Cardinality(Range(list)) = P /\ IsFiniteSet(Range(list))
  <2> HIDE DEF P
  <2> QED BY <1>1, <1>6, <1>7
<1>9. ASSUME V <= P PROVE Cardinality(Range(slice)) = V
  <2>1. ASSUME NEW m \in 1..V, NEW n \in 1..V, m < n, slice[m] = slice[n] PROVE FALSE
    <3> DEFINE x == s + m - 1
               y == s + n - 1
    <3>1. at(m) = at(n)
      <4> HIDE DEF at, P, slice
      <4> QED BY <1>2, <1>3, <1>6, <2>1
    <3>2. x % P = y % P /\ x \in Nat /\ y \in Nat
      <4>1. x \in Nat /\ y \in Nat
        OBVIOUS
      <4>2. x % P \in 0..(P - 1) /\ y % P \in 0..(P - 1)
        <5> HIDE DEF x, y, P
        <5> QED BY <1>1, <4>1, Division
      <4>3. (x % P) + 1 = (y % P) + 1
        BY <3>1
      <4>4. QED
        <5> HIDE DEF x, y, P
        <5> QED BY <4>1, <4>2, <4>3
    <3> DEFINE d == x \div P
               e == y \div P
    <3>3. x = P * d + (x % P) /\ y = P * e + (y % P) /\ d \in Nat /\ e \in Nat
            /\ x % P \in 0..(P - 1)
      <4> HIDE DEF x, y, P
      <4> QED BY <1>1, <3>2, Division
    <3>4. y - x = P * e - P * d
      <4>1. P * d \in Nat /\ P * e \in Nat
        <5> HIDE DEF d, e, P
        <5> QED BY <1>1, <3>3
      <4> DEFINE r == x % P
                 a == P * d
                 b == P * e
      <4>2. x = a + r /\ y = b + r /\ a \in Nat /\ b \in Nat /\ r \in Nat
        <5> HIDE DEF x, y, d, e, P
        <5> QED BY <3>2, <3>3, <4>1
      <4>3. y - x = b - a
        <5> HIDE DEF x, y, a, b, r
        <5> QED BY <4>2
      <4>4. QED
        BY <4>3
    <3>5. y - x \in 1..(P - 1)
      <4>1. y - x = n - m /\ n - m \in 1..(V - 1)
        BY <2>1
      <4>2. QED
        <5> HIDE DEF x, y, P
        <5> QED BY <1>1, <1>9, <4>1
    <3>6. CASE e <= d
      <4>1. P * e <= P * d
        <5> DEFINE f == d - e
        <5>1. f \in Nat /\ d = e + f
          <6> HIDE DEF d, e
          <6> QED BY <3>3, <3>6
        <5>2. P * d = P * e + P * f /\ P * f \in Nat /\ P * e \in Nat
          <6> HIDE DEF d, e, f, P
          <6> QED BY <1>1, <3>3, <5>1
        <5>3. QED
          <6> HIDE DEF d, e, f, P
          <6> QED BY <5>2
      <4>2. P * d \in Nat /\ P * e \in Nat
        <5> HIDE DEF d, e, P
        <5> QED BY <1>1, <3>3
      <4>3. QED
        <5> HIDE DEF x, y, d, e, P
        <5> QED BY <1>1, <3>2, <3>4, <3>5, <4>1, <4>2
    <3>7. CASE d < e
      <4> DEFINE f == e - d - 1
      <4>1. f \in Nat /\ e = d + 1 + f
        <5> HIDE DEF d, e
        <5> QED BY <3>3, <3>7
      <4>2. P * e = P * d + P + P * f /\ P * f \in Nat /\ P * d \in Nat
        <5> HIDE DEF d, e, f, P
        <5> QED BY <1>1, <3>3, <4>1
      <4>3. QED
        <5> HIDE DEF x, y, d, e, f, P
        <5> QED BY <1>1, <3>2, <3>4, <3>5, <4>2
    <3>8. QED
      <4> HIDE DEF d, e
      <4> QED BY <3>3, <3>6, <3>7
  <2>2. \A m, n \in 1..V : slice[m] = slice[n] => m = n
    <3> SUFFICES ASSUME NEW m \in 1..V, NEW n \in 1..V, slice[m] = slice[n] PROVE m = n
      OBVIOUS
    <3>1. ~(m < n) /\ ~(n < m)
      <4> HIDE DEF slice
      <4> QED BY <2>1
    <3>2. QED
      BY <3>1
  <2>3. Cardinality(Range(slice)) = V
    <3> HIDE DEF slice
    <3> QED BY <1>3, <1>7, <2>2
  <2>4. QED
    <3> HIDE DEF slice, P
    <3> QED BY <1>9, <2>3
<1>10. ASSUME ~(V <= P) PROVE Cardinality(Range(slice)) = P
  <2>1. ASSUME NEW q \in 1..P PROVE \E n \in 1..V : slice[n] = list[q]
    <3> DEFINE d == s \div P
               m == s % P
    <3>1. s = P * d + m /\ d \in Nat /\ m \in 0..(P - 1)
      <4> HIDE DEF P
      <4> QED BY <1>1, Division
    <3>2. P * d \in Nat /\ P * (d + 1) = P * d + P
      <4> HIDE DEF P, d
      <4> QED BY <1>1, <3>1
    <3>3. \E n \in 1..P, e \in Nat : s + n - 1 = P * e + (q - 1)
      <4>1. CASE m <= q - 1
        <5>1. q - m \in 1..P /\ s + (q - m) - 1 = P * d + (q - 1)
          <6> HIDE DEF P, d, m
          <6> QED BY <1>1, <3>1, <3>2, <4>1
        <5>2. QED
          <6> HIDE DEF P, d, m
          <6> QED BY <3>1, <5>1
      <4>2. CASE ~(m <= q - 1)
        <5>1. q - m + P \in 1..P /\ s + (q - m + P) - 1 = P * (d + 1) + (q - 1) /\ d + 1 \in Nat
          <6> HIDE DEF P, d, m
          <6> QED BY <1>1, <3>1, <3>2, <4>2
        <5>2. QED
          <6> HIDE DEF P, d, m
          <6> QED BY <5>1
      <4>3. QED
        BY <4>1, <4>2
    <3>4. PICK n \in 1..P, e \in Nat : s + n - 1 = P * e + (q - 1)
      BY <3>3
    <3>5. (s + n - 1) % P = q - 1
      <4> DEFINE x == q - 1
                 t == s + n - 1
      <4>1. x \in 0..(P - 1) /\ t = P * e + x
        BY <1>1, <3>4
      <4> HIDE DEF x, t, P
      <4>2. t % P = x
        BY <1>1, <4>1, DivisionIs, Zenon
      <4>3. QED
        BY <4>2 DEF x, t
    <3>6. at(n) = q /\ n \in 1..V
      <4> HIDE DEF P
      <4> QED BY <1>1, <1>10, <3>5
    <3>7. QED
      <4> HIDE DEF at, slice, P
      <4> QED BY <1>3, <3>6
  <2>2. Range(slice) = Range(list)
    <3>1. Range(list) \subseteq Range(slice)
      <4> HIDE DEF slice, P, at
      <4> QED BY <1>1, <1>3, <2>1 DEF Range
    <3>2. QED
      BY <1>5, <3>1
  <2>3. QED
    <3> HIDE DEF slice, P
    <3> QED BY <1>8, <1>10, <2>2
<1>11. ASSUME NEW q \in 1..P
       PROVE  Cardinality(Places(slice, list[q])) = Turns(P, s + V, q - 1) - Turns(P, s, q - 1)
  <2> DEFINE x == q - 1
  <2>1. x \in 0..(P - 1)
    <3> HIDE DEF P
    <3> QED BY <1>1
  <2>2. ASSUME NEW n \in 1..V PROVE (slice[n] = list[q]) <=> ((s + n - 1) % P = x)
    <3>1. (slice[n] = list[q]) <=> (at(n) = q)
      <4> HIDE DEF at, P, slice
      <4> QED BY <1>2, <1>3, <1>6
    <3>2. (s + n - 1) % P \in Int
      <4> HIDE DEF P
      <4> QED BY <1>1, <1>2, Division
    <3>3. (at(n) = q) <=> ((s + n - 1) % P = x)
      <4> DEFINE y == (s + n - 1) % P
      <4>1. y \in Int
        BY <3>2
      <4>2. (y + 1 = q) <=> (y = x)
        <5> HIDE DEF y
        <5> QED BY <4>1
      <4>3. QED
        BY <4>2
    <3>4. QED
      BY <3>1, <3>3
  <2>3. { n \in 1..V : slice[n] = list[q] } = { n \in 1..V : (s + n - 1) % P = x }
    <3> HIDE DEF slice, x, P
    <3> QED BY <2>2
  <2>4. Cardinality({ n \in 1..V : (s + n - 1) % P = x }) = Turns(P, s + V, x) - Turns(P, s, x)
    <3> HIDE DEF x, P
    <3> QED BY <1>1, <2>1, TurnsTaken
  <2>5. Places(slice, list[q]) = { n \in 1..V : slice[n] = list[q] }
    <3> HIDE DEF slice
    <3> QED BY <1>3 DEF Places
  <2>6. QED
    BY <2>3, <2>4, <2>5
<1>12. QED
  BY <1>4, <1>3, <1>5, <1>8, <1>9, <1>10, <1>11

\* The last of them for one entry of the list.
LEMMA SliceTurns ==
  ASSUME NEW list \in Seq(Nat), list # <<>>, IsInjective(list), NEW s \in Nat, NEW V \in Nat \ {0},
         NEW q \in 1..Len(list)
  PROVE  Cardinality(Places(SliceOf(list, s, V), list[q]))
           = Turns(Len(list), s + V, q - 1) - Turns(Len(list), s, q - 1)
BY SliceFacts
================================================================================
