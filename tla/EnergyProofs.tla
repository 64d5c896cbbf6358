---------------------------- MODULE EnergyProofs ----------------------------
(***************************************************************************)
(* Proofs about the energy of the house, for every number of users, plugs, *)
(* outlets and rooms, every load, calendar, time to live and horizon: the  *)
(* strip's shared read, the rows the recorder files, and the totals served *)
(* from them. Sums and greatest elements of finite sets come first.        *)
(***************************************************************************)
EXTENDS Energy, FiniteSetTheorems, WellFoundedInduction, TLAPS

-----------------------------------------------------------------------------
(* Sums and greatest elements of finite sets, by induction over subsets    *)

\* Induction over the subsets of a finite set, for a property given as the set
\* of the subsets that have it.
LEMMA SubsetInduction ==
  ASSUME NEW S, IsFiniteSet(S), NEW C,
         \A T \in SUBSET S :
           (\A U \in SUBSET T : U # T => U \in C) => T \in C
  PROVE  SUBSET S \subseteq C
<1> DEFINE B == (SUBSET S) \ C
<1>1. SUFFICES ASSUME B # {} PROVE FALSE
  OBVIOUS
<1>2. IsWellFoundedOn(StrictSubsetOrdering(S), FiniteSubsetsOf(S))
  BY FS_StrictSubsetOrderingWellFounded
<1>3. B \subseteq FiniteSubsetsOf(S)
  BY FS_FiniteSubsetsOfFinite
<1>4. \E T \in B : \A U \in B : <<U, T>> \notin StrictSubsetOrdering(S)
  <2> HIDE DEF B
  <2> QED BY <1>1, <1>2, <1>3, WFMin
<1>5. PICK T \in B : \A U \in B : <<U, T>> \notin StrictSubsetOrdering(S)
  BY <1>4
<1>6. ASSUME NEW U \in SUBSET T, U # T PROVE U \in C
  <2>1. <<U, T>> \in StrictSubsetOrdering(S)
    BY <1>6 DEF StrictSubsetOrdering
  <2> QED BY <1>5, <2>1
<1>7. T \in SUBSET S /\ T \notin C
  BY <1>5
<1>8. \A U \in SUBSET T : U # T => U \in C
  BY <1>6
<1> HIDE DEF B
<1>9. T \in C
  BY <1>7, <1>8
<1> QED BY <1>7, <1>9

LEMMA SetInduction ==
  ASSUME NEW T, 0 \in T, \A n \in Nat : n \in T => n + 1 \in T
  PROVE  Nat \subseteq T
<1> SUFFICES ASSUME Nat \ T # {} PROVE FALSE
  OBVIOUS
<1>1. IsWellFoundedOn(OpToRel(<, Nat), Nat)
  BY NatLessThanWellFounded
<1>2. \A x, y \in Nat : x < y => <<x, y>> \in OpToRel(<, Nat)
  BY DEF OpToRel
<1>3. \E x \in Nat \ T : \A y \in Nat \ T : ~(<<y, x>> \in OpToRel(<, Nat))
  BY <1>1, WFMin
<1>4. PICK x \in Nat \ T : \A y \in Nat \ T : ~(y < x)
  BY <1>2, <1>3
<1>5. x # 0 /\ x - 1 \in Nat
  OBVIOUS
<1>6. x - 1 \in T
  BY <1>4, <1>5
<1> QED BY <1>4, <1>5, <1>6

First(s) == CHOOSE x \in s : TRUE
Step(g, f, s) == IF s = {} THEN 0 ELSE f[First(s)] + g[s \ {First(s)}]
IsSum(g, f, S) == g = [s \in SUBSET S |-> Step(g, f, s)]

LEMMA SumMeans ==
  ASSUME NEW f, NEW S
  PROVE  SumFunctionOnSet(f, S) = (CHOOSE g : IsSum(g, f, S))[S]
BY DEF SumFunctionOnSet, FoldFunctionOnSet, MapThenFoldSet, IsSum, Step, First

LEMMA FirstIn == ASSUME NEW s, s # {} PROVE First(s) \in s
BY DEF First

\* The recursion has a solution.
LEMMA SumExists ==
  ASSUME NEW f, NEW S, IsFiniteSet(S)
  PROVE  \E g : IsSum(g, f, S)
<1> DEFINE Upto(n) == {s \in SUBSET S : Cardinality(s) <= n}
           Solves(g, n) == g = [s \in Upto(n) |-> Step(g, f, s)]
           N == {n \in Nat : \E g : Solves(g, n)}
<1>0. \A s \in SUBSET S : IsFiniteSet(s) /\ Cardinality(s) \in Nat
  BY FS_Subset, FS_CardinalityType
<1>1. 0 \in N
  <2> DEFINE g == [s \in Upto(0) |-> 0]
  <2>1. \A s \in Upto(0) : s = {}
    BY <1>0, FS_EmptySet
  <2>2. Solves(g, 0)
    BY <2>1 DEF Step
  <2> QED BY <2>2
<1>2. ASSUME NEW n \in Nat, n \in N PROVE n + 1 \in N
  <2>1. PICK g : Solves(g, n)
    BY <1>2
  <2> DEFINE h == [s \in Upto(n + 1) |-> IF s \in Upto(n) THEN g[s]
                                                          ELSE Step(g, f, s)]
  <2>2. ASSUME NEW s \in Upto(n + 1), s # {}
        PROVE  s \ {First(s)} \in Upto(n)
    <3>1. Cardinality(s \ {First(s)}) = Cardinality(s) - 1
      BY <1>0, <2>2, FirstIn, FS_RemoveElement
    <3> QED BY <1>0, <3>1
  <2>3. Upto(n) \subseteq Upto(n + 1)
    BY <1>0
  <2>4. \A s \in Upto(n) : h[s] = g[s]
    BY <2>3
  <2>5. \A s \in Upto(n + 1) : Step(h, f, s) = Step(g, f, s)
    <3>1. \A s \in Upto(n + 1) :
            s # {} => h[s \ {First(s)}] = g[s \ {First(s)}]
      BY <2>2, <2>4
    <3> HIDE DEF h, Upto
    <3> QED BY <3>1 DEF Step
  <2>6. \A s \in Upto(n) : g[s] = Step(g, f, s)
    <3> HIDE DEF Upto
    <3> QED BY <2>1
  <2>7. \A s \in Upto(n + 1) : h[s] = Step(h, f, s)
    <3> SUFFICES ASSUME NEW s \in Upto(n + 1) PROVE h[s] = Step(g, f, s)
      BY <2>5
    <3> HIDE DEF Upto
    <3> QED BY <2>6
  <2>8. h = [s \in Upto(n + 1) |-> h[s]]
    OBVIOUS
  <2> HIDE DEF h, Upto
  <2>9. Solves(h, n + 1)
    BY <2>7, <2>8
  <2> QED BY <2>9
<1>3. Nat \subseteq N
  BY <1>1, <1>2, SetInduction
<1>4. Cardinality(S) \in N
  BY <1>0, <1>3
<1>5. PICK g : Solves(g, Cardinality(S))
  BY <1>4
<1>6. Upto(Cardinality(S)) = SUBSET S
  BY <1>0, FS_Subset
<1> QED BY <1>5, <1>6 DEF IsSum

\* What a sum over a finite set is: the recursion, whose solution agrees with
\* that over any smaller set.
Sums(f, S) == CHOOSE g : IsSum(g, f, S)

LEMMA SumUnfolds ==
  ASSUME NEW f, NEW S, IsFiniteSet(S)
  PROVE  \A s \in SUBSET S : Sums(f, S)[s] = Step(Sums(f, S), f, s)
<1>1. IsSum(Sums(f, S), f, S)
  BY SumExists DEF Sums
<1> HIDE DEF Sums
<1> QED BY <1>1 DEF IsSum

LEMMA SumRestricts ==
  ASSUME NEW f, NEW S, IsFiniteSet(S), NEW T \in SUBSET S
  PROVE  \A s \in SUBSET T : Sums(f, T)[s] = Sums(f, S)[s]
<1> DEFINE C == {s \in SUBSET T : Sums(f, T)[s] = Sums(f, S)[s]}
<1>1. IsFiniteSet(T)
  BY FS_Subset
<1>2. ASSUME NEW s \in SUBSET T, \A u \in SUBSET s : u # s => u \in C
      PROVE  s \in C
  <2>1. Sums(f, T)[s] = Step(Sums(f, T), f, s)
        /\ Sums(f, S)[s] = Step(Sums(f, S), f, s)
    BY <1>1, SumUnfolds
  <2>2. s # {} => Sums(f, T)[s \ {First(s)}] = Sums(f, S)[s \ {First(s)}]
    BY <1>2, FirstIn
  <2>3. Step(Sums(f, T), f, s) = Step(Sums(f, S), f, s)
    BY <2>2 DEF Step
  <2> QED BY <2>1, <2>3
<1> HIDE DEF C
<1>3. SUBSET T \subseteq C
  BY <1>1, <1>2, SubsetInduction
<1> QED BY <1>3 DEF C

\* The sum of integers is one, and any of them can be taken out.
IntOn(f, S) == \A x \in S : f[x] \in Int

TakesOut(f, S) ==
  \A s \in SUBSET S :
    /\ Sums(f, S)[s] \in Int
    /\ \A x \in s : Sums(f, S)[s] = f[x] + Sums(f, S)[s \ {x}]

LEMMA SumOne ==
  ASSUME NEW S, IsFiniteSet(S), NEW f, IntOn(f, S)
  PROVE  TakesOut(f, S)
<1> USE DEF IntOn
<1> DEFINE g == Sums(f, S)
           C == {s \in SUBSET S :
                   /\ g[s] \in Int
                   /\ \A x \in s : g[s] = f[x] + g[s \ {x}]}
<1>1. \A s \in SUBSET S : g[s] = Step(g, f, s)
  BY SumUnfolds
<1> HIDE DEF g
<1>2. ASSUME NEW s \in SUBSET S, \A u \in SUBSET s : u # s => u \in C
      PROVE  s \in C
  <2>1. CASE s = {}
    <3>1. g[s] = 0
      BY <1>1, <2>1 DEF Step
    <3> QED BY <2>1, <3>1
  <2>2. CASE s # {}
    <3> DEFINE y == First(s)
    <3>1. y \in s
      BY <2>2, FirstIn
    <3>2. g[s] = f[y] + g[s \ {y}]
      BY <1>1, <2>2 DEF Step
    <3> HIDE DEF y
    <3>3. s \ {y} \in C
      BY <1>2, <3>1
    <3>4. g[s \ {y}] \in Int /\ f[y] \in Int
      BY <3>1, <3>3
    <3>5. ASSUME NEW x \in s, x # y PROVE g[s] = f[x] + g[s \ {x}]
      <4>1. s \ {x} \in C
        BY <1>2
      <4>2. g[s \ {x}] = f[y] + g[(s \ {x}) \ {y}]
        BY <3>1, <3>5, <4>1
      <4>3. g[s \ {y}] = f[x] + g[(s \ {y}) \ {x}]
        BY <3>3, <3>5
      <4>4. (s \ {x}) \ {y} = (s \ {y}) \ {x}
        OBVIOUS
      <4> DEFINE rest == g[(s \ {x}) \ {y}]
      <4>5. (s \ {x}) \ {y} \in C
        BY <1>2, <3>1
      <4>6. f[x] \in Int /\ rest \in Int
        BY <4>5
      <4>7. g[s \ {x}] = f[y] + rest /\ g[s \ {y}] = f[x] + rest
        BY <4>2, <4>3, <4>4
      <4> HIDE DEF rest
      <4> QED BY <3>2, <3>4, <4>6, <4>7
    <3>6. \A x \in s : g[s] = f[x] + g[s \ {x}]
      BY <3>2, <3>5
    <3>7. g[s] \in Int
      BY <3>2, <3>4
    <3> QED BY <3>6, <3>7
  <2> QED BY <2>1, <2>2
<1> HIDE DEF C
<1>3. SUBSET S \subseteq C
  BY <1>2, SubsetInduction
<1> QED BY <1>3 DEF C, g, TakesOut

\* The laws of SumFunctionOnSet.
LEMMA SumLaws ==
  ASSUME NEW S, IsFiniteSet(S), NEW f, IntOn(f, S)
  PROVE  /\ SumFunctionOnSet(f, S) \in Int
         /\ S = {} => SumFunctionOnSet(f, S) = 0
         /\ \A x \in S : SumFunctionOnSet(f, S)
                           = f[x] + SumFunctionOnSet(f, S \ {x})
<1>1. \A T \in SUBSET S : SumFunctionOnSet(f, T) = Sums(f, T)[T]
  BY SumMeans DEF Sums
<1>2. \A T \in SUBSET S : Sums(f, T)[T] = Sums(f, S)[T]
  BY SumRestricts
<1>3. \A T \in SUBSET S : SumFunctionOnSet(f, T) = Sums(f, S)[T]
  BY <1>1, <1>2
<1> DEFINE g == Sums(f, S)
<1>4. \A s \in SUBSET S :
        g[s] \in Int /\ \A x \in s : g[s] = f[x] + g[s \ {x}]
  BY SumOne DEF TakesOut
<1>5. g[S] \in Int /\ \A x \in S : g[S] = f[x] + g[S \ {x}]
  <2> HIDE DEF g
  <2> QED BY <1>4
<1>6. S = {} => Sums(f, S)[S] = 0
  BY SumUnfolds DEF Step
<1> QED BY <1>3, <1>5, <1>6

NatOn(f, S) == \A x \in S : f[x] \in Nat

\* More terms, or greater ones, do not make a sum smaller.
LEMMA SumMono ==
  ASSUME NEW T, IsFiniteSet(T), NEW S \in SUBSET T, NEW f, NEW g,
         IntOn(f, S), NatOn(g, T), \A x \in S : f[x] <= g[x]
  PROVE  SumFunctionOnSet(f, S) <= SumFunctionOnSet(g, T)
<1> DEFINE F(U) == SumFunctionOnSet(f, S \cap U)
           G(U) == SumFunctionOnSet(g, U)
           C == {U \in SUBSET T : F(U) <= G(U)}
<1>1. ASSUME NEW U \in SUBSET T
      PROVE  /\ F(U) \in Int /\ G(U) \in Int
             /\ U = {} => F(U) = 0 /\ G(U) = 0
             /\ \A x \in U : G(U) = g[x] + G(U \ {x})
             /\ \A x \in S \cap U : F(U) = f[x] + F(U \ {x})
  <2>1. IsFiniteSet(U) /\ IntOn(g, U)
    BY FS_Subset DEF NatOn, IntOn
  <2>2. IsFiniteSet(S \cap U) /\ IntOn(f, S \cap U)
    BY FS_Subset DEF IntOn
  <2>3. \A x : (S \cap U) \ {x} = S \cap (U \ {x})
    OBVIOUS
  <2>4. /\ G(U) \in Int /\ (U = {} => G(U) = 0)
        /\ \A x \in U : G(U) = g[x] + G(U \ {x})
    BY <2>1, SumLaws
  <2>5. /\ F(U) \in Int /\ (S \cap U = {} => F(U) = 0)
        /\ \A x \in S \cap U :
             F(U) = f[x] + SumFunctionOnSet(f, (S \cap U) \ {x})
    BY <2>2, SumLaws
  <2> QED BY <2>3, <2>4, <2>5
<1>2. ASSUME NEW x \in T, NEW U, x \notin S PROVE F(U) = F(U \ {x})
  <2>1. S \cap U = S \cap (U \ {x})
    BY <1>2
  <2> QED BY <2>1
<1> HIDE DEF F, G
<1>3. ASSUME NEW U \in SUBSET T, \A V \in SUBSET U : V # U => V \in C
      PROVE  U \in C
  <2>1. CASE U = {}
    <3>1. F(U) <= G(U)
      BY <1>1, <2>1
    <3> QED BY <3>1
  <2>2. CASE U # {}
    <3>1. PICK x \in U : TRUE
      BY <2>2
    <3>2. x \in T /\ U \ {x} \in SUBSET T /\ U \ {x} \in C
      BY <1>3
    <3>3. /\ G(U) = g[x] + G(U \ {x}) /\ g[x] \in Nat
          /\ G(U \ {x}) \in Int /\ F(U \ {x}) \in Int
      BY <1>1, <3>2 DEF NatOn
    <3>4. F(U \ {x}) <= G(U \ {x})
      BY <3>2
    <3>5. CASE x \in S
      <4>1. F(U) = f[x] + F(U \ {x}) /\ f[x] \in Int /\ f[x] <= g[x]
        BY <1>1, <3>5 DEF IntOn
      <4>2. F(U) <= G(U)
        BY <3>3, <3>4, <4>1
      <4> QED BY <4>2
    <3>6. CASE x \notin S
      <4>1. F(U) = F(U \ {x})
        BY <1>2, <3>2, <3>6
      <4>2. F(U) <= G(U)
        BY <3>3, <3>4, <4>1
      <4> QED BY <4>2
    <3> QED BY <3>5, <3>6
  <2> QED BY <2>1, <2>2
<1> HIDE DEF C
<1>4. SUBSET T \subseteq C
  BY <1>3, SubsetInduction
<1>5. T \in C /\ S \cap T = S
  BY <1>4
<1> QED BY <1>5 DEF C, F, G

LEMMA SumNat ==
  ASSUME NEW S, IsFiniteSet(S), NEW f, NatOn(f, S)
  PROVE  SumFunctionOnSet(f, S) \in Nat
<1>1. IntOn(f, {}) /\ IntOn(f, S) /\ \A x \in {} : f[x] <= f[x]
  BY DEF NatOn, IntOn
<1>2. SumFunctionOnSet(f, {}) = 0
  BY <1>1, FS_EmptySet, SumLaws
<1>3. SumFunctionOnSet(f, {}) <= SumFunctionOnSet(f, S)
  BY <1>1, SumMono
<1>4. SumFunctionOnSet(f, S) \in Int
  BY <1>1, SumLaws
<1> QED BY <1>2, <1>3, <1>4

LEMMA SumSame ==
  ASSUME NEW S, IsFiniteSet(S), NEW f, NEW g, NatOn(f, S),
         \A x \in S : f[x] = g[x]
  PROVE  SumFunctionOnSet(f, S) = SumFunctionOnSet(g, S)
<1>1. NatOn(g, S) /\ S \in SUBSET S
  BY DEF NatOn
<1>2. /\ \A x \in S : f[x] <= g[x] /\ g[x] <= f[x]
      /\ IntOn(f, S) /\ IntOn(g, S)
  BY <1>1 DEF NatOn, IntOn
<1>3. SumFunctionOnSet(f, S) <= SumFunctionOnSet(g, S)
  BY <1>1, <1>2, SumMono
<1>4. SumFunctionOnSet(g, S) <= SumFunctionOnSet(f, S)
  BY <1>1, <1>2, SumMono
<1>5. SumFunctionOnSet(f, S) \in Int /\ SumFunctionOnSet(g, S) \in Int
  BY <1>2, SumLaws
<1> QED BY <1>3, <1>4, <1>5

\* A sum over two sets.
LEMMA SumUnion ==
  ASSUME NEW S, IsFiniteSet(S), NEW T, IsFiniteSet(T), NEW f,
         NatOn(f, S \cup T)
  PROVE  LET s == SumFunctionOnSet(f, S)
             t == SumFunctionOnSet(f, T)
             u == SumFunctionOnSet(f, S \cup T)
         IN  u <= s + t /\ (S \cap T = {} => u = s + t)
<1> DEFINE F(U) == SumFunctionOnSet(f, U)
           C == {U \in SUBSET T : /\ F(S \cup U) <= F(S) + F(U)
                                  /\ S \cap U = {} => F(S \cup U)
                                                        = F(S) + F(U)}
<1>1. ASSUME NEW U \in SUBSET (S \cup T)
      PROVE  /\ F(U) \in Int /\ (U = {} => F(U) = 0)
             /\ \A x \in U : F(U) = f[x] + F(U \ {x})
  <2>1. IsFiniteSet(S \cup T)
    BY FS_Union
  <2>2. IsFiniteSet(U) /\ IntOn(f, U)
    BY <2>1, FS_Subset DEF NatOn, IntOn
  <2> QED BY <2>2, SumLaws
<1> HIDE DEF F
<1>2. ASSUME NEW U \in SUBSET T, \A V \in SUBSET U : V # U => V \in C
      PROVE  U \in C
  <2>1. CASE U = {}
    <3>1. S \cup U = S /\ F(U) = 0 /\ F(S) \in Int
      BY <1>1, <2>1
    <3> QED BY <3>1
  <2>2. CASE U # {}
    <3>1. PICK x \in U : TRUE
      BY <2>2
    <3> DEFINE V == U \ {x}
    <3>2. V \in C
      BY <1>2
    <3>3. F(U) = f[x] + F(V) /\ f[x] \in Nat
      BY <1>1 DEF NatOn
    <3>4. F(V) \in Int /\ F(S) \in Int /\ F(S \cup V) \in Int
      BY <1>1
    <3>5. /\ F(S \cup V) <= F(S) + F(V)
          /\ S \cap V = {} => F(S \cup V) = F(S) + F(V)
      BY <3>2
    <3>6. CASE x \in S
      <4>1. S \cup U = S \cup V /\ S \cap U # {}
        BY <3>6
      <4> HIDE DEF V
      <4>2. F(S \cup U) = F(S \cup V)
        BY <4>1
      <4>3. F(S \cup U) <= F(S) + F(U)
        BY <3>3, <3>4, <3>5, <4>2
      <4> QED BY <4>1, <4>3
    <3>7. CASE x \notin S
      <4>1. (S \cup U) \ {x} = S \cup V /\ S \cap U = S \cap V
        BY <3>7
      <4>2. F(S \cup U) = f[x] + F(S \cup V)
        BY <1>1, <4>1
      <4> HIDE DEF V
      <4>3. F(S \cup U) <= F(S) + F(U)
        BY <3>3, <3>4, <3>5, <4>2
      <4>4. S \cap U = {} => F(S \cup U) = F(S) + F(U)
        BY <3>3, <3>4, <3>5, <4>1, <4>2
      <4> QED BY <4>3, <4>4
    <3> QED BY <3>6, <3>7
  <2> QED BY <2>1, <2>2
<1> HIDE DEF C
<1>3. T \in C
  BY <1>2, SubsetInduction
<1> QED BY <1>3 DEF C, F

\* A sum over a family of sets.
LEMMA SumFamily ==
  ASSUME NEW R, IsFiniteSet(R), NEW D, IsFiniteSet(D),
         NEW m \in [R -> SUBSET D], NEW f, NatOn(f, D)
  PROVE  LET u == SumFunctionOnSet(f, UNION {m[r] : r \in R})
             h == SumFunctionOnSet([r \in R |-> SumFunctionOnSet(f, m[r])], R)
         IN  /\ u <= h
             /\ (\A r, q \in R : r = q \/ m[r] \cap m[q] = {}) => u = h
<1> DEFINE F(U) == SumFunctionOnSet(f, U)
           h == [r \in R |-> F(m[r])]
           All(Q) == UNION {m[r] : r \in Q}
           Apart == \A r, q \in R : r = q \/ m[r] \cap m[q] = {}
           C == {Q \in SUBSET R : /\ F(All(Q)) <= SumFunctionOnSet(h, Q)
                                  /\ Apart => F(All(Q))
                                                = SumFunctionOnSet(h, Q)}
<1>1. \A U \in SUBSET D : IsFiniteSet(U) /\ NatOn(f, U) /\ F(U) \in Nat
  BY FS_Subset, SumNat DEF NatOn
<1>2. \A Q \in SUBSET R : All(Q) \in SUBSET D
  OBVIOUS
<1>3. NatOn(h, R)
  BY <1>1 DEF NatOn
<1>4. \A r \in R : h[r] = F(m[r])
  OBVIOUS
<1>5. ASSUME NEW U \in SUBSET D, NEW V \in SUBSET D
      PROVE  /\ F(U \cup V) <= F(U) + F(V)
             /\ U \cap V = {} => F(U \cup V) = F(U) + F(V)
  BY <1>1, SumUnion
<1>6. F({}) = 0
  BY FS_EmptySet, SumLaws DEF IntOn
<1> HIDE DEF F, h
<1>7. ASSUME NEW Q \in SUBSET R
      PROVE  /\ SumFunctionOnSet(h, Q) \in Int
             /\ Q = {} => SumFunctionOnSet(h, Q) = 0
             /\ \A r \in Q : SumFunctionOnSet(h, Q)
                               = h[r] + SumFunctionOnSet(h, Q \ {r})
  <2>1. IsFiniteSet(Q) /\ IntOn(h, Q)
    BY <1>3, FS_Subset DEF NatOn, IntOn
  <2> QED BY <2>1, SumLaws
<1>8. ASSUME NEW Q \in SUBSET R, \A P \in SUBSET Q : P # Q => P \in C
      PROVE  Q \in C
  <2>1. CASE Q = {}
    <3>1. All(Q) = {}
      BY <2>1
    <3>2. F(All(Q)) = 0 /\ SumFunctionOnSet(h, Q) = 0
      BY <1>6, <1>7, <2>1, <3>1
    <3> QED BY <3>2
  <2>2. CASE Q # {}
    <3>1. PICK r \in Q : TRUE
      BY <2>2
    <3> DEFINE P == Q \ {r}
    <3>2. P \in C /\ P \in SUBSET R /\ r \in R
      BY <1>8
    <3>3. All(Q) = m[r] \cup All(P)
      OBVIOUS
    <3>4. Apart => m[r] \cap All(P) = {}
      BY <3>2
    <3>5. m[r] \in SUBSET D /\ All(P) \in SUBSET D
      BY <1>2, <3>2
    <3>6. SumFunctionOnSet(h, Q) = F(m[r]) + SumFunctionOnSet(h, P)
      BY <1>4, <1>7
    <3>7. /\ F(All(Q)) <= F(m[r]) + F(All(P))
          /\ Apart => F(All(Q)) = F(m[r]) + F(All(P))
      BY <1>5, <3>3, <3>4, <3>5
    <3>8. /\ F(All(P)) <= SumFunctionOnSet(h, P)
          /\ Apart => F(All(P)) = SumFunctionOnSet(h, P)
      BY <3>2
    <3>9. /\ F(m[r]) \in Int /\ F(All(P)) \in Int /\ F(All(Q)) \in Int
          /\ SumFunctionOnSet(h, P) \in Int
      BY <1>1, <1>2, <1>7, <3>2, <3>5
    <3> HIDE DEF All, Apart, P
    <3>10. F(All(Q)) <= SumFunctionOnSet(h, Q)
      BY <3>6, <3>7, <3>8, <3>9
    <3>11. Apart => F(All(Q)) = SumFunctionOnSet(h, Q)
      BY <3>6, <3>7, <3>8
    <3> QED BY <3>10, <3>11
  <2> QED BY <2>1, <2>2
<1> HIDE DEF C
<1>9. R \in C
  BY <1>8, SubsetInduction
<1> QED BY <1>9 DEF C, F, h

\* The greatest of finitely many numbers.
LEMMA MaxLaw ==
  ASSUME NEW S, IsFiniteSet(S), S # {}, S \subseteq Int
  PROVE  Max(S) \in S /\ \A x \in S : x <= Max(S)
<1> DEFINE C == {T \in SUBSET S :
                   T # {} => \E x \in T : \A y \in T : x >= y}
<1>1. ASSUME NEW T \in SUBSET S, \A U \in SUBSET T : U # T => U \in C
      PROVE  T \in C
  <2> SUFFICES ASSUME T # {} PROVE \E x \in T : \A y \in T : x >= y
    OBVIOUS
  <2>1. PICK z \in T : TRUE
    OBVIOUS
  <2>2. T \ {z} \in C
    BY <1>1
  <2>3. CASE T \ {z} = {}
    BY <2>3
  <2>4. CASE T \ {z} # {}
    <3>1. PICK x \in T \ {z} : \A y \in T \ {z} : x >= y
      BY <2>2, <2>4
    <3> QED BY <3>1
  <2> QED BY <2>3, <2>4
<1> HIDE DEF C
<1>2. S \in C
  BY <1>1, SubsetInduction
<1>3. \E x \in S : \A y \in S : x >= y
  BY <1>2 DEF C
<1> QED BY <1>3 DEF Max

-----------------------------------------------------------------------------
(* Every step of the recorder's world is a step of the strip, or none      *)

LEMMA StripSteps == [Next]_vars => [StripNext]_stripVars
<1> SUFFICES ASSUME [Next]_vars PROVE StripNext \/ UNCHANGED stripVars
  OBVIOUS
<1>1. Recorder \in Reader /\ User \subseteq Reader
  BY DEF Reader
<1>2. CASE BeginCycle
  BY <1>1, <1>2 DEF BeginCycle, StripNext
<1>3. CASE StripAnswers
  BY <1>1, <1>3 DEF StripAnswers, StripNext
<1>4. CASE WriteBatch \/ Prune
  BY <1>4 DEF WriteBatch, Prune
<1>5. ASSUME NEW p \in Plug, PlugAnswers(p) \/ PlugFails(p)
      PROVE UNCHANGED stripVars
  BY <1>5 DEF PlugAnswers, PlugFails
<1>6. ASSUME NEW u \in User, UserAsks(u) \/ UserServed(u) PROVE StripNext
  BY <1>1, <1>6 DEF UserAsks, UserServed, StripNext
<1>7. CASE Tick \/ Rediscover
  BY <1>7 DEF Tick, Rediscover, StripNext
<1>8. CASE Restart
  BY <1>8 DEF Restart, StripNext
<1>9. CASE UNCHANGED vars
  BY <1>9 DEF vars
<1> QED
  BY <1>2, <1>3, <1>4, <1>5, <1>6, <1>7, <1>8, <1>9 DEF Next

-----------------------------------------------------------------------------
(* The types of the strip                                                  *)

LEMMA Numbers ==
  /\ DayLen \in Nat \ {0} /\ TTL \in Nat \ {0} /\ MaxBurst \in Nat
  /\ Horizon \in Nat /\ 0 \in Time /\ Drift \in Nat /\ 0 \in Object
  BY TimesAssumption, ClockAssumption DEF Time, Object

Caching == [Object -> Reading \cup {Nothing}]
Stamping == [Object -> Time \cup {-TTL}]

LEMMA StripTypeInit == StripInit => StripTypeOK
  BY Numbers DEF StripInit, StripTypeOK, Place

\* What entering the critical section does to the types.
LEMMA InsideTypes ==
  ASSUME StripTypeOK, NEW r \in Reader, NEW o \in Object, Inside(r, o)
  PROVE  /\ place' \in [Reader -> Place]
         /\ on' \in [Reader -> Object]
         /\ since' \in [Reader -> Time]
<1>1. CASE Fresh(o)
  BY <1>1, Numbers DEF Inside, StripTypeOK, Place
<1>2. CASE ~Fresh(o)
  BY <1>2, Numbers DEF Inside, StripTypeOK, Place
<1> QED BY <1>1, <1>2

\* Collecting what is not held any more keeps the types.
LEMMA CachesTypes ==
  ASSUME NEW c \in Caching, NEW at \in Stamping, Caches(c, at)
  PROVE  cache' \in Caching /\ cacheAt' \in Stamping
<1>1. cache' \in Caching
  BY DEF Caches, Caching
<1>2. cacheAt' \in Stamping
  BY DEF Caches, Stamping
<1> QED BY <1>1, <1>2

LEMMA AppendReader ==
  ASSUME NEW r \in Reader, NEW w \in Seq(Reader)
  PROVE  Append(w, r) \in Seq(Reader)
  OBVIOUS

LEMMA HeadReader ==
  ASSUME NEW w \in Seq(Reader), w # <<>>
  PROVE  Head(w) \in Reader /\ Tail(w) \in Seq(Reader)
  OBVIOUS

\* By either clock an instant belongs to a day, as it does by one that is
\* off by e.
LEMMA ClockDays ==
  ASSUME NEW c \in Time, NEW day \in {StripDay(c), Day(c)}
  PROVE  \E e \in -Drift..Drift : day = (c + e) \div DayLen
<1>1. CASE day = StripDay(c)
  <2>1. Skew[c] \in -Drift..Drift
    BY ClockAssumption
  <2> QED BY <1>1, <2>1 DEF StripDay
<1>2. CASE day = Day(c)
  <2>1. 0 \in -Drift..Drift /\ c + 0 = c
    BY Numbers DEF Time
  <2> QED BY <1>2, <2>1 DEF Day
<1> QED BY <1>1, <1>2

\* The result of a burst is a reading.
LEMMA BurstReading ==
  ASSUME StripTypeOK, NEW r \in Reader, NEW rd \in BurstResults(r)
  PROVE  rd \in Reading /\ rd # Nothing
<1>1. CASE rd = Silence
  BY <1>1, Numbers DEF Silence, Nothing, Reading
<1>2. CASE rd # Silence
  <2>1. PICK c \in since[r]..now :
          rd \in [meters : (SUBSET Outlet) \ {{}},
                  day : {StripDay(c), Day(c)}, at : c..now]
    BY <1>2 DEF BurstResults
  <2>2. since[r] \in Time /\ now \in Time
    BY DEF StripTypeOK
  <2>3. c \in Time /\ c..now \subseteq Time
    BY <2>2, Numbers DEF Time
  <2>4. rd.day \in Int
    <3>1. PICK e \in -Drift..Drift : rd.day = (c + e) \div DayLen
      BY <2>1, <2>3, ClockDays
    <3>2. c + e \in Int
      BY <2>3, Numbers DEF Time
    <3> QED BY <3>1, <3>2, Numbers
  <2>5. rd.at \in Time /\ rd.at # -1 /\ rd.meters \in SUBSET Meter
    BY <2>1, <2>3, Numbers DEF Meter, Time
  <2>6. rd = [meters |-> rd.meters, day |-> rd.day, at |-> rd.at]
    BY <2>1
  <2>7. rd \in Reading
    BY <2>4, <2>5, <2>6 DEF Reading
  <2>8. rd.at # Nothing.at
    BY <2>5 DEF Nothing
  <2> QED BY <2>7, <2>8
<1> QED BY <1>1, <1>2

LEMMA StripTypeStep ==
  StripTypeOK /\ [StripNext]_stripVars => StripTypeOK'
<1> SUFFICES ASSUME StripTypeOK, [StripNext]_stripVars PROVE StripTypeOK'
  OBVIOUS
<1>0. cache \in Caching /\ cacheAt \in Stamping
  BY DEF StripTypeOK, Caching, Stamping
<1>1. ASSUME NEW r \in Reader, Enter(r) PROVE StripTypeOK'
  <2>0. cur \in Object
    BY DEF StripTypeOK
  <2>1. CASE Inside(r, cur) /\ UNCHANGED waiters
    BY <1>1, <2>0, <2>1, InsideTypes DEF Enter, StripTypeOK
  <2>2. CASE /\ place' = [place EXCEPT ![r] = "queued"]
             /\ on' = [on EXCEPT ![r] = cur]
             /\ waiters' = [waiters EXCEPT ![cur] = Append(@, r)]
             /\ UNCHANGED since
    <3>1. place' \in [Reader -> Place] /\ on' \in [Reader -> Object]
      BY <2>0, <2>2 DEF StripTypeOK, Place
    <3>2. Append(waiters[cur], r) \in Seq(Reader)
      BY <2>0, AppendReader DEF StripTypeOK
    <3>3. waiters' \in [Object -> Seq(Reader)]
      BY <2>2, <3>2 DEF StripTypeOK
    <3> QED BY <1>1, <2>2, <3>1, <3>3 DEF Enter, StripTypeOK
  <2> QED BY <1>1, <2>1, <2>2 DEF Enter
<1>2. ASSUME NEW r \in Reader, Handover(r) PROVE StripTypeOK'
  <2>0. on[r] \in Object
    BY DEF StripTypeOK
  <2>1. Tail(waiters[on[r]]) \in Seq(Reader)
    BY <1>2, <2>0, HeadReader DEF Handover, StripTypeOK
  <2>2. waiters' \in [Object -> Seq(Reader)]
    BY <1>2, <2>1 DEF Handover, StripTypeOK
  <2>3. cache' \in Caching /\ cacheAt' \in Stamping
    BY <1>0, <1>2, CachesTypes DEF Handover
  <2> QED BY <1>2, <2>0, <2>2, <2>3, InsideTypes
          DEF Handover, StripTypeOK, Caching, Stamping
<1>3. ASSUME NEW r \in Reader, NEW rd \in BurstResults(r), EndBurst(r, rd)
      PROVE StripTypeOK'
  <2>1. rd \in Reading /\ now \in Time
    BY BurstReading DEF StripTypeOK
  <2>2. /\ place' \in [Reader -> Place] /\ since' \in [Reader -> Time]
        /\ on' \in [Reader -> Object]
    BY <1>3, Numbers DEF EndBurst, StripTypeOK, Place
  <2>3. /\ [cache EXCEPT ![on[r]] = rd] \in Caching
        /\ [cacheAt EXCEPT ![on[r]] = now] \in Stamping
    BY <1>0, <2>1 DEF Caching, Stamping
  <2>4. cache' \in Caching /\ cacheAt' \in Stamping
    BY <1>0, <1>3, <2>3, CachesTypes DEF EndBurst
  <2> QED BY <1>3, <2>2, <2>4 DEF EndBurst, StripTypeOK, Caching, Stamping
<1>4. CASE Attach
  <2>1. cur' \in Object
    BY <1>4, TimesAssumption DEF Attach, StripTypeOK, Object
  <2>2. cache' \in Caching /\ cacheAt' \in Stamping
    BY <1>0, <1>4, CachesTypes DEF Attach
  <2> QED BY <1>4, <2>1, <2>2 DEF Attach, StripTypeOK, Caching, Stamping
<1>5. CASE StripTick
  <2>1. now' \in Time
    BY <1>5, Numbers DEF StripTick, StripTypeOK, Time
  <2> QED BY <1>5, <2>1 DEF StripTick, StripTypeOK
<1>6. CASE StripRestart
  <2>1. now' \in Time
    BY <1>6, Numbers DEF StripRestart, StripTypeOK, Time
  <2>2. place' \in [Reader -> Place] /\ since' \in [Reader -> Time]
        /\ on' \in [Reader -> Object] /\ cur' \in Object
    BY <1>6, Numbers DEF StripRestart, Place
  <2> QED BY <1>6, <2>1, <2>2 DEF StripRestart, StripTypeOK
<1>7. CASE UNCHANGED stripVars
  BY <1>7 DEF stripVars, StripTypeOK
<1> QED BY <1>1, <1>2, <1>3, <1>4, <1>5, <1>6, <1>7 DEF StripNext

-----------------------------------------------------------------------------
(* The lock                                                                *)

\* The lock of an object has one holder.
OneHolder ==
  \A r, q \in Reader :
    place[r] = "locked" /\ place[q] = "locked" /\ on[r] = on[q] => r = q

\* No call is made on an object that does not exist yet.
CallsOnPast == \A r \in Reader : place[r] # "out" => on[r] <= cur

\* An empty cache has never been filled, and that of garbage is empty.
Stamped(o) ==
  /\ cache[o] = Nothing => cacheAt[o] = -TTL
  /\ cache[o] # Nothing => cacheAt[o] \in Time
  /\ ~Held(o) => cache[o] = Nothing

SingleFlight == OneHolder /\ CallsOnPast /\ \A o \in Object : Stamped(o)

\* Entering with the lock of o free: either nobody holds it afterwards, or r
\* does and the cache was not fresh.
LEMMA InsideLock ==
  ASSUME StripTypeOK, OneHolder, NEW r \in Reader, NEW o \in Object,
         ~Locked(o), Inside(r, o)
  PROVE  /\ OneHolder'
         /\ Locked(o)' => ~Fresh(o) /\ place'[r] = "locked"
<1>1. \A q \in Reader : place[q] = "locked" => on[q] # o
  BY DEF Locked
<1>2. \A q \in Reader \ {r} : place'[q] = place[q] /\ on'[q] = on[q]
  BY DEF Inside, StripTypeOK
<1>3. \/ place'[r] = "out" /\ Fresh(o)
      \/ ~Fresh(o) /\ on'[r] = o /\ place'[r] \in {"locked", "loose"}
  BY DEF Inside, StripTypeOK
<1> QED BY <1>1, <1>2, <1>3 DEF Locked, OneHolder

\* A step of the call of r leaves alone every object it is not made on.
LEMMA Elsewhere ==
  ASSUME StripTypeOK, cur' = cur, NEW r \in Reader, NEW p,
         \A q \in Reader \ {r} : place'[q] = place[q] /\ on'[q] = on[q],
         place[r] = "out" \/ on[r] # p,
         place'[r] = "out" \/ on'[r] # p
  PROVE  (Held(p)' <=> Held(p)) /\ (Locked(p)' <=> Locked(p))
<1>1. \A q \in Reader : (on'[q] = p /\ place'[q] # "out")
                          <=> (on[q] = p /\ place[q] # "out")
  OBVIOUS
<1>2. \A q \in Reader : (on'[q] = p /\ place'[q] = "locked")
                          <=> (on[q] = p /\ place[q] = "locked")
  OBVIOUS
<1> QED BY <1>1, <1>2 DEF Held, Locked

\* Caches keeps the stamps of what is held, if they were in order.
LEMMA CachesStamped ==
  ASSUME NEW c \in Caching, NEW at \in Stamping, Caches(c, at),
         NEW o \in Object, c[o] = Nothing => at[o] = -TTL,
         c[o] # Nothing => at[o] \in Time
  PROVE  Stamped(o)'
<1>1. CASE Held(o)'
  <2>1. cache'[o] = c[o] /\ cacheAt'[o] = at[o]
    BY <1>1 DEF Caches
  <2> QED BY <1>1, <2>1 DEF Stamped
<1>2. CASE ~Held(o)'
  <2>1. cache'[o] = Nothing /\ cacheAt'[o] = -TTL
    BY <1>2 DEF Caches
  <2> QED BY <2>1 DEF Stamped, Nothing
<1> QED BY <1>1, <1>2

LEMMA StampedSame ==
  ASSUME NEW o, Stamped(o), cache'[o] = cache[o], cacheAt'[o] = cacheAt[o],
         Held(o) => Held(o)'
  PROVE  Stamped(o)'
  BY DEF Stamped

LEMMA SingleFlightStep ==
  StripTypeOK /\ SingleFlight /\ [StripNext]_stripVars => SingleFlight'
<1> SUFFICES ASSUME StripTypeOK, SingleFlight, [StripNext]_stripVars
             PROVE SingleFlight'
  OBVIOUS
<1>0. /\ cache \in Caching /\ cacheAt \in Stamping /\ cur \in Object
      /\ \A o \in Object : Stamped(o)
      /\ \A r \in Reader : on[r] \in Object
  BY DEF StripTypeOK, Caching, Stamping, SingleFlight
<1>1. ASSUME NEW r \in Reader, Enter(r) PROVE SingleFlight'
  <2>1. /\ OneHolder' /\ CallsOnPast'
        /\ \A q \in Reader \ {r} : place'[q] = place[q] /\ on'[q] = on[q]
        /\ place'[r] = "out" \/ on'[r] = cur
    <3>1. CASE ~Locked(cur) /\ Inside(r, cur)
      <4>1. OneHolder'
        BY <1>0, <3>1, InsideLock DEF SingleFlight
      <4>2. /\ \A q \in Reader \ {r} : place'[q] = place[q] /\ on'[q] = on[q]
            /\ place'[r] = "out" \/ on'[r] = cur
        BY <3>1 DEF Inside, StripTypeOK
      <4> QED BY <1>0, <1>1, <4>1, <4>2 DEF Enter, SingleFlight, CallsOnPast,
                 Object
    <3>2. CASE place' = [place EXCEPT ![r] = "queued"]
               /\ on' = [on EXCEPT ![r] = cur]
      <4>1. /\ \A q \in Reader \ {r} : place'[q] = place[q] /\ on'[q] = on[q]
            /\ place'[r] = "queued" /\ on'[r] = cur
        BY <3>2 DEF StripTypeOK
      <4> QED BY <1>0, <1>1, <4>1 DEF Enter, SingleFlight, OneHolder,
                 CallsOnPast, Object
    <3> QED BY <1>1, <3>1, <3>2 DEF Enter
  <2>2. ASSUME NEW o \in Object PROVE Stamped(o)'
    <3>1. /\ cur' = cur /\ place[r] = "out"
          /\ cache'[o] = cache[o] /\ cacheAt'[o] = cacheAt[o]
      BY <1>1 DEF Enter
    <3>2. Held(o) => Held(o)'
      <4>1. CASE o = cur
        BY <3>1, <4>1 DEF Held
      <4>2. CASE o # cur
        BY <2>1, <3>1, <4>2, Elsewhere
      <4> QED BY <4>1, <4>2
    <3> QED BY <1>0, <3>1, <3>2, StampedSame
  <2> QED BY <2>1, <2>2 DEF SingleFlight
<1>2. ASSUME NEW r \in Reader, Handover(r) PROVE SingleFlight'
  <2>1. OneHolder'
    BY <1>0, <1>2, InsideLock DEF Handover, SingleFlight
  <2>2. CallsOnPast'
    BY <1>2 DEF Handover, Inside, SingleFlight, CallsOnPast, StripTypeOK
  <2>3. \A o \in Object : Stamped(o)'
    BY <1>0, <1>2, CachesStamped DEF Handover, Stamped
  <2> QED BY <2>1, <2>2, <2>3 DEF SingleFlight
<1>3. ASSUME NEW r \in Reader, NEW rd \in BurstResults(r), EndBurst(r, rd)
      PROVE SingleFlight'
  <2>1. rd \in Reading /\ rd # Nothing /\ now \in Time
    BY BurstReading DEF StripTypeOK
  <2>2. OneHolder' /\ CallsOnPast'
    BY <1>3 DEF EndBurst, SingleFlight, OneHolder, CallsOnPast, StripTypeOK
  <2>3. CASE Caches(cache, cacheAt)
    <3>1. \A o \in Object : Stamped(o)'
      BY <1>0, <2>3, CachesStamped DEF Stamped
    <3> QED BY <2>2, <3>1 DEF SingleFlight
  <2>4. CASE Caches([cache EXCEPT ![on[r]] = rd],
                    [cacheAt EXCEPT ![on[r]] = now])
    <3> DEFINE c == [cache EXCEPT ![on[r]] = rd]
               at == [cacheAt EXCEPT ![on[r]] = now]
    <3>1. c \in Caching /\ at \in Stamping
      BY <1>0, <2>1 DEF Caching, Stamping
    <3>2. \A o \in Object : /\ c[o] = Nothing => at[o] = -TTL
                            /\ c[o] # Nothing => at[o] \in Time
      BY <1>0, <2>1 DEF Caching, Stamping, Stamped
    <3>3. Caches(c, at)
      BY <2>4
    <3> HIDE DEF c, at
    <3>4. \A o \in Object : Stamped(o)'
      BY <3>1, <3>2, <3>3, CachesStamped
    <3> QED BY <2>2, <3>4 DEF SingleFlight
  <2> QED BY <1>3, <2>3, <2>4 DEF EndBurst
<1>4. CASE Attach
  <2>1. \A o \in Object : Stamped(o)'
    BY <1>0, <1>4, CachesStamped DEF Attach, Stamped
  <2>2. OneHolder' /\ CallsOnPast'
    BY <1>0, <1>4 DEF Attach, SingleFlight, OneHolder, CallsOnPast, Object
  <2> QED BY <2>1, <2>2 DEF SingleFlight
<1>5. CASE StripTick
  BY <1>0, <1>5 DEF StripTick, SingleFlight, OneHolder, CallsOnPast, Stamped,
     Held
<1>6. CASE StripRestart
  BY <1>6 DEF StripRestart, SingleFlight, OneHolder, CallsOnPast, Stamped
<1>7. CASE UNCHANGED stripVars
  BY <1>0, <1>7 DEF stripVars, SingleFlight, OneHolder, CallsOnPast, Stamped,
     Held
<1> QED BY <1>1, <1>2, <1>3, <1>4, <1>5, <1>6, <1>7 DEF StripNext

StripInv == StripTypeOK /\ SingleFlight

LEMMA StripInvInit == StripInit => StripInv
  BY StripTypeInit DEF StripInit, StripInv, SingleFlight, OneHolder,
     CallsOnPast, Stamped

LEMMA StripInvariance == Spec => []StripInv
<1>1. Init => StripInv
  BY StripInvInit DEF Init
<1>2. StripInv /\ [Next]_vars => StripInv'
  BY StripSteps, StripTypeStep, SingleFlightStep DEF StripInv
<1> QED BY <1>1, <1>2, PTL DEF Spec

-----------------------------------------------------------------------------
(* The refinement, object by object                                        *)

\* Nothing happens to object p.
Idle(p) == UNCHANGED <<now, Locked(p), cacheAt[p], p < cur /\ ~Held(p)>>

\* A step that touches neither the calls on p nor the current object.
LEMMA IdleElsewhere ==
  ASSUME StripInv, NEW p \in Object, NEW r \in Reader,
         UNCHANGED <<now, cur>>,
         \A q \in Reader \ {r} : place'[q] = place[q] /\ on'[q] = on[q],
         place[r] = "out" \/ on[r] # p,
         place'[r] = "out" \/ on'[r] # p,
         \/ cacheAt'[p] = cacheAt[p]
         \/ cacheAt'[p] = IF Held(p)' THEN cacheAt[p] ELSE -TTL
  PROVE  Idle(p)
<1>1. (Held(p)' <=> Held(p)) /\ (Locked(p)' <=> Locked(p))
  BY Elsewhere DEF StripInv
<1>2. ~Held(p) => cacheAt[p] = -TTL
  BY DEF StripInv, SingleFlight, Stamped
<1>3. cacheAt'[p] = cacheAt[p]
  BY <1>1, <1>2
<1>4. Locked(p)' = Locked(p) /\ Held(p)' = Held(p)
  BY <1>1 DEF Locked, Held
<1> QED BY <1>3, <1>4 DEF Idle

\* What stops being held was in use, and nobody had its lock.
LEMMA DiscardOf ==
  ASSUME StripInv, NEW p \in Object, Held(p), ~Held(p)', ~Locked(p),
         now' = now, p < cur', cacheAt'[p] = -TTL
  PROVE  Shared(p)!Discard
<1>1. ~Locked(p)'
  BY DEF Held, Locked
<1>2. Locked(p)' = Locked(p)
  BY <1>1 DEF Locked
<1> QED BY <1>2 DEF Shared!Discard, Shared!Never

\* The lock of o is not held and the call of r enters.
LEMMA EnteredShared ==
  ASSUME StripInv, NEW r \in Reader, NEW o \in Object, ~Locked(o),
         Inside(r, o), UNCHANGED <<now, cur>>, Held(o), Held(o)',
         cacheAt'[o] = cacheAt[o]
  PROVE  Shared(o)!StartBurst \/ Idle(o)
<1>1. CASE Locked(o)'
  <2>1. ~Fresh(o)
    BY <1>1, InsideLock DEF StripInv, SingleFlight
  <2>2. now - cacheAt[o] >= TTL
    <3>1. CASE cache[o] = Nothing
      BY <3>1, Numbers DEF StripInv, SingleFlight, Stamped, StripTypeOK, Time
    <3>2. CASE cache[o] # Nothing
      BY <2>1, <3>2, Numbers DEF Fresh, StripInv, SingleFlight, Stamped,
         StripTypeOK, Time
    <3> QED BY <3>1, <3>2
  <2> QED BY <1>1, <2>2 DEF Shared!StartBurst
<1>2. CASE ~Locked(o)'
  BY <1>2 DEF Locked, Idle
<1> QED BY <1>1, <1>2

LEMMA SharedStep ==
  ASSUME NEW p \in Object
  PROVE  StripInv /\ [StripNext]_stripVars
           => [Shared(p)!Next]_(Shared(p)!vars)
<1> SUFFICES ASSUME StripInv, [StripNext]_stripVars
             PROVE Shared(p)!Next \/ Idle(p)
  BY DEF Shared!vars, Idle
<1>0. /\ cur \in Object /\ \A r \in Reader : on[r] \in Object
      /\ ~Held(p) => cacheAt[p] = -TTL
      /\ \A r \in Reader : place[r] # "out" => on[r] <= cur
  BY DEF StripInv, StripTypeOK, SingleFlight, Stamped, CallsOnPast
<1>1. ASSUME NEW r \in Reader, Enter(r) PROVE Shared(p)!Next \/ Idle(p)
  <2>0. UNCHANGED <<now, cur, cacheAt>> /\ place[r] = "out"
    BY <1>1 DEF Enter
  <2>1. /\ \A q \in Reader \ {r} : place'[q] = place[q] /\ on'[q] = on[q]
        /\ place'[r] = "out" \/ on'[r] = cur
    BY <1>1 DEF Enter, Inside, StripInv, StripTypeOK
  <2>2. CASE p # cur
    BY <2>0, <2>1, <2>2, IdleElsewhere
  <2>3. CASE p = cur /\ ~Locked(cur) /\ Inside(r, cur)
    <3>1. Held(p) /\ Held(p)'
      BY <2>0, <2>3 DEF Held
    <3> QED BY <2>0, <2>3, <3>1, EnteredShared DEF Shared!Next
  <2>4. CASE p = cur /\ place' = [place EXCEPT ![r] = "queued"]
    <3>1. Held(p) /\ Held(p)'
      BY <2>0, <2>4 DEF Held
    <3>2. place'[r] = "queued"
      BY <2>4 DEF StripInv, StripTypeOK
    <3>3. Locked(p)' <=> Locked(p)
      BY <2>0, <2>1, <3>2 DEF Locked
    <3>4. Locked(p)' = Locked(p)
      BY <3>3 DEF Locked
    <3> QED BY <2>0, <3>1, <3>4 DEF Idle
  <2> QED BY <1>1, <2>2, <2>3, <2>4 DEF Enter
<1>2. ASSUME NEW r \in Reader, Handover(r) PROVE Shared(p)!Next \/ Idle(p)
  <2>0. /\ UNCHANGED <<now, cur>> /\ place[r] = "queued"
        /\ Inside(r, on[r]) /\ ~Locked(on[r])
        /\ cacheAt'[p] = IF Held(p)' THEN cacheAt[p] ELSE -TTL
    BY <1>2 DEF Handover, Caches
  <2>1. /\ \A q \in Reader \ {r} : place'[q] = place[q] /\ on'[q] = on[q]
        /\ place'[r] = "out" \/ on'[r] = on[r]
    BY <2>0 DEF Inside, StripInv, StripTypeOK
  <2>2. CASE p # on[r]
    BY <2>0, <2>1, <2>2, IdleElsewhere
  <2>3. CASE p = on[r]
    <3>1. Held(p) /\ ~Locked(p) /\ Inside(r, p)
      BY <2>0, <2>3 DEF Held
    <3>2. CASE Held(p)'
      BY <2>0, <3>1, <3>2, EnteredShared DEF Shared!Next
    <3>3. CASE ~Held(p)'
      <4>1. p <= cur /\ p # cur'
        BY <1>0, <2>0, <2>3, <3>3 DEF Held
      <4>2. p < cur'
        BY <1>0, <2>0, <4>1 DEF Object
      <4> QED BY <2>0, <3>1, <3>3, <4>2, DiscardOf DEF Shared!Next
    <3> QED BY <3>2, <3>3
  <2> QED BY <2>2, <2>3
<1>3. ASSUME NEW r \in Reader, NEW rd \in BurstResults(r), EndBurst(r, rd)
      PROVE Shared(p)!Next \/ Idle(p)
  <2>0. /\ UNCHANGED <<now, cur>> /\ place[r] \in {"locked", "loose"}
        /\ place'[r] = "out"
        /\ \A q \in Reader \ {r} : place'[q] = place[q] /\ on'[q] = on[q]
    BY <1>3 DEF EndBurst, StripInv, StripTypeOK
  <2>1. CASE p # on[r]
    <3>1. cacheAt'[p] = IF Held(p)' THEN cacheAt[p] ELSE -TTL
      BY <1>3, <2>1 DEF EndBurst, Caches, StripInv, StripTypeOK
    <3> QED BY <2>0, <2>1, <3>1, IdleElsewhere
  <2>2. CASE p = on[r]
    <3>1. Held(p)
      BY <2>0, <2>2 DEF Held
    <3>2. ~Held(p)' => p < cur'
      <4>1. ~Held(p)' => p # cur'
        BY DEF Held
      <4>2. p <= cur
        BY <1>0, <2>0, <2>2
      <4> QED BY <1>0, <2>0, <4>1, <4>2 DEF Object
    <3>3. CASE place[r] = "locked"
      <4>1. cacheAt'[p] = IF Held(p)' THEN now ELSE -TTL
        BY <1>3, <2>2, <3>3 DEF EndBurst, Caches, StripInv, StripTypeOK
      <4>2. Locked(p)
        BY <2>2, <3>3 DEF Locked
      <4>3. Locked(p)' = FALSE
        BY <2>0, <2>2, <3>3 DEF Locked, StripInv, SingleFlight, OneHolder
      <4>4. Held(p)' = TRUE \/ Held(p)' = FALSE
        BY DEF Held
      <4>5. CASE Held(p)'
        BY <2>0, <3>1, <4>1, <4>2, <4>3, <4>5 DEF Shared!EndBurst, Shared!Next
      <4>6. CASE ~Held(p)'
        BY <2>0, <3>2, <4>1, <4>2, <4>3, <4>6
           DEF Shared!EndBurst, Shared!Never, Shared!Next
      <4> QED BY <4>5, <4>6
    <3>4. CASE place[r] = "loose"
      <4>1. cacheAt'[p] = IF Held(p)' THEN cacheAt[p] ELSE -TTL
        BY <1>3, <3>4 DEF EndBurst, Caches
      <4>2. Locked(p)' <=> Locked(p)
        BY <2>0, <3>4 DEF Locked
      <4>3. Locked(p)' = Locked(p)
        BY <4>2 DEF Locked
      <4>4. CASE Held(p)'
        BY <2>0, <3>1, <4>1, <4>3, <4>4 DEF Idle
      <4>5. CASE ~Held(p)'
        <5>1. ~Locked(p)
          BY <4>2, <4>5 DEF Held, Locked
        <5> QED BY <2>0, <3>1, <3>2, <4>1, <4>5, <5>1, DiscardOf
                DEF Shared!Next
      <4> QED BY <4>4, <4>5
    <3> QED BY <2>0, <3>3, <3>4
  <2> QED BY <2>1, <2>2
<1>4. CASE Attach
  <2>1. /\ UNCHANGED <<now, on, place>> /\ cur' = cur + 1
        /\ cacheAt'[p] = IF Held(p)' THEN cacheAt[p] ELSE -TTL
    BY <1>4 DEF Attach, Caches
  <2>2. Locked(p)' = Locked(p)
    BY <2>1 DEF Locked
  <2>3. CASE p = cur /\ ~Held(p)'
    <3>1. Held(p) /\ p < cur'
      BY <1>0, <2>1, <2>3 DEF Held, Object
    <3>2. ~Locked(p)
      BY <2>2, <2>3 DEF Held, Locked
    <3> QED BY <2>1, <2>3, <3>1, <3>2, DiscardOf DEF Shared!Next
  <2>4. CASE p = cur /\ Held(p)'
    <3>1. Held(p)
      BY <2>4 DEF Held
    <3> QED BY <2>1, <2>2, <2>4, <3>1 DEF Idle
  <2>5. CASE p < cur
    <3>1. Held(p)' <=> Held(p)
      BY <1>0, <2>1, <2>5 DEF Held, Object
    <3>2. p < cur'
      BY <1>0, <2>1, <2>5 DEF Object
    <3>3. Held(p)' = Held(p)
      BY <3>1 DEF Held
    <3> QED BY <1>0, <2>1, <2>2, <2>5, <3>2, <3>3 DEF Idle
  <2>6. CASE p > cur
    <3>1. ~Held(p)
      BY <1>0, <2>6 DEF Held, Object
    <3>2. ~(p < cur) /\ ~(p < cur')
      BY <1>0, <2>1, <2>6 DEF Object
    <3> QED BY <1>0, <2>1, <2>2, <3>1, <3>2 DEF Idle
  <2> QED BY <1>0, <2>3, <2>4, <2>5, <2>6 DEF Object
<1>5. CASE StripTick
  BY <1>5 DEF StripTick, Shared!Tick, Shared!Next, Locked, Held
<1>6. CASE StripRestart
  <2>1. ~Locked(p)' /\ cur' = 0 /\ cacheAt'[p] = -TTL
        /\ now < Horizon /\ now' = now + 1
    BY <1>6 DEF StripRestart, Locked
  <2>2. ~(p < cur')
    BY <2>1 DEF Object
  <2> QED BY <2>1, <2>2 DEF Shared!Restart, Shared!Never, Shared!Next, Locked
<1>7. CASE UNCHANGED stripVars
  BY <1>7 DEF stripVars, Locked, Held, Idle
<1> QED BY <1>1, <1>2, <1>3, <1>4, <1>5, <1>6, <1>7 DEF StripNext

LEMMA SharedInit ==
  ASSUME NEW p \in Object PROVE Init => Shared(p)!Init
  BY DEF Init, StripInit, Shared!Init, Shared!Never, Locked, Object

\* The strip's variables keep their types, whatever the recorder and the
\* users do.
THEOREM StripTypeCorrect == Spec => []StripTypeOK
<1>1. StripInv => StripTypeOK BY DEF StripInv
<1> QED BY <1>1, StripInvariance, PTL

\* The summary cache is a shared read: with any number of users and the
\* recorder, and however often the strip's object is replaced under them,
\* the bursts of one object never overlap and are at least the time to live
\* apart, and an object that is out of use makes none.
THEOREM BurstsShared == Spec => SharedReads
<1> DEFINE Starts == \A o \in Object : Shared(o)!Init
           Steps == \A o \in Object : [Shared(o)!Next]_(Shared(o)!vars)
<1>1. Init => Starts
  BY SharedInit
<1>2. StripInv /\ [Next]_vars => Steps
  BY StripSteps, SharedStep
<1>3. Spec => Starts /\ [][Steps]_stripVars
  BY <1>1, <1>2, StripInvariance, PTL DEF Spec
<1> QED BY <1>3 DEF SharedReads

-----------------------------------------------------------------------------
(* The calendar                                                            *)

LEMMA DivLaw ==
  ASSUME NEW t \in Int, NEW k \in Nat \ {0}
  PROVE  /\ t \div k \in Int /\ t \in Nat => t \div k \in Nat
         /\ (t \div k) * k <= t /\ t < (t \div k + 1) * k
<1>1. /\ t \div k \in Int /\ t \in Nat => t \div k \in Nat
      /\ (t \div k) * k <= t /\ t < (t \div k) * k + k
  OBVIOUS
<1>2. (t \div k) * k + k = (t \div k + 1) * k
  BY <1>1
<1> QED BY <1>1, <1>2

\* Multiplication by a length keeps the order, and is strict if it is not 0.
LEMMA ScaleOrder ==
  ASSUME NEW a \in Int, NEW b \in Int, NEW k \in Nat
  PROVE  /\ a * k \in Int /\ (a + 1) * k = a * k + k
         /\ a <= b => a * k <= b * k
         /\ a * k < b * k => a < b
<1>1. a <= b => a * k <= b * k
  OBVIOUS
<1>2. b <= a => b * k <= a * k
  OBVIOUS
<1>3. a * k \in Int /\ (a + 1) * k = a * k + k /\ b * k \in Int
  OBVIOUS
<1> QED BY <1>1, <1>2, <1>3

\* A number at or after the beginning of a period is in that one or later.
LEMMA DivFrom ==
  ASSUME NEW t \in Nat, NEW k \in Nat \ {0}, NEW q \in Int
  PROVE  (q * k <= t) <=> (q <= t \div k)
<1> DEFINE d == t \div k
<1>1. d \in Nat /\ d * k <= t /\ t < (d + 1) * k
  BY DivLaw
<1> HIDE DEF d
<1>2. ASSUME q <= d PROVE q * k <= t
  <2>1. q * k <= d * k
    BY <1>1, <1>2, ScaleOrder
  <2>2. q * k \in Int /\ d * k \in Int
    BY <1>1, ScaleOrder
  <2> QED BY <1>1, <2>1, <2>2
<1>3. ASSUME q * k <= t PROVE q <= d
  <2>1. q * k \in Int /\ (d + 1) * k \in Int
    BY <1>1, ScaleOrder
  <2>2. q * k < (d + 1) * k
    BY <1>1, <1>3, <2>1
  <2>3. q < d + 1
    BY <1>1, <2>2, ScaleOrder
  <2> QED BY <1>1, <2>3
<1> QED BY <1>2, <1>3 DEF d

LEMMA DayLaw ==
  ASSUME NEW t \in Nat
  PROVE  Day(t) \in Nat /\ Day(t) * DayLen <= t /\ t < (Day(t) + 1) * DayLen
  BY DivLaw, Numbers DEF Day

LEMMA DayFrom ==
  ASSUME NEW t \in Nat, NEW day \in Int
  PROVE  (day * DayLen <= t) <=> (day <= Day(t))
  BY DivFrom, Numbers DEF Day

LEMMA DayOrder ==
  ASSUME NEW a \in Nat, NEW b \in Nat, a <= b PROVE Day(a) <= Day(b)
<1>1. Day(a) \in Nat /\ Day(a) * DayLen <= a
  BY DayLaw
<1>2. Day(a) * DayLen <= b
  BY <1>1, ScaleOrder, Numbers
<1> QED BY <1>1, <1>2, DayFrom

\* What a plug adds up over part of a day is a number.
LEMMA UseNat ==
  ASSUME NEW p \in Plug, NEW day \in Nat, NEW t \in Time
  PROVE  DayUse(p, day, t) \in Nat
<1> DEFINE lo == day * DayLen
           hi == Least(t, (day + 1) * DayLen) - 1
<1>1. lo \in Nat /\ (day + 1) * DayLen \in Int /\ t \in Nat /\ t <= Horizon
  BY Numbers, ScaleOrder DEF Time
<1>2. hi \in Int /\ hi <= Horizon - 1
  <2>1. \A x \in Int : Least(t, x) \in Int /\ Least(t, x) <= t
    BY <1>1 DEF Least
  <2>2. Least(t, (day + 1) * DayLen) \in Int
        /\ Least(t, (day + 1) * DayLen) <= t
    BY <1>1, <2>1
  <2> QED BY <1>1, <2>2, Numbers
<1>3. IsFiniteSet(lo..hi)
  <2> HIDE DEF lo, hi
  <2> QED BY <1>1, <1>2, FS_Interval
<1>4. NatOn(Load[p], lo..hi)
  <2> HIDE DEF lo, hi
  <2>1. lo..hi \subseteq 0..(Horizon - 1)
    BY <1>1, <1>2, Numbers
  <2> QED BY <2>1, LoadAssumption DEF NatOn, Meter
<1> QED BY <1>3, <1>4, SumNat DEF DayUse

\* What a meter of the strip has filed under a day by instant t.
LEMMA FiledNat ==
  ASSUME NEW m \in Meter, NEW day, NEW t \in Time
  PROVE  SumFunctionOnSet(Load[m], TicksOf(day, t)) \in Nat
<1>1. t \in Nat /\ t <= Horizon
  BY Numbers DEF Time
<1>2. TicksOf(day, t) \subseteq 0..(t - 1)
  BY DEF TicksOf
<1>3. IsFiniteSet(0..(t - 1))
  BY <1>1, FS_Interval
<1>4. IsFiniteSet(TicksOf(day, t))
  BY <1>2, <1>3, FS_Subset
<1>5. TicksOf(day, t) \subseteq 0..(Horizon - 1)
  BY <1>1, <1>2, Numbers
<1>6. NatOn(Load[m], TicksOf(day, t))
  BY <1>5, LoadAssumption DEF NatOn
<1> QED BY <1>4, <1>6, SumNat

\* A reading reports a number.
LEMMA KwhNat == ASSUME NEW rd \in Reading PROVE Kwh(rd) \in Nat
<1> DEFINE f == [m \in rd.meters |->
                   SumFunctionOnSet(Load[m], TicksOf(rd.day, rd.at))]
<1>1. IsFiniteSet(rd.meters)
  BY MeterAssumption, FS_Subset DEF Reading
<1>2. NatOn(f, rd.meters)
  BY FiledNat DEF NatOn, Reading
<1>3. SumFunctionOnSet(f, rd.meters) \in Nat
  <2> HIDE DEF f
  <2> QED BY <1>1, <1>2, SumNat
<1> QED BY <1>3 DEF Kwh, SumFunction

-----------------------------------------------------------------------------
(* How old what is read can be                                             *)

\* Is a day that of an instant at most one read and the strip's drift from t?
Near(day, t) == /\ day * DayLen <= t + Drift
                /\ t - MaxBurst - Drift < (day + 1) * DayLen

\* A cached reading is of the past, and of a day near its stamp if it has any
\* energy.
CacheBounded(o) ==
  cache[o] # Nothing =>
    /\ cacheAt[o] <= now
    /\ cache[o].meters # {} => Near(cache[o].day, cacheAt[o])

\* A burst is over within MaxBurst, and the recorder only ever bursts outside
\* the lock.
StripBounded ==
  /\ place[Recorder] # "locked"
  /\ \A r \in Reader : place[r] \in {"locked", "loose"}
                         => since[r] <= now /\ now - since[r] <= MaxBurst
  /\ \A o \in Object : CacheBounded(o)

\* The result of a burst, at the instant at which it is returned.
LEMMA BurstBounded ==
  ASSUME StripTypeOK, StripBounded, NEW r \in Reader,
         NEW rd \in BurstResults(r), EndBurst(r, rd)
  PROVE  rd \in Reading /\ (rd.meters # {} => Near(rd.day, now))
<1>1. rd \in Reading
  BY BurstReading
<1>2. ASSUME rd.meters # {} PROVE Near(rd.day, now)
  <2>1. rd # Silence
    BY <1>2 DEF Silence
  <2>2. PICK c \in since[r]..now : rd.day \in {StripDay(c), Day(c)}
    BY <2>1 DEF BurstResults
  <2>3. since[r] \in Time /\ now \in Time
    BY DEF StripTypeOK
  <2>4. c \in Time /\ c \in Int /\ now \in Int /\ c <= now /\ since[r] <= c
        /\ since[r] \in Int
    BY <2>3, Numbers DEF Time
  <2>5. PICK e \in -Drift..Drift : rd.day = (c + e) \div DayLen
    BY <2>2, <2>4, ClockDays
  <2>6. c + e \in Int /\ e \in Int /\ -Drift <= e /\ e <= Drift
    BY <2>4, Numbers
  <2>7. rd.day * DayLen <= c + e /\ c + e < (rd.day + 1) * DayLen
    BY <2>5, <2>6, DivLaw, Numbers
  <2>8. rd.day * DayLen \in Int /\ (rd.day + 1) * DayLen \in Int
    BY <1>1, ScaleOrder, Numbers DEF Reading
  <2>9. now - since[r] <= MaxBurst
    BY DEF StripBounded, EndBurst
  <2> QED BY <2>4, <2>6, <2>7, <2>8, <2>9, Numbers DEF Near
<1> QED BY <1>1, <1>2

\* Entering leaves the bounds of the bursts in place.
LEMMA InsideBounded ==
  ASSUME StripTypeOK, StripBounded, NEW r \in Reader, NEW o \in Object,
         Inside(r, o), UNCHANGED now
  PROVE  /\ place'[Recorder] # "locked"
         /\ \A q \in Reader : place'[q] \in {"locked", "loose"}
                => since'[q] <= now' /\ now' - since'[q] <= MaxBurst
<1>1. place'[Recorder] # "locked"
  BY DEF Inside, StripBounded, StripTypeOK, Reader
<1>2. ASSUME NEW q \in Reader, place'[q] \in {"locked", "loose"}
      PROVE  since'[q] <= now /\ now - since'[q] <= MaxBurst
  <2>1. CASE Fresh(o)
    BY <1>2, <2>1 DEF Inside, StripBounded, StripTypeOK
  <2>2. CASE ~Fresh(o) /\ q = r
    <3>1. since'[q] = now /\ now \in Int
      BY <2>2 DEF Inside, StripTypeOK, Time
    <3> QED BY <3>1, Numbers
  <2>3. CASE ~Fresh(o) /\ q # r
    <3>1. since'[q] = since[q] /\ place'[q] = place[q]
      BY <2>3 DEF Inside, StripTypeOK
    <3> QED BY <1>2, <3>1 DEF StripBounded
  <2> QED BY <2>1, <2>2, <2>3
<1> QED BY <1>1, <1>2

\* Collecting caches leaves the bounds of the rest in place.
LEMMA CachesBounded ==
  ASSUME NEW c, NEW at, Caches(c, at), NEW o \in Object,
         c[o] # Nothing => /\ at[o] <= now'
                           /\ c[o].meters # {} => Near(c[o].day, at[o])
  PROVE  CacheBounded(o)'
<1>1. CASE cache'[o] = Nothing
  BY <1>1 DEF CacheBounded, Nothing
<1>2. CASE cache'[o] # Nothing
  <2>1. cache'[o] = c[o] /\ cacheAt'[o] = at[o]
    BY <1>2 DEF Caches
  <2> HIDE DEF Near
  <2>2. \A day, t : Near(day, t)' <=> Near(day, t)
    BY DEF Near
  <2> QED BY <1>2, <2>1 DEF CacheBounded, Near
<1> QED BY <1>1, <1>2

LEMMA StripBoundedStep ==
  StripTypeOK /\ SingleFlight /\ StripBounded /\ [StripNext]_stripVars
    => StripBounded'
<1> SUFFICES ASSUME StripTypeOK, SingleFlight, StripBounded,
                    [StripNext]_stripVars
             PROVE StripBounded'
  OBVIOUS
<1>0. now \in Nat /\ \A r \in Reader : since[r] \in Nat
  BY DEF StripTypeOK, Time
<1>a. /\ cur \in Object /\ \A r \in Reader : on[r] \in Object
      /\ \A o \in Object : CacheBounded(o)
  BY DEF StripTypeOK, StripBounded
<1>b. ASSUME now' = now, Caches(cache, cacheAt)
      PROVE  \A o \in Object : CacheBounded(o)'
  BY <1>a, <1>b, CachesBounded DEF CacheBounded
<1>c. ASSUME now' = now, UNCHANGED <<cache, cacheAt>>
      PROVE  \A o \in Object : CacheBounded(o)'
  BY <1>a, <1>c DEF CacheBounded, Near
<1>1. ASSUME NEW r \in Reader, Enter(r) PROVE StripBounded'
  <2>1. \A o \in Object : CacheBounded(o)'
    BY <1>1, <1>c DEF Enter
  <2>2. CASE Inside(r, cur)
    BY <1>1, <1>a, <2>1, <2>2, InsideBounded DEF Enter, StripBounded
  <2>3. CASE place' = [place EXCEPT ![r] = "queued"] /\ UNCHANGED since
    BY <1>1, <2>1, <2>3 DEF Enter, StripBounded, StripTypeOK
  <2> QED BY <1>1, <2>2, <2>3 DEF Enter
<1>2. ASSUME NEW r \in Reader, Handover(r) PROVE StripBounded'
  <2>1. \A o \in Object : CacheBounded(o)'
    BY <1>2, <1>b DEF Handover
  <2> QED BY <1>2, <1>a, <2>1, InsideBounded DEF Handover, StripBounded
<1>3. ASSUME NEW r \in Reader, NEW rd \in BurstResults(r), EndBurst(r, rd)
      PROVE StripBounded'
  <2>1. rd \in Reading /\ (rd.meters # {} => Near(rd.day, now))
    BY <1>3, BurstBounded
  <2>2. place'[Recorder] # "locked"
    BY <1>3 DEF EndBurst, StripBounded, StripTypeOK
  <2>3. \A q \in Reader : place'[q] \in {"locked", "loose"}
                            => since'[q] <= now' /\ now' - since'[q] <= MaxBurst
    BY <1>3 DEF EndBurst, StripBounded, StripTypeOK
  <2>4. now' = now
    BY <1>3 DEF EndBurst
  <2>5. CASE Caches(cache, cacheAt)
    BY <1>b, <2>2, <2>3, <2>4, <2>5 DEF StripBounded
  <2>6. CASE Caches([cache EXCEPT ![on[r]] = rd],
                    [cacheAt EXCEPT ![on[r]] = now])
    <3> DEFINE c == [cache EXCEPT ![on[r]] = rd]
               at == [cacheAt EXCEPT ![on[r]] = now]
    <3>1. \A o \in Object : /\ o = on[r] => c[o] = rd /\ at[o] = now
                            /\ o # on[r] => c[o] = cache[o]
                                            /\ at[o] = cacheAt[o]
      BY DEF StripTypeOK
    <3>2. Caches(c, at)
      BY <2>6
    <3> HIDE DEF c, at
    <3>3. ASSUME NEW o \in Object
          PROVE  c[o] # Nothing =>
                   /\ at[o] <= now'
                   /\ c[o].meters # {} => Near(c[o].day, at[o])
      <4>1. CASE o = on[r]
        BY <1>0, <2>1, <2>4, <3>1, <4>1
      <4>2. CASE o # on[r]
        BY <1>a, <2>4, <3>1, <4>2 DEF CacheBounded
      <4> QED BY <4>1, <4>2
    <3>4. \A o \in Object : CacheBounded(o)'
      BY <3>2, <3>3, CachesBounded
    <3> QED BY <2>2, <2>3, <3>4 DEF StripBounded
  <2> QED BY <1>3, <2>5, <2>6 DEF EndBurst
<1>4. CASE Attach
  <2>1. now' = now /\ UNCHANGED <<place, since>> /\ Caches(cache, cacheAt)
    BY <1>4 DEF Attach
  <2>2. \A o \in Object : CacheBounded(o)'
    BY <1>b, <2>1
  <2> QED BY <2>1, <2>2 DEF StripBounded
<1>5. CASE StripTick
  <2>1. /\ now' = now + 1 /\ UNCHANGED <<place, since, cache, cacheAt>>
        /\ \A r \in Reader : place[r] \in {"locked", "loose"}
                               => now - since[r] < MaxBurst
    BY <1>5 DEF StripTick
  <2>2. \A q \in Reader : place'[q] \in {"locked", "loose"}
                            => since'[q] <= now' /\ now' - since'[q] <= MaxBurst
    BY <1>0, <2>1, Numbers DEF StripBounded
  <2>3. ASSUME NEW o \in Object PROVE CacheBounded(o)'
    <3>1. cache[o] # Nothing => cacheAt[o] \in Nat
      BY DEF SingleFlight, Stamped, Time
    <3>2. CacheBounded(o)
      BY <1>a
    <3> QED BY <1>0, <2>1, <3>1, <3>2 DEF CacheBounded, Near
  <2> QED BY <2>1, <2>2, <2>3 DEF StripBounded
<1>6. CASE StripRestart
  <2>1. Recorder \in Reader
    BY DEF Reader
  <2> QED BY <1>6, <2>1 DEF StripRestart, StripBounded, CacheBounded
<1>7. CASE UNCHANGED stripVars
  BY <1>a, <1>7 DEF stripVars, StripBounded, CacheBounded, Near
<1> QED BY <1>1, <1>2, <1>3, <1>4, <1>5, <1>6, <1>7 DEF StripNext

-----------------------------------------------------------------------------
(* The rows of a cycle                                                     *)

\* What MisdatedOnlyBriefly allows a row of device d.
Allowed(d) == MaxBurst + (IF d = Strip THEN TTL - 1 + Drift ELSE 0)

Filed(w) == w \in Row /\ w.lag <= Allowed(w.dev)

RecTypes ==
  /\ rec \in {"asleep", "sampling", "writing", "pruning"}
  /\ wakeAt \in 0..(Horizon + Interval)
  /\ asked \subseteq Device
  /\ begun \in Time
  /\ lastPrune \in Time \cup {-DayLen}
  /\ boots \in 0..MaxBoots

\* The recorder's own bounds: a cycle began in the past, and no earlier than
\* a read ago while a plug's answer is outstanding.
CycleBounded ==
  /\ begun <= now /\ lastPrune <= now
  /\ rec = "sampling" /\ asked \cap Plug # {} => now - begun <= MaxBurst

RowsFiled ==
  /\ IsFiniteSet(batch) /\ IsFiniteSet(rows)
  /\ \A w \in batch \cup rows : Filed(w)

RecInv == RecTypes /\ CycleBounded /\ RowsFiled
IInv == StripInv /\ StripBounded /\ RecInv

\* How far the day of a reading is from today: no further than any instant
\* by which it has begun, and any at which it is not over.
LEMMA LagLaw ==
  ASSUME now \in Time, NEW day \in Int, NEW b \in Nat,
         now - b < (day + 1) * DayLen, day * DayLen <= now + b
  PROVE  Lag(day) \in Nat /\ Lag(day) <= b
<1>1. now \in Nat /\ Day(now) \in Int
  BY DayLaw DEF Time
<1>2. (day + 1) * DayLen \in Int /\ day * DayLen \in Int
  BY ScaleOrder, Numbers
<1>3. CASE day = Day(now)
  BY <1>3 DEF Lag
<1>4. CASE day < Day(now)
  <2>1. day + 1 <= Day(now) /\ day + 1 \in Int
    BY <1>1, <1>4
  <2>2. (day + 1) * DayLen <= now
    BY <1>1, <2>1, DayFrom
  <2>3. Lag(day) = now + 1 - (day + 1) * DayLen
    BY <1>1, <1>4 DEF Lag
  <2> HIDE DEF Lag
  <2> QED BY <1>1, <1>2, <2>2, <2>3
<1>5. CASE day > Day(now)
  <2>1. ~(day * DayLen <= now)
    BY <1>1, <1>5, DayFrom
  <2>2. Lag(day) = day * DayLen - now
    BY <1>1, <1>5 DEF Lag
  <2> HIDE DEF Lag
  <2> QED BY <1>1, <1>2, <2>1, <2>2
<1> QED BY <1>1, <1>3, <1>4, <1>5

LEMMA AllowedInt ==
  ASSUME NEW d PROVE Allowed(d) \in Nat /\ MaxBurst <= Allowed(d)
  BY Numbers DEF Allowed

\* The row of a plug that answers with what it read at instant t.
LEMMA PlugRowOf ==
  ASSUME now \in Time, NEW p \in Plug, NEW t \in 0..now
  PROVE  /\ PlugRow(p, t) \in Row /\ PlugRow(p, t).dev = p
         /\ PlugRow(p, t).lag <= now - t
<1>1. now \in Nat /\ t \in Nat /\ t \in Time /\ t <= now
  BY Numbers DEF Time
<1>2. /\ Day(t) \in Nat
      /\ Day(t) * DayLen <= t /\ t < (Day(t) + 1) * DayLen
  BY <1>1, DayLaw
<1>3. Lag(Day(t)) \in Nat /\ Lag(Day(t)) <= now - t
  <2>1. Day(t) * DayLen \in Int /\ (Day(t) + 1) * DayLen \in Int
    BY <1>2, ScaleOrder, Numbers
  <2>2. now - t \in Nat /\ now - (now - t) < (Day(t) + 1) * DayLen
        /\ Day(t) * DayLen <= now + (now - t)
    BY <1>1, <1>2, <2>1
  <2> QED BY <1>2, <2>2, LagLaw
<1>4. DayUse(p, Day(t), t) \in Nat
  BY <1>1, <1>2, UseNat
<1> HIDE DEF Lag
<1> QED BY <1>1, <1>3, <1>4 DEF PlugRow, Row, Device

LEMMA PlugRowFiled ==
  ASSUME now \in Time, begun \in Time, now - begun <= MaxBurst,
         NEW p \in Plug, NEW t \in begun..now
  PROVE  Filed(PlugRow(p, t))
<1>1. t \in 0..now /\ now - t <= MaxBurst /\ now \in Int /\ t \in Int
  BY Numbers DEF Time
<1>2. /\ PlugRow(p, t) \in Row /\ PlugRow(p, t).dev = p
      /\ PlugRow(p, t).lag <= now - t
  BY <1>1, PlugRowOf
<1>3. PlugRow(p, t).lag \in Int
  BY <1>2, Numbers DEF Row, Failed
<1>4. PlugRow(p, t).lag <= Allowed(p)
  <2>1. Allowed(p) \in Int /\ MaxBurst <= Allowed(p)
    BY AllowedInt
  <2> QED BY <1>1, <1>2, <1>3, <2>1, Numbers
<1> QED BY <1>2, <1>4 DEF Filed

\* The row of a plug that could not be read.
LEMMA FailedRowFiled ==
  ASSUME now \in Time, begun \in Time, begun <= now, NEW p \in Plug,
         NEW t \in 0..begun, NEW w,
         w = [PlugRow(p, t) EXCEPT !.lag = IF @ = 0 THEN 0 ELSE Failed]
  PROVE  Filed(w)
<1>1. t \in 0..now
  BY Numbers DEF Time
<1>2. PlugRow(p, t) \in Row /\ PlugRow(p, t).dev = p
  BY <1>1, PlugRowOf
<1>3. /\ w \in Row /\ w.dev = p
      /\ w.lag = 0 \/ w.lag = -1
  <2> HIDE DEF PlugRow
  <2> QED BY <1>2, Numbers DEF Row, Failed
<1>4. 0 <= Allowed(p) /\ -1 <= Allowed(p)
  BY AllowedInt, Numbers
<1> QED BY <1>3, <1>4 DEF Filed

\* The row of a reading of the strip that is at most a shared result old.
LEMMA StripRowOf ==
  ASSUME now \in Time, NEW rd \in Reading, NEW t \in Nat, t <= now,
         now - t <= TTL - 1, rd.meters # {} => Near(rd.day, t)
  PROVE  Filed(StripRow(rd))
<1>1. rd.day \in Int /\ Kwh(rd) \in Nat
  BY KwhNat DEF Reading
<1>2. Allowed(Strip) = MaxBurst + TTL - 1 + Drift /\ Allowed(Strip) \in Nat
  BY AllowedInt, Numbers DEF Allowed
<1>3. CASE rd.meters = {}
  <2>1. StripRow(rd) = [dev |-> Strip, ts |-> now, kwh |-> Unread, lag |-> 0]
    BY <1>3 DEF StripRow
  <2> QED BY <1>2, <2>1 DEF Filed, Row, Device
<1>4. CASE rd.meters # {}
  <2>1. StripRow(rd) = [dev |-> Strip, ts |-> now, kwh |-> Kwh(rd),
                        lag |-> Lag(rd.day)]
    BY <1>4 DEF StripRow
  <2>2. Near(rd.day, t) /\ now \in Nat
    BY <1>4 DEF Time
  <2>3. rd.day * DayLen \in Int /\ (rd.day + 1) * DayLen \in Int
    BY <1>1, ScaleOrder, Numbers
  <2>4. /\ now - Allowed(Strip) < (rd.day + 1) * DayLen
        /\ rd.day * DayLen <= now + Allowed(Strip)
    BY <1>2, <2>2, <2>3, Numbers DEF Near
  <2>5. Lag(rd.day) \in Nat /\ Lag(rd.day) <= Allowed(Strip)
    BY <1>1, <1>2, <2>4, LagLaw
  <2> HIDE DEF Lag
  <2> QED BY <1>1, <2>1, <2>5 DEF Filed, Row, Device
<1> QED BY <1>3, <1>4

\* Served from the cache of object o.
LEMMA CachedFiled ==
  ASSUME StripInv, StripBounded, NEW o \in Object, Fresh(o)
  PROVE  Filed(StripRow(cache[o]))
<1>1. cache[o] # Nothing /\ now - cacheAt[o] < TTL
  BY DEF Fresh
<1>2. cache[o] \in Reading /\ cacheAt[o] \in Nat /\ now \in Time /\ now \in Nat
  BY <1>1 DEF StripInv, StripTypeOK, SingleFlight, Stamped, Time
<1>3. /\ cacheAt[o] <= now
      /\ cache[o].meters # {} => Near(cache[o].day, cacheAt[o])
  BY <1>1 DEF StripBounded, CacheBounded
<1>4. now - cacheAt[o] <= TTL - 1
  BY <1>1, <1>2, Numbers
<1> QED BY <1>2, <1>3, <1>4, StripRowOf

\* A call that returns as it enters returns what is cached.
LEMMA ServedFresh ==
  ASSUME StripTypeOK, NEW r \in Reader, NEW o, Inside(r, o),
         place'[r] = "out"
  PROVE  Fresh(o)
  BY DEF Inside, StripTypeOK

\* Served from a burst.
LEMMA BurstFiled ==
  ASSUME StripInv, StripBounded, NEW rd \in BurstResults(Recorder),
         EndBurst(Recorder, rd)
  PROVE  Filed(StripRow(rd))
<1>1. Recorder \in Reader
  BY DEF Reader
<1>2. rd \in Reading /\ (rd.meters # {} => Near(rd.day, now))
  BY <1>1, BurstBounded DEF StripInv
<1>3. now \in Time /\ now \in Nat /\ now - now <= TTL - 1
  BY Numbers DEF StripInv, StripTypeOK, Time
<1> QED BY <1>2, <1>3, StripRowOf

-----------------------------------------------------------------------------
(* The recorder keeps its invariant                                        *)

LEMMA DeviceFinite == IsFiniteSet(Device)
<1>1. IsFiniteSet(Plug)
  BY MeterAssumption, FS_Subset DEF Meter
<1> QED BY <1>1, FS_AddElement DEF Device

\* Adding a filed row to the batch.
LEMMA OneMoreRow ==
  ASSUME RowsFiled, NEW w, Filed(w), batch' = batch \cup {w}, rows' = rows
  PROVE  RowsFiled'
<1>1. IsFiniteSet(batch \cup {w})
  BY FS_AddElement DEF RowsFiled
<1>2. \A v \in (batch \cup {w}) \cup rows : Filed(v)
  BY DEF RowsFiled
<1>3. \A v : Filed(v)' <=> Filed(v)
  BY DEF Filed, Allowed, Row, Time
<1> QED BY <1>1, <1>2, <1>3 DEF RowsFiled

\* Rows that are deleted or lost do not matter.
LEMMA FewerRows ==
  ASSUME RowsFiled, batch' \subseteq batch, rows' \subseteq rows \cup batch
  PROVE  RowsFiled'
<1>1. IsFiniteSet(batch') /\ IsFiniteSet(rows')
  BY FS_Subset, FS_Union DEF RowsFiled
<1> QED BY <1>1 DEF RowsFiled, Filed, Allowed, Row, Time

LEMMA BeginCycleInv == ASSUME IInv, BeginCycle PROVE RecInv'
<1>1. now' = now /\ now \in Time /\ now \in Nat
  BY DEF BeginCycle, Enter, IInv, StripInv, StripTypeOK, Time
<1>2. Recorder \in Reader /\ asked' \subseteq Device
  BY DEF BeginCycle, Reader, Device
<1>3. RecTypes'
  BY <1>1, <1>2, Numbers DEF BeginCycle, IInv, RecInv, RecTypes
<1>4. CycleBounded'
  BY <1>1, Numbers DEF BeginCycle, IInv, RecInv, CycleBounded
<1>5. CASE place'[Recorder] = "out"
  <2>1. Inside(Recorder, cur) /\ cur \in Object
    BY <1>2, <1>5 DEF BeginCycle, Enter, IInv, StripInv, StripTypeOK
  <2>2. Filed(StripRow(cache[cur]))
    BY <1>2, <1>5, <2>1, ServedFresh, CachedFiled DEF IInv, StripInv
  <2>3. batch' = {StripRow(cache[cur])} /\ rows' = rows
    BY <1>5 DEF BeginCycle
  <2>4. IsFiniteSet({StripRow(cache[cur])})
    BY FS_Singleton
  <2> HIDE DEF StripRow
  <2> QED BY <1>3, <1>4, <2>2, <2>3, <2>4
          DEF IInv, RecInv, RowsFiled, Filed, Allowed, Row, Time
<1>6. CASE place'[Recorder] # "out"
  <2>1. RowsFiled'
    BY <1>6, FS_EmptySet DEF BeginCycle, IInv, RecInv, RowsFiled, Filed,
       Allowed, Row, Time
  <2> QED BY <1>3, <1>4, <2>1 DEF RecInv
<1> QED BY <1>5, <1>6

\* An answer is one row more and one device less to wait for.
LEMMA AnsweredInv ==
  ASSUME IInv, rec = "sampling", NEW d \in Device, AfterAnswer(d), NEW w,
         Filed(w), batch' = batch \cup {w},
         UNCHANGED <<now, wakeAt, begun, lastPrune, rows, boots>>
  PROVE  RecInv'
<1>1. RowsFiled'
  BY OneMoreRow DEF IInv, RecInv
<1>2. RecTypes'
  BY DEF AfterAnswer, IInv, RecInv, RecTypes
<1>3. CycleBounded'
  BY DEF AfterAnswer, IInv, RecInv, CycleBounded
<1> QED BY <1>1, <1>2, <1>3 DEF RecInv

LEMMA StripAnswersInv == ASSUME IInv, StripAnswers PROVE RecInv'
<1>1. now' = now /\ rec = "sampling" /\ Strip \in Device
      /\ UNCHANGED <<wakeAt, begun, lastPrune, rows, boots>>
  BY DEF StripAnswers, Handover, EndBurst, Device
<1>2. ASSUME NEW rd, Filed(StripRow(rd)), StripAnswered(rd) PROVE RecInv'
  <2>1. AfterAnswer(Strip) /\ batch' = batch \cup {StripRow(rd)}
    BY <1>2 DEF StripAnswered
  <2> HIDE DEF StripRow
  <2> QED BY <1>1, <1>2, <2>1, AnsweredInv
<1>3. CASE Handover(Recorder) /\ place'[Recorder] = "out"
  <2>1. Recorder \in Reader /\ on[Recorder] \in Object
    BY DEF Reader, IInv, StripInv, StripTypeOK
  <2>2. Filed(StripRow(cache[on[Recorder]]))
    BY <1>3, <2>1, ServedFresh, CachedFiled DEF Handover, IInv, StripInv
  <2>3. StripAnswered(cache[on[Recorder]])
    BY <1>3 DEF StripAnswers, Handover, EndBurst
  <2> QED BY <1>2, <2>2, <2>3
<1>4. ASSUME NEW rd \in BurstResults(Recorder), EndBurst(Recorder, rd),
             StripAnswered(rd)
      PROVE  RecInv'
  BY <1>2, <1>4, BurstFiled DEF IInv
<1>5. CASE UNCHANGED <<asked, rec, batch>>
  BY <1>1, <1>5 DEF IInv, RecInv, RecTypes, CycleBounded, RowsFiled, Filed,
     Allowed, Row, Time
<1> QED BY <1>3, <1>4, <1>5 DEF StripAnswers

LEMMA PlugAnswersInv ==
  ASSUME IInv, NEW p \in Plug, PlugAnswers(p) PROVE RecInv'
<1>1. now \in Time /\ begun \in Time
  BY DEF IInv, RecInv, RecTypes, StripInv, StripTypeOK
<1>2. now - begun <= MaxBurst
  BY DEF PlugAnswers, IInv, RecInv, CycleBounded
<1>3. PICK t \in begun..now : batch' = batch \cup {PlugRow(p, t)}
  BY DEF PlugAnswers
<1>4. Filed(PlugRow(p, t))
  BY <1>1, <1>2, PlugRowFiled
<1>5. /\ rec = "sampling" /\ AfterAnswer(p) /\ p \in Device
      /\ UNCHANGED <<now, wakeAt, begun, lastPrune, rows, boots>>
  BY DEF PlugAnswers, stripVars, Device
<1> HIDE DEF PlugRow
<1> QED BY <1>3, <1>4, <1>5, AnsweredInv

LEMMA PlugFailsInv ==
  ASSUME IInv, NEW p \in Plug, PlugFails(p) PROVE RecInv'
<1>1. now \in Time /\ begun \in Time /\ begun <= now
  BY DEF IInv, RecInv, RecTypes, CycleBounded, StripInv, StripTypeOK
<1>2. PICK t \in 0..begun :
        batch' = batch \cup {[PlugRow(p, t) EXCEPT
                                !.lag = IF @ = 0 THEN 0 ELSE Failed]}
  BY DEF PlugFails
<1> DEFINE w == [PlugRow(p, t) EXCEPT !.lag = IF @ = 0 THEN 0 ELSE Failed]
<1>3. Filed(w)
  BY <1>1, FailedRowFiled
<1>4. /\ rec = "sampling" /\ AfterAnswer(p) /\ p \in Device
      /\ UNCHANGED <<now, wakeAt, begun, lastPrune, rows, boots>>
  BY DEF PlugFails, stripVars, Device
<1>5. batch' = batch \cup {w}
  BY <1>2
<1> HIDE DEF w
<1> QED BY <1>3, <1>4, <1>5, AnsweredInv

LEMMA WriteBatchInv == ASSUME IInv, WriteBatch PROVE RecInv'
<1>1. now' = now /\ now \in Time /\ now \in Nat /\ now <= Horizon
  BY DEF WriteBatch, stripVars, IInv, StripInv, StripTypeOK, Time
<1>2. RowsFiled'
  BY FewerRows DEF WriteBatch, Sleep, IInv, RecInv
<1>3. RecTypes'
  BY <1>1, CountAssumption, Numbers
     DEF WriteBatch, Sleep, IInv, RecInv, RecTypes
<1>4. CycleBounded'
  BY <1>1 DEF WriteBatch, Sleep, IInv, RecInv, CycleBounded
<1> QED BY <1>2, <1>3, <1>4 DEF RecInv

LEMMA PruneInv == ASSUME IInv, Prune PROVE RecInv'
<1>1. now' = now /\ now \in Nat /\ now <= Horizon
  BY DEF Prune, stripVars, IInv, StripInv, StripTypeOK, Time
<1>2. RowsFiled'
  BY FewerRows DEF Prune, Sleep, IInv, RecInv
<1>3. RecTypes'
  BY <1>1, CountAssumption, Numbers DEF Prune, Sleep, IInv, RecInv, RecTypes
<1>4. CycleBounded'
  BY <1>1 DEF Prune, Sleep, IInv, RecInv, CycleBounded
<1> QED BY <1>2, <1>3, <1>4 DEF RecInv

LEMMA TickInv == ASSUME IInv, Tick PROVE RecInv'
<1>1. now' = now + 1 /\ now \in Nat /\ UNCHANGED recVars
      /\ (rec = "sampling" /\ asked \cap Plug # {} => now - begun < MaxBurst)
  BY DEF Tick, StripTick, IInv, StripInv, StripTypeOK, Time
<1>2. RowsFiled' /\ RecTypes'
  BY <1>1 DEF recVars, IInv, RecInv, RecTypes, RowsFiled, Filed, Allowed, Row,
     Time
<1>3. begun \in Int /\ lastPrune \in Int
  BY Numbers DEF IInv, RecInv, RecTypes, Time
<1>4. CycleBounded'
  BY <1>1, <1>3, Numbers DEF recVars, IInv, RecInv, CycleBounded
<1> QED BY <1>2, <1>4 DEF RecInv

LEMMA RestartInv == ASSUME IInv, Restart PROVE RecInv'
<1>1. now' = now + 1 /\ now \in Nat /\ now < Horizon
  BY DEF Restart, StripRestart, IInv, StripInv, StripTypeOK, Time
<1>2. /\ rec' = "asleep" /\ wakeAt' = now' /\ asked' = {} /\ begun' = 0
      /\ batch' = {} /\ lastPrune' = -DayLen /\ rows' = rows
      /\ boots < MaxBoots /\ boots' = boots + 1
  BY DEF Restart
<1>3. RowsFiled'
  BY <1>2, FewerRows DEF IInv, RecInv
<1>4. boots' \in 0..MaxBoots
  BY <1>2, CountAssumption DEF IInv, RecInv, RecTypes
<1>5. RecTypes'
  BY <1>1, <1>2, <1>4, CountAssumption, Numbers DEF RecTypes, Time
<1>6. CycleBounded'
  BY <1>1, <1>2, Numbers DEF CycleBounded
<1> QED BY <1>3, <1>5, <1>6 DEF RecInv

LEMMA IInvInit == Init => IInv
<1> SUFFICES ASSUME Init PROVE IInv
  OBVIOUS
<1>1. StripInv
  BY StripInvInit DEF Init
<1>2. StripBounded
  BY DEF Init, StripInit, StripBounded, CacheBounded, Reader
<1>3. RecTypes /\ CycleBounded
  BY CountAssumption, Numbers
     DEF Init, StripInit, RecTypes, CycleBounded, Time
<1>4. RowsFiled
  BY FS_EmptySet DEF Init, RowsFiled
<1> QED BY <1>1, <1>2, <1>3, <1>4 DEF IInv, RecInv

LEMMA IInvStep == IInv /\ [Next]_vars => IInv'
<1> SUFFICES ASSUME IInv, [Next]_vars PROVE IInv'
  OBVIOUS
<1>1. StripInv' /\ StripBounded'
  BY StripSteps, StripTypeStep, SingleFlightStep, StripBoundedStep
     DEF IInv, StripInv
<1>2. CASE BeginCycle \/ StripAnswers
  BY <1>1, <1>2, BeginCycleInv, StripAnswersInv DEF IInv
<1>3. CASE WriteBatch \/ Prune
  BY <1>1, <1>3, WriteBatchInv, PruneInv DEF IInv
<1>4. ASSUME NEW p \in Plug, PlugAnswers(p) \/ PlugFails(p) PROVE IInv'
  BY <1>1, <1>4, PlugAnswersInv, PlugFailsInv DEF IInv
<1>5. ASSUME Rediscover \/ \E u \in User : UserAsks(u) \/ UserServed(u)
      PROVE  IInv'
  <2>1. now' = now /\ UNCHANGED recVars
    BY <1>5 DEF Rediscover, Attach, UserAsks, UserServed, Enter, Handover,
       EndBurst
  <2>2. RecInv'
    BY <2>1 DEF recVars, IInv, RecInv, RecTypes, CycleBounded, RowsFiled,
       Filed, Allowed, Row, Time
  <2> QED BY <1>1, <2>2 DEF IInv
<1>6. CASE Tick \/ Restart
  BY <1>1, <1>6, TickInv, RestartInv DEF IInv
<1>7. CASE UNCHANGED vars
  <2>1. RecInv'
    BY <1>7 DEF vars, stripVars, recVars, IInv, RecInv, RecTypes,
       CycleBounded, RowsFiled, Filed, Allowed, Row, Time
  <2> QED BY <1>1, <2>1 DEF IInv
<1> QED BY <1>2, <1>3, <1>4, <1>5, <1>6, <1>7 DEF Next

LEMMA IInvariance == Spec => []IInv
<1> QED BY IInvInit, IInvStep, PTL DEF Spec

\* The recorder's variables, the batch and the table keep their types: every
\* row has a time on the clock and an energy that is a number.
THEOREM TypeCorrect == Spec => []TypeOK
<1>1. IInv => TypeOK
  BY DEF IInv, StripInv, RecInv, RecTypes, RowsFiled, Filed, TypeOK
<1> QED BY <1>1, IInvariance, PTL

\* MisdatedOnlyBriefly for every number of devices and users, day length,
\* time to live, read timeout and error of the strip's clock: no queueing for
\* the lock, sharing of a cached result, rediscovery or pacing of the recorder
\* adds to the bound.
THEOREM MisdatedOnlyBrieflyHolds == Spec => []MisdatedOnlyBriefly
<1>1. IInv => MisdatedOnlyBriefly
  BY DEF IInv, RecInv, RowsFiled, Filed, Allowed, MisdatedOnlyBriefly
<1> QED BY <1>1, IInvariance, PTL

-----------------------------------------------------------------------------
(* The totals                                                              *)

LEMMA FiniteImage ==
  ASSUME NEW S, IsFiniteSet(S), NEW f
  PROVE  IsFiniteSet({f[x] : x \in S})
<1> DEFINE T == {f[x] : x \in S}
           g == [x \in S |-> f[x]]
<1>1. g \in Surjection(S, T)
  BY DEF Surjection
<1> HIDE DEF g, T
<1>2. IsFiniteSet(T)
  BY <1>1, FS_Surjection
<1> QED BY <1>2 DEF T

\* Finitely many rows that carry a reading.
Readings(ws) ==
  IsFiniteSet(ws) /\ \A w \in ws : w.ts \in Nat /\ w.kwh \in Nat

LEMMA SomeReadings ==
  ASSUME NEW vs, Readings(vs), NEW ws \in SUBSET vs
  PROVE  Readings(ws)
  BY FS_Subset DEF Readings

LEMMA HighestLaw ==
  ASSUME NEW ws, Readings(ws), ws # {}
  PROVE  /\ Highest(ws) \in Nat
         /\ \E w \in ws : Highest(ws) = w.kwh
         /\ \A w \in ws : w.kwh <= Highest(ws)
<1> DEFINE f == [w \in ws |-> w.kwh]
           S == {w.kwh : w \in ws}
<1>1. S = {f[w] : w \in ws}
  OBVIOUS
<1>2. IsFiniteSet(S)
  <2> HIDE DEF f, S
  <2> QED BY <1>1, FiniteImage DEF Readings
<1>3. S # {} /\ S \subseteq Int /\ S \subseteq Nat
  BY DEF Readings
<1>4. Max(S) \in S /\ \A x \in S : x <= Max(S)
  <2> HIDE DEF S
  <2> QED BY <1>2, <1>3, MaxLaw
<1>5. Highest(ws) = Max(S)
  BY DEF Highest
<1> QED BY <1>3, <1>4, <1>5

LEMMA HighestGrows ==
  ASSUME NEW vs, Readings(vs), NEW ws \in SUBSET vs, ws # {}
  PROVE  Highest(ws) <= Highest(vs)
<1>1. PICK w \in ws : Highest(ws) = w.kwh
  BY HighestLaw, SomeReadings
<1>2. w \in vs /\ vs # {}
  OBVIOUS
<1> QED BY <1>1, <1>2, HighestLaw

\* What SumOfDays adds up.
Highs(ws) == [day \in DaysOf(ws) |-> Highest(DayRows(ws, day))]

LEMMA SumOfDaysIs ==
  ASSUME NEW ws
  PROVE  SumOfDays(ws) = SumFunctionOnSet(Highs(ws), DaysOf(ws))
  BY DEF SumOfDays, SumFunction, Highs

LEMMA HighsLaw ==
  ASSUME NEW ws, Readings(ws)
  PROVE  /\ IsFiniteSet(DaysOf(ws)) /\ NatOn(Highs(ws), DaysOf(ws))
         /\ \A day \in DaysOf(ws) : /\ DayRows(ws, day) # {}
                                    /\ Highs(ws)[day]
                                         = Highest(DayRows(ws, day))
<1> DEFINE f == [w \in ws |-> Day(w.ts)]
<1>1. DaysOf(ws) = {f[w] : w \in ws}
  BY DEF DaysOf
<1>2. IsFiniteSet(DaysOf(ws))
  <2> HIDE DEF f
  <2> QED BY <1>1, FiniteImage DEF Readings
<1>3. ASSUME NEW day \in DaysOf(ws)
      PROVE  /\ DayRows(ws, day) # {}
             /\ Highs(ws)[day] = Highest(DayRows(ws, day))
             /\ Highs(ws)[day] \in Nat
  <2>1. DayRows(ws, day) # {} /\ DayRows(ws, day) \in SUBSET ws
    BY DEF DaysOf, DayRows
  <2>2. Highs(ws)[day] = Highest(DayRows(ws, day))
    BY DEF Highs
  <2>3. Highest(DayRows(ws, day)) \in Nat
    BY <2>1, SomeReadings, HighestLaw
  <2> QED BY <2>1, <2>2, <2>3
<1> QED BY <1>2, <1>3 DEF NatOn

\* A day's highest and the sum over the days only grow with the rows.
LEMMA SumOfDaysGrows ==
  ASSUME NEW vs, Readings(vs), NEW ws \in SUBSET vs
  PROVE  /\ SumOfDays(ws) \in Nat /\ SumOfDays(vs) \in Nat
         /\ SumOfDays(ws) <= SumOfDays(vs)
<1>1. Readings(ws) /\ DaysOf(ws) \in SUBSET DaysOf(vs)
  BY SomeReadings DEF DaysOf
<1>2. \A day \in DaysOf(ws) : Highs(ws)[day] <= Highs(vs)[day]
  <2> SUFFICES ASSUME NEW day \in DaysOf(ws)
               PROVE  Highs(ws)[day] <= Highs(vs)[day]
    OBVIOUS
  <2>1. /\ Highs(ws)[day] = Highest(DayRows(ws, day))
        /\ Highs(vs)[day] = Highest(DayRows(vs, day))
        /\ DayRows(ws, day) # {}
    BY <1>1, HighsLaw
  <2>2. DayRows(ws, day) \in SUBSET DayRows(vs, day)
        /\ DayRows(vs, day) \in SUBSET vs
    BY DEF DayRows
  <2> QED BY <2>1, <2>2, SomeReadings, HighestGrows
<1>3. /\ IsFiniteSet(DaysOf(ws)) /\ IsFiniteSet(DaysOf(vs))
      /\ NatOn(Highs(ws), DaysOf(ws)) /\ NatOn(Highs(vs), DaysOf(vs))
  BY <1>1, HighsLaw
<1>4. IntOn(Highs(ws), DaysOf(ws))
  BY <1>3 DEF NatOn, IntOn
<1>5. SumFunctionOnSet(Highs(ws), DaysOf(ws))
        <= SumFunctionOnSet(Highs(vs), DaysOf(vs))
  BY <1>1, <1>2, <1>3, <1>4, SumMono
<1>6. SumFunctionOnSet(Highs(ws), DaysOf(ws)) \in Nat
      /\ SumFunctionOnSet(Highs(vs), DaysOf(vs)) \in Nat
  BY <1>3, SumNat
<1> QED BY <1>5, <1>6, SumOfDaysIs

\* The rows of one day are summed up by the highest of them.
LEMMA SumOfOneDay ==
  ASSUME NEW ws, Readings(ws), NEW day, \A w \in ws : Day(w.ts) = day
  PROVE  SumOfDays(ws) = IF ws = {} THEN 0 ELSE Highest(ws)
<1>1. IsFiniteSet(DaysOf(ws)) /\ IntOn(Highs(ws), DaysOf(ws))
  BY HighsLaw DEF NatOn, IntOn
<1>2. /\ SumOfDays(ws) \in Int
      /\ DaysOf(ws) = {} => SumOfDays(ws) = 0
      /\ \A d \in DaysOf(ws) :
           SumOfDays(ws) = Highs(ws)[d]
                             + SumFunctionOnSet(Highs(ws), DaysOf(ws) \ {d})
  BY <1>1, SumLaws, SumOfDaysIs
<1>3. CASE ws = {}
  BY <1>2, <1>3 DEF DaysOf
<1>4. CASE ws # {}
  <2>1. DaysOf(ws) = {day} /\ DayRows(ws, day) = ws
    BY <1>4 DEF DaysOf, DayRows
  <2>2. SumFunctionOnSet(Highs(ws), {}) = 0
    BY FS_EmptySet, SumLaws DEF IntOn
  <2>3. Highs(ws)[day] = Highest(ws) /\ Highs(ws)[day] \in Nat
    BY <2>1, HighsLaw DEF NatOn
  <2>4. SumOfDays(ws) = Highs(ws)[day] + SumFunctionOnSet(Highs(ws), {})
    <3>1. DaysOf(ws) \ {day} = {}
      BY <2>1
    <3> QED BY <1>2, <2>1, <3>1
  <2> QED BY <1>4, <2>2, <2>3, <2>4
<1> QED BY <1>3, <1>4

-----------------------------------------------------------------------------
(* The rows of a month, a week and a day                                   *)

MonthRows(d) ==
  {w \in RowsOf(d) : MonthOf(Day(w.ts)) = MonthOf(Day(now))}
TodayRows(d) == DayRows(RowsOf(d), Day(now))
Between(d, from, to) == {w \in RowsOf(d) : w.ts >= from /\ w.ts < to}
WeekRows(d) ==
  Between(d, Monday * DayLen, (Monday + WeekDays) * DayLen)

LEMMA TotalsOf ==
  ASSUME NEW d
  PROVE  /\ MonthKwh(d) = SumOfDays(MonthRows(d))
         /\ TodayKwh(d) = SumOfDays(TodayRows(d))
  BY DEF MonthKwh, MonthRows, TodayKwh, TodayRows

LEMMA HomeBetween ==
  ASSUME NEW from, NEW to
  PROVE  HomeKwhBetween(from, to)
           = SumFunctionOnSet(
               [d \in Device |-> SumOfDays(Between(d, from, to))], Device)
  BY DEF HomeKwhBetween, Between, SumFunction

LEMMA ClockDay == ASSUME IInv PROVE now \in Nat /\ Day(now) \in Nat
<1>1. now \in Nat
  BY DEF IInv, StripInv, StripTypeOK, Time
<1> QED BY <1>1, DayLaw

LEMMA RowsRead == ASSUME IInv, NEW d PROVE Readings(RowsOf(d))
<1>1. IsFiniteSet(RowsOf(d))
  BY FS_Subset DEF RowsOf, IInv, RecInv, RowsFiled
<1>2. ASSUME NEW w \in RowsOf(d) PROVE w.ts \in Nat /\ w.kwh \in Nat
  <2>1. w \in Row /\ w.kwh # Unread
    BY DEF RowsOf, Usable, IInv, RecInv, RowsFiled, Filed
  <2> QED BY <2>1, Numbers DEF Row, Unread, Time
<1> QED BY <1>1, <1>2 DEF Readings

\* Two ways to say that a row lies between two midnights.
LEMMA BetweenDays ==
  ASSUME IInv, NEW d, NEW first \in Int, NEW past \in Int
  PROVE  Between(d, first * DayLen, past * DayLen)
           = {w \in RowsOf(d) : first <= Day(w.ts) /\ Day(w.ts) < past}
<1>1. ASSUME NEW w \in RowsOf(d)
      PROVE  /\ (w.ts >= first * DayLen) <=> (first <= Day(w.ts))
             /\ (w.ts < past * DayLen) <=> (Day(w.ts) < past)
  <2>1. w.ts \in Nat /\ Day(w.ts) \in Nat
    BY RowsRead, DayLaw DEF Readings
  <2>2. first * DayLen \in Int /\ past * DayLen \in Int
    BY ScaleOrder, Numbers
  <2>3. /\ (first * DayLen <= w.ts) <=> (first <= Day(w.ts))
        /\ (past * DayLen <= w.ts) <=> (past <= Day(w.ts))
    BY <2>1, DayFrom
  <2> QED BY <2>1, <2>2, <2>3
<1> QED BY <1>1 DEF Between

\* The month is the days from its first to the next month's first.
LEMMA MonthIs ==
  ASSUME NEW day \in Nat, NEW q \in Nat
  PROVE  (MonthOf(day) = q)
           <=> (q * MonthDays <= day /\ day < q * MonthDays + MonthDays)
<1>1. MonthDays \in Nat \ {0}
  BY CalendarAssumption
<1>2. MonthOf(day) \in Nat
  BY <1>1, DivLaw DEF MonthOf
<1>3. /\ (q * MonthDays <= day) <=> (q <= MonthOf(day))
      /\ ((q + 1) * MonthDays <= day) <=> (q + 1 <= MonthOf(day))
  BY <1>1, DivFrom DEF MonthOf
<1>4. (q + 1) * MonthDays = q * MonthDays + MonthDays /\ q * MonthDays \in Int
  BY <1>1, ScaleOrder
<1> QED BY <1>1, <1>2, <1>3, <1>4

LEMMA MondayIs ==
  ASSUME IInv
  PROVE  Monday \in Nat /\ Monday <= Day(now) /\ Day(now) < Monday + WeekDays
<1>1. WeekDays \in Nat \ {0}
  BY CalendarAssumption
<1> DEFINE q == Day(now) \div WeekDays
<1>2. q \in Nat /\ q * WeekDays <= Day(now) /\ Day(now) < (q + 1) * WeekDays
  BY <1>1, ClockDay, DivLaw
<1>3. Monday = q * WeekDays
  BY DEF Monday
<1> HIDE DEF q
<1>4. (q + 1) * WeekDays = q * WeekDays + WeekDays /\ q * WeekDays \in Nat
  BY <1>1, <1>2, ScaleOrder
<1> QED BY <1>2, <1>3, <1>4

LEMMA MonthRowsAre ==
  ASSUME IInv, NEW d
  PROVE  LET first == MonthOf(Day(now)) * MonthDays
         IN  /\ first \in Nat
             /\ MonthRows(d) = {w \in RowsOf(d) :
                                  /\ first <= Day(w.ts)
                                  /\ Day(w.ts) < first + MonthDays}
             /\ MonthRows(d) = Between(d, first * DayLen,
                                       (first + MonthDays) * DayLen)
<1> DEFINE q == MonthOf(Day(now))
           first == q * MonthDays
<1>1. MonthDays \in Nat /\ q \in Nat
  BY CalendarAssumption, ClockDay, DivLaw DEF MonthOf
<1>2. first \in Nat /\ first + MonthDays \in Int
  BY <1>1
<1>3. ASSUME NEW w \in RowsOf(d)
      PROVE  (MonthOf(Day(w.ts)) = q)
               <=> (first <= Day(w.ts) /\ Day(w.ts) < first + MonthDays)
  <2>1. Day(w.ts) \in Nat
    BY RowsRead, DayLaw DEF Readings
  <2> QED BY <1>1, <2>1, MonthIs
<1>4. MonthRows(d) = {w \in RowsOf(d) : /\ first <= Day(w.ts)
                                         /\ Day(w.ts) < first + MonthDays}
  BY <1>3 DEF MonthRows
<1>5. Between(d, first * DayLen, (first + MonthDays) * DayLen)
        = {w \in RowsOf(d) : /\ first <= Day(w.ts)
                             /\ Day(w.ts) < first + MonthDays}
  <2> HIDE DEF first
  <2> QED BY <1>2, BetweenDays
<1> QED BY <1>2, <1>4, <1>5

\* Today's rows are the month's of that day.
LEMMA TodayInMonth ==
  ASSUME IInv, NEW d
  PROVE  /\ TodayRows(d) \in SUBSET MonthRows(d)
         /\ MonthRows(d) \in SUBSET RowsOf(d)
         /\ TodayRows(d) \in SUBSET RowsOf(d)
  BY DEF TodayRows, MonthRows, DayRows

LEMMA TotalsNat ==
  ASSUME IInv, NEW d
  PROVE  /\ MonthKwh(d) \in Nat /\ TodayKwh(d) \in Nat
         /\ TodayKwh(d) <= MonthKwh(d)
<1>1. Readings(MonthRows(d))
  BY RowsRead, SomeReadings, TodayInMonth
<1> QED BY <1>1, TodayInMonth, SumOfDaysGrows, TotalsOf

LEMMA BetweenNat ==
  ASSUME IInv, NEW d, NEW from, NEW to
  PROVE  /\ Between(d, from, to) \in SUBSET RowsOf(d)
         /\ SumOfDays(Between(d, from, to)) \in Nat
<1>1. Between(d, from, to) \in SUBSET RowsOf(d)
  BY DEF Between
<1> QED BY <1>1, RowsRead, SumOfDaysGrows

-----------------------------------------------------------------------------
(* The views of one month                                                  *)

LEMMA MonthByDeviceNat ==
  ASSUME IInv
  PROVE  /\ NatOn(MonthByDevice, Device) /\ IntOn(MonthByDevice, Device)
         /\ \A d \in Device : MonthByDevice[d] = MonthKwh(d)
         /\ SumFunction(MonthByDevice)
              = SumFunctionOnSet(MonthByDevice, Device)
<1>1. \A d \in Device : MonthByDevice[d] = MonthKwh(d)
  BY DEF MonthByDevice
<1>2. \A d \in Device : MonthByDevice[d] \in Nat
  BY <1>1, TotalsNat
<1>3. DOMAIN MonthByDevice = Device
  BY DEF MonthByDevice
<1> QED BY <1>1, <1>2, <1>3 DEF NatOn, IntOn, SumFunction

\* By device and by day of the whole home: the same sum.
LEMMA HomeIsMonth ==
  ASSUME IInv
  PROVE  LET month == MonthOf(Day(now)) * MonthDays
         IN  SumFunction(MonthByDevice)
               = HomeKwhBetween(month * DayLen, (month + MonthDays) * DayLen)
<1> DEFINE month == MonthOf(Day(now)) * MonthDays
           from  == month * DayLen
           to    == (month + MonthDays) * DayLen
           g     == [d \in Device |-> SumOfDays(Between(d, from, to))]
<1>1. \A d \in Device : MonthKwh(d) = SumOfDays(Between(d, from, to))
  BY MonthRowsAre, TotalsOf
<1>2. \A d \in Device : MonthByDevice[d] = g[d]
  BY <1>1, MonthByDeviceNat
<1>3. SumFunctionOnSet(MonthByDevice, Device) = SumFunctionOnSet(g, Device)
  <2> HIDE DEF g
  <2> QED BY <1>2, MonthByDeviceNat, DeviceFinite, SumSame
<1>4. HomeKwhBetween(from, to) = SumFunctionOnSet(g, Device)
  <2> HIDE DEF from, to
  <2> QED BY HomeBetween
<1> QED BY <1>3, <1>4, MonthByDeviceNat

\* By room: every device is in a room or in the rest.
LEMMA HomeIsRooms ==
  ASSUME IInv
  PROVE  LET home  == SumFunction(MonthByDevice)
             rooms == SumFunction([r \in Room |-> RoomKwh(r)])
         IN  /\ home <= UnassignedKwh + rooms
             /\ OneRoomEach => home = UnassignedKwh + rooms
<1> DEFINE roomed == UNION {RoomOf[r] : r \in Room}
           f == MonthByDevice
           perRoom == [r \in Room |-> SumFunctionOnSet(f, RoomOf[r])]
<1>1. /\ IsFiniteSet(Room) /\ RoomOf \in [Room -> SUBSET Device]
      /\ roomed \in SUBSET Device
  BY RoomAssumption
<1>2. NatOn(f, Device) /\ SumFunction(f) = SumFunctionOnSet(f, Device)
  BY MonthByDeviceNat
<1>3. SumFunction([r \in Room |-> RoomKwh(r)])
        = SumFunctionOnSet(perRoom, Room)
  BY DEF RoomKwh, SumFunction
<1>4. UnassignedKwh = SumFunctionOnSet(f, Device \ roomed)
  BY DEF UnassignedKwh
<1> HIDE DEF f
<1>5. /\ SumFunctionOnSet(f, roomed) <= SumFunctionOnSet(perRoom, Room)
      /\ OneRoomEach => SumFunctionOnSet(f, roomed)
                          = SumFunctionOnSet(perRoom, Room)
  BY <1>1, <1>2, DeviceFinite, SumFamily DEF OneRoomEach
<1>6. SumFunctionOnSet(f, Device)
        = SumFunctionOnSet(f, Device \ roomed) + SumFunctionOnSet(f, roomed)
  <2> HIDE DEF roomed
  <2>1. (Device \ roomed) \cup roomed = Device
        /\ (Device \ roomed) \cap roomed = {}
    BY <1>1
  <2>2. IsFiniteSet(Device \ roomed) /\ IsFiniteSet(roomed)
        /\ NatOn(f, (Device \ roomed) \cup roomed)
    BY <1>1, <1>2, <2>1, DeviceFinite, FS_Subset
  <2> QED BY <2>1, <2>2, SumUnion
<1>7. /\ SumFunctionOnSet(f, Device \ roomed) \in Nat
      /\ SumFunctionOnSet(f, roomed) \in Nat
  <2>1. ASSUME NEW U \in SUBSET Device PROVE SumFunctionOnSet(f, U) \in Nat
    BY <1>2, DeviceFinite, FS_Subset, SumNat DEF NatOn
  <2> HIDE DEF roomed
  <2> QED BY <1>1, <2>1
<1>8. SumFunctionOnSet(perRoom, Room) \in Nat
  <2>1. \A r \in Room : perRoom[r] \in Nat
    BY <1>1, <1>2, DeviceFinite, FS_Subset, SumNat DEF NatOn
  <2> HIDE DEF perRoom
  <2> QED BY <1>1, <2>1, SumNat DEF NatOn
<1> HIDE DEF roomed, perRoom
<1>9. SumFunction(MonthByDevice) = SumFunctionOnSet(f, Device)
  BY <1>2 DEF f
<1>10. SumFunction(MonthByDevice)
         <= UnassignedKwh + SumFunctionOnSet(perRoom, Room)
  BY <1>4, <1>5, <1>6, <1>7, <1>8, <1>9
<1>11. OneRoomEach => SumFunction(MonthByDevice)
                        = UnassignedKwh + SumFunctionOnSet(perRoom, Room)
  BY <1>4, <1>5, <1>6, <1>7, <1>8, <1>9
<1> QED BY <1>3, <1>10, <1>11

\* A week within the month.
LEMMA WeekInMonth ==
  ASSUME IInv, MonthOf(Day(now)) * MonthDays <= Monday,
         Monday + WeekDays
           <= MonthOf(Day(now)) * MonthDays + MonthDays
  PROVE  WeekKwh <= SumFunction(MonthByDevice)
<1> DEFINE month == MonthOf(Day(now)) * MonthDays
           g == [d \in Device |-> SumOfDays(WeekRows(d))]
<1>1. WeekKwh = SumFunctionOnSet(g, Device)
  BY HomeBetween DEF WeekKwh, WeekRows
<1>2. ASSUME NEW d PROVE WeekRows(d) \in SUBSET MonthRows(d)
  <2>1. /\ Monday \in Int /\ Monday + WeekDays \in Int /\ month \in Int
        /\ month + MonthDays \in Int
    BY MondayIs, MonthRowsAre, CalendarAssumption
  <2>2. WeekRows(d) = {w \in RowsOf(d) : /\ Monday <= Day(w.ts)
                                         /\ Day(w.ts) < Monday + WeekDays}
    BY <2>1, BetweenDays DEF WeekRows
  <2>3. MonthRows(d) = {w \in RowsOf(d) : /\ month <= Day(w.ts)
                                          /\ Day(w.ts) < month + MonthDays}
    BY MonthRowsAre
  <2>4. month <= Monday /\ Monday + WeekDays <= month + MonthDays
    OBVIOUS
  <2>5. \A w \in RowsOf(d) : Day(w.ts) \in Int
    BY RowsRead, DayLaw DEF Readings
  <2> HIDE DEF month
  <2>6. ASSUME NEW x \in Int, Monday <= x, x < Monday + WeekDays
        PROVE  month <= x /\ x < month + MonthDays
    BY <2>1, <2>4, <2>6
  <2> QED BY <2>2, <2>3, <2>5, <2>6
<1>3. ASSUME NEW d \in Device
      PROVE  g[d] \in Int /\ g[d] <= MonthByDevice[d]
  <2>1. Readings(MonthRows(d))
    BY RowsRead, SomeReadings, TodayInMonth
  <2> QED BY <1>2, <2>1, SumOfDaysGrows, TotalsOf, MonthByDeviceNat
<1>4. IntOn(g, Device) /\ \A d \in Device : g[d] <= MonthByDevice[d]
  BY <1>3 DEF IntOn
<1> HIDE DEF g
<1>5. SumFunctionOnSet(g, Device) <= SumFunctionOnSet(MonthByDevice, Device)
  BY <1>4, DeviceFinite, MonthByDeviceNat, SumMono
<1> QED BY <1>1, <1>5, MonthByDeviceNat

\* Today is the last of the daily totals.
LEMMA TodayIsLast ==
  ASSUME IInv, NEW d \in Device, NEW cutoff \in 0..(Day(now) * DayLen)
  PROVE  LET totals == DailyTotals(d, cutoff)
         IN  TodayKwh(d) = IF Day(now) \in DOMAIN totals
                           THEN totals[Day(now)] ELSE 0
<1> DEFINE ws == {w \in RowsOf(d) : w.ts >= cutoff}
           today == Day(now)
<1>1. today \in Nat /\ today * DayLen \in Int
  BY ClockDay, ScaleOrder, Numbers
<1>2. cutoff \in Int /\ cutoff <= today * DayLen
  BY <1>1
<1>3. ASSUME NEW w \in RowsOf(d), Day(w.ts) = today PROVE w.ts >= cutoff
  <2>1. w.ts \in Nat /\ today * DayLen <= w.ts
    BY <1>3, RowsRead, DayLaw DEF Readings
  <2> HIDE DEF today
  <2> QED BY <1>1, <1>2, <2>1
<1>4. DayRows(ws, today) = TodayRows(d)
  BY <1>3 DEF DayRows, TodayRows
<1>5. Readings(TodayRows(d)) /\ \A w \in TodayRows(d) : Day(w.ts) = today
  BY RowsRead, SomeReadings, TodayInMonth DEF TodayRows, DayRows
<1>6. TodayKwh(d) = IF TodayRows(d) = {} THEN 0 ELSE Highest(TodayRows(d))
  <2> HIDE DEF today
  <2> QED BY <1>5, SumOfOneDay, TotalsOf
<1>7. (today \in DaysOf(ws)) <=> (TodayRows(d) # {})
  BY <1>4 DEF DaysOf, DayRows
<1>8. DailyTotals(d, cutoff)
        = [day \in DaysOf(ws) |-> Highest(DayRows(ws, day))]
  BY DEF DailyTotals
<1> HIDE DEF ws, today
<1>9. today = Day(now)
  BY DEF today
<1> QED BY <1>4, <1>6, <1>7, <1>8, <1>9

\* ViewsAgree for every house, calendar and history: the sums by device, by
\* room, by day and by week are of the same rows.
THEOREM ViewsAgreeHolds == Spec => []ViewsAgree
<1>1. IInv => ViewsAgree
  <2> SUFFICES ASSUME IInv PROVE ViewsAgree
    OBVIOUS
  <2> QED BY HomeIsMonth, HomeIsRooms, WeekInMonth, TodayIsLast, TotalsNat
          DEF ViewsAgree
<1> QED BY <1>1, IInvariance, PTL

-----------------------------------------------------------------------------
(* What is on record only grows                                            *)

\* A step keeps every row younger than the retention.
LEMMA YoungRowsKept ==
  ASSUME IInv, [Next]_vars, NEW w \in rows, w.ts >= now - Retention
  PROVE  w \in rows'
<1>1. CASE Prune
  <2>1. w.ts \in Nat /\ lastPrune \in Int /\ lastPrune <= now /\ now \in Nat
    BY ClockDay, Numbers DEF IInv, RecInv, RecTypes, CycleBounded, RowsFiled,
       Filed, Row, Time
  <2>2. w.ts >= lastPrune - Retention
    BY <2>1, CalendarAssumption
  <2> QED BY <1>1, <2>2 DEF Prune
<1>2. CASE ~Prune
  <2>1. CASE WriteBatch
    BY <2>1 DEF WriteBatch
  <2>2. CASE ~WriteBatch
    <3>1. rows' = rows
      BY <1>2, <2>2
         DEF Next, vars, recVars, BeginCycle, StripAnswers, PlugAnswers,
             PlugFails, UserAsks, UserServed, Rediscover, Tick, Restart
    <3> QED BY <3>1
  <2> QED BY <2>1, <2>2
<1> QED BY <1>1, <1>2

\* A row filed from a day on that is less than the retention ago is kept.
LEMMA PeriodKept ==
  ASSUME IInv, [Next]_vars, NEW first \in Nat, NEW n \in Nat,
         Day(now) < first + n, n * DayLen <= Retention,
         NEW d, NEW w \in RowsOf(d), first <= Day(w.ts)
  PROVE  w \in RowsOf(d)'
<1>1. now \in Nat /\ Day(now) \in Nat /\ w.ts \in Nat
  BY ClockDay, RowsRead DEF Readings
<1>2. first * DayLen <= w.ts
  BY <1>1, DayFrom
<1>3. now < (first + n) * DayLen
  <2>1. ~((first + n) * DayLen <= now)
    BY <1>1, DayFrom
  <2>2. (first + n) * DayLen \in Int
    BY ScaleOrder, Numbers
  <2> QED BY <1>1, <2>1, <2>2
<1>4. (first + n) * DayLen = first * DayLen + n * DayLen
      /\ first * DayLen \in Nat /\ n * DayLen \in Nat
  <2>1. \A a, b, k \in Nat : /\ (a + b) * k = a * k + b * k
                             /\ a * k \in Nat /\ b * k \in Nat
    OBVIOUS
  <2>2. DayLen \in Nat
    BY Numbers
  <2> QED BY <2>1, <2>2
<1>5. w.ts >= now - Retention
  <2>1. Retention \in Nat
    BY CalendarAssumption
  <2> DEFINE a == first * DayLen
             b == n * DayLen
             c == (first + n) * DayLen
  <2>2. a \in Nat /\ b \in Nat /\ c = a + b /\ a <= w.ts /\ now < c
        /\ b <= Retention
    BY <1>2, <1>3, <1>4
  <2> HIDE DEF a, b, c
  <2> QED BY <1>1, <2>1, <2>2
<1>6. w \in rows'
  BY <1>5, YoungRowsKept DEF RowsOf
<1> QED BY <1>6 DEF RowsOf, Usable

LEMMA MonthKept ==
  ASSUME IInv, [Next]_vars, Day(now') = Day(now), NEW d
  PROVE  MonthRows(d) \in SUBSET MonthRows(d)'
<1> DEFINE first == MonthOf(Day(now)) * MonthDays
<1>1. first \in Nat /\ MonthDays \in Nat /\ MonthDays * DayLen <= Retention
  BY MonthRowsAre, CalendarAssumption
<1>2. Day(now) < first + MonthDays
  <2> DEFINE m == MonthOf(Day(now))
  <2>1. MonthDays \in Nat \ {0} /\ Day(now) \in Nat
    BY ClockDay, CalendarAssumption
  <2>2. m \in Int /\ Day(now) < (m + 1) * MonthDays
    BY <2>1, DivLaw DEF MonthOf
  <2> HIDE DEF m
  <2>3. (m + 1) * MonthDays = m * MonthDays + MonthDays
    BY <2>1, <2>2, ScaleOrder
  <2> QED BY <2>2, <2>3 DEF m
<1>3. \A w \in MonthRows(d) : w \in RowsOf(d) /\ first <= Day(w.ts)
  BY MonthRowsAre
<1> HIDE DEF first
<1>4. \A w \in MonthRows(d) : w \in RowsOf(d)'
  BY <1>1, <1>2, <1>3, PeriodKept
<1> QED BY <1>4 DEF MonthRows

LEMMA WeekKept ==
  ASSUME IInv, [Next]_vars, Day(now') = Day(now), NEW d
  PROVE  WeekRows(d) \in SUBSET WeekRows(d)'
<1>1. /\ Monday \in Nat /\ WeekDays \in Nat /\ Day(now) < Monday + WeekDays
      /\ WeekDays * DayLen <= Retention
  BY MondayIs, CalendarAssumption
<1>2. \A w \in WeekRows(d) : w \in RowsOf(d) /\ Monday <= Day(w.ts)
  BY <1>1, BetweenDays DEF WeekRows
<1>3. \A w \in WeekRows(d) : w \in RowsOf(d)'
  BY <1>1, <1>2, PeriodKept
<1>4. Monday' = Monday
  BY DEF Monday
<1> QED BY <1>3, <1>4 DEF WeekRows, Between

LEMMA TodayKept ==
  ASSUME IInv, [Next]_vars, Day(now') = Day(now), NEW d
  PROVE  TodayRows(d) \in SUBSET TodayRows(d)'
<1>1. \A w \in TodayRows(d) : w \in MonthRows(d) /\ Day(w.ts) = Day(now)
  BY TodayInMonth DEF TodayRows, DayRows
<1>2. \A w \in TodayRows(d) : w \in RowsOf(d)'
  BY <1>1, MonthKept DEF MonthRows
<1> QED BY <1>1, <1>2 DEF TodayRows, DayRows

LEMMA TotalsGrow ==
  ASSUME IInv, IInv', [Next]_vars, Day(now') = Day(now)
  PROVE  /\ WeekKwh' >= WeekKwh
         /\ \A d \in Device : /\ MonthKwh(d)' >= MonthKwh(d)
                              /\ TodayKwh(d)' >= TodayKwh(d)
<1>1. ASSUME NEW d
      PROVE  /\ Readings(RowsOf(d)') /\ Readings(MonthRows(d)')
             /\ Readings(TodayRows(d)') /\ Readings(WeekRows(d)')
  <2>1. Readings(RowsOf(d))'
    BY RowsRead, PTL
  <2>2. Readings(RowsOf(d)')
    BY <2>1 DEF Readings
  <2>3. /\ MonthRows(d)' \in SUBSET RowsOf(d)'
        /\ TodayRows(d)' \in SUBSET RowsOf(d)'
        /\ WeekRows(d)' \in SUBSET RowsOf(d)'
    BY DEF MonthRows, TodayRows, DayRows, WeekRows, Between
  <2> QED BY <2>2, <2>3, SomeReadings
<1>2. ASSUME NEW d
      PROVE  MonthKwh(d)' >= MonthKwh(d) /\ TodayKwh(d)' >= TodayKwh(d)
  <2>1. SumOfDays(MonthRows(d)') >= SumOfDays(MonthRows(d))
    BY <1>1, MonthKept, SumOfDaysGrows
  <2>2. SumOfDays(TodayRows(d)') >= SumOfDays(TodayRows(d))
    BY <1>1, TodayKept, SumOfDaysGrows
  <2>3. MonthKwh(d)' = SumOfDays(MonthRows(d)')
    BY DEF MonthKwh, MonthRows, SumOfDays, DaysOf, DayRows
  <2>4. TodayKwh(d)' = SumOfDays(TodayRows(d)')
    BY DEF TodayKwh, TodayRows, SumOfDays, DaysOf, DayRows
  <2> QED BY <2>1, <2>2, <2>3, <2>4, TotalsOf
<1> DEFINE g == [d \in Device |-> SumOfDays(WeekRows(d))]
           h == [d \in Device |-> SumOfDays(WeekRows(d)')]
<1>3. WeekKwh = SumFunctionOnSet(g, Device)
  BY HomeBetween DEF WeekKwh, WeekRows
<1>4. WeekKwh' = SumFunctionOnSet(h, Device)
  BY DEF WeekKwh, HomeKwhBetween, WeekRows, Between, SumFunction, SumOfDays,
     DaysOf, DayRows
<1>5. ASSUME NEW d \in Device
      PROVE  g[d] \in Nat /\ h[d] \in Nat /\ g[d] <= h[d]
  BY <1>1, WeekKept, SumOfDaysGrows
<1> HIDE DEF g, h
<1>6. SumFunctionOnSet(g, Device) <= SumFunctionOnSet(h, Device)
  BY <1>5, DeviceFinite, SumMono DEF NatOn, IntOn
<1>7. /\ SumFunctionOnSet(g, Device) \in Nat
      /\ SumFunctionOnSet(h, Device) \in Nat
  BY <1>5, DeviceFinite, SumNat DEF NatOn
<1> QED BY <1>2, <1>3, <1>4, <1>6, <1>7

\* TotalsOnlyGrow for every house, retention, week and month: nothing is
\* pruned that a served total still counts, and a day's total is that of
\* its highest reading.
THEOREM TotalsOnlyGrowHolds == Spec => TotalsOnlyGrow
<1>1. IInv /\ IInv' /\ [Next]_vars
        => [Day(now') = Day(now) =>
              /\ WeekKwh' >= WeekKwh
              /\ \A d \in Device : /\ MonthKwh(d)' >= MonthKwh(d)
                                   /\ TodayKwh(d)' >= TodayKwh(d)]_vars
  BY TotalsGrow
<1> QED BY <1>1, IInvariance, PTL DEF Spec, TotalsOnlyGrow

=============================================================================
