----------------------------- MODULE SumTheorems -----------------------------
(***************************************************************************)
(* Sums over finite sets: what SumFunctionOnSet adds up, for every finite  *)
(* set and every integer function.  The library's induction theorems are   *)
(* about an operator; here each induction is about the set of the          *)
(* counterexamples, which has a smallest element when it is not empty.     *)
(***************************************************************************)
EXTENDS Integers, Functions, FiniteSetTheorems, TLAPS

\* Of the subsets of a finite set, those in T have a smallest one.
LEMMA SmallestSet ==
    ASSUME NEW S, IsFiniteSet(S), NEW T \in SUBSET SUBSET S, T # {}
    PROVE  \E U \in T : \A V \in SUBSET U : V \in T => V = U
<1>1. IsWellFoundedOn(StrictSubsetOrdering(S), SUBSET S)
  BY FS_StrictSubsetOrderingWellFounded, FS_FiniteSubsetsOfFinite
<1>2. PICK U \in T : \A V \in T : ~(<<V, U>> \in StrictSubsetOrdering(S))
  BY <1>1, WFMin
<1>3. ASSUME NEW V \in SUBSET U, V \in T PROVE V = U
  BY <1>2, <1>3 DEF StrictSubsetOrdering
<1> QED
  BY <1>3
-----------------------------------------------------------------------------
(* The recursive function behind a sum.                                    *)

Pick(s) == CHOOSE x \in s : TRUE
SumsUp(g, f, S) ==
    g = [s \in SUBSET S |-> IF s = {} THEN 0 ELSE f[Pick(s)] + g[s \ {Pick(s)}]]

LEMMA PickIn == ASSUME NEW s, s # {} PROVE Pick(s) \in s
  BY DEF Pick

\* There is at most one.
LEMMA SumsUpOnce ==
    ASSUME NEW S, IsFiniteSet(S), NEW f, NEW g, NEW h, SumsUp(g, f, S), SumsUp(h, f, S)
    PROVE  g = h
<1> DEFINE T == {s \in SUBSET S : g[s] # h[s]}
<1>1. CASE T = {}
  BY <1>1 DEF SumsUp
<1>2. CASE T # {}
  <2>1. T \in SUBSET SUBSET S
    OBVIOUS
  <2>2. PICK U \in T : \A V \in SUBSET U : V \in T => V = U
    <3> HIDE DEF T
    <3> QED
      BY <1>2, <2>1, SmallestSet
  <2>3. U # {} /\ Pick(U) \in U
    BY PickIn DEF SumsUp
  <2>4. g[U \ {Pick(U)}] = h[U \ {Pick(U)}]
    BY <2>2, <2>3
  <2> QED
    BY <2>3, <2>4 DEF SumsUp
<1> QED
  BY <1>1, <1>2

\* Its restriction to a smaller set is that of the smaller set.
LEMMA SumsUpBelow ==
    ASSUME NEW S, NEW f, NEW g, SumsUp(g, f, S), NEW T \in SUBSET S
    PROVE  SumsUp([s \in SUBSET T |-> g[s]], f, T)
  BY DEF SumsUp

\* There is one for every finite set.
LEMMA SumsUpExists ==
    ASSUME NEW S, IsFiniteSet(S), NEW f
    PROVE  \E g : SumsUp(g, f, S)
<1> DEFINE T == {s \in SUBSET S : ~\E g : SumsUp(g, f, s)}
<1> SUFFICES ASSUME T # {} PROVE FALSE
  OBVIOUS
<1>1. PICK U \in T : \A V \in SUBSET U : V \in T => V = U
  <2>1. T \in SUBSET SUBSET S
    OBVIOUS
  <2> HIDE DEF T
  <2> QED
    BY <2>1, SmallestSet
<1> DEFINE fun(s) == CHOOSE g : SumsUp(g, f, s)
           sum(s) == fun(s)[s]
           Smaller == (SUBSET U) \ {U}
<1>2. ASSUME NEW V \in Smaller PROVE SumsUp(fun(V), f, V)
  BY <1>1
<1> HIDE DEF fun
<1>3. ASSUME NEW V \in Smaller
      PROVE  sum(V) = IF V = {} THEN 0 ELSE f[Pick(V)] + sum(V \ {Pick(V)})
  <2>1. SumsUp(fun(V), f, V)
    BY <1>2
  <2>2. CASE V = {}
    BY <2>1, <2>2 DEF SumsUp
  <2>3. CASE V # {}
    <3> DEFINE W == V \ {Pick(V)}
    <3>1. W \in Smaller /\ W \in SUBSET V /\ IsFiniteSet(W)
      BY <2>3, PickIn, FS_Subset
    <3>2. SumsUp(fun(W), f, W)
      BY <1>2, <3>1
    <3>3. SumsUp([s \in SUBSET W |-> fun(V)[s]], f, W)
      <4> HIDE DEF W
      <4> QED
        BY <2>1, <3>1, SumsUpBelow
    <3>4. [s \in SUBSET W |-> fun(V)[s]] = fun(W)
      BY <3>1, <3>2, <3>3, SumsUpOnce
    <3>5. fun(V)[W] = sum(W)
      BY <3>4
    <3> QED
      BY <2>1, <2>3, <3>5 DEF SumsUp
  <2> QED
    BY <2>2, <2>3
<1> DEFINE h == [s \in SUBSET U |-> IF s = {} THEN 0 ELSE f[Pick(s)] + sum(s \ {Pick(s)})]
<1>4. ASSUME NEW s \in SUBSET U, s # {} PROVE h[s \ {Pick(s)}] = sum(s \ {Pick(s)})
  <2>1. s \ {Pick(s)} \in Smaller
    BY <1>4, PickIn
  <2> HIDE DEF sum
  <2> QED
    BY <2>1, <1>3
<1> HIDE DEF sum
<1>5. SumsUp(h, f, U)
  BY <1>4 DEF SumsUp
<1> QED
  BY <1>1, <1>5
-----------------------------------------------------------------------------
(* SumFunctionOnSet.                                                       *)

LEMMA SumUnfolded ==
    ASSUME NEW f, NEW S
    PROVE  SumFunctionOnSet(f, S) = (CHOOSE g : SumsUp(g, f, S))[S]
  BY DEF SumFunctionOnSet, FoldFunctionOnSet, MapThenFoldSet, SumsUp, Pick

\* An element is put aside, the one CHOOSE picks.
LEMMA SumPick ==
    ASSUME NEW f, NEW S, IsFiniteSet(S)
    PROVE  SumFunctionOnSet(f, S) =
             IF S = {} THEN 0 ELSE f[Pick(S)] + SumFunctionOnSet(f, S \ {Pick(S)})
<1> DEFINE g == CHOOSE h : SumsUp(h, f, S)
<1>1. SumsUp(g, f, S)
  BY SumsUpExists
<1>2. CASE S = {}
  BY <1>1, <1>2, SumUnfolded DEF SumsUp
<1>3. CASE S # {}
  <2> DEFINE W == S \ {Pick(S)}
             k == CHOOSE h : SumsUp(h, f, W)
  <2>1. IsFiniteSet(W) /\ W \in SUBSET S
    BY FS_Subset
  <2>2. SumsUp(k, f, W)
    BY <2>1, SumsUpExists
  <2>3. SumsUp([s \in SUBSET W |-> g[s]], f, W)
    <3> HIDE DEF W, g
    <3> QED
      BY <1>1, <2>1, SumsUpBelow
  <2>4. k = [s \in SUBSET W |-> g[s]]
    <3> HIDE DEF k, g
    <3> QED
      BY <2>1, <2>2, <2>3, SumsUpOnce
  <2>5. SumFunctionOnSet(f, W) = g[W]
    BY <2>4, SumUnfolded
  <2>6. g[S] = f[Pick(S)] + g[W]
    BY <1>1, <1>3 DEF SumsUp
  <2> QED
    BY <1>3, <2>5, <2>6, SumUnfolded
<1> QED
  BY <1>2, <1>3

\* Over nothing a sum is 0.
THEOREM SumEmpty == ASSUME NEW f PROVE SumFunctionOnSet(f, {}) = 0
  BY SumPick, FS_EmptySet

\* Sums of integers are integers.
THEOREM SumInt ==
    ASSUME NEW f, NEW S, IsFiniteSet(S), \A x \in S : f[x] \in Int
    PROVE  SumFunctionOnSet(f, S) \in Int
<1> DEFINE T == {s \in SUBSET S : SumFunctionOnSet(f, s) \notin Int}
<1> SUFFICES ASSUME T # {} PROVE FALSE
  OBVIOUS
<1>1. PICK U \in T : \A V \in SUBSET U : V \in T => V = U
  <2>1. T \in SUBSET SUBSET S
    OBVIOUS
  <2> HIDE DEF T
  <2> QED
    BY <2>1, SmallestSet
<1>2. IsFiniteSet(U)
  BY FS_Subset
<1>3. CASE U = {}
  BY <1>3, SumEmpty
<1>4. CASE U # {}
  <2>1. Pick(U) \in U /\ f[Pick(U)] \in Int
    BY <1>4, PickIn
  <2>2. SumFunctionOnSet(f, U \ {Pick(U)}) \in Int
    BY <1>1, <2>1
  <2> QED
    BY <1>2, <1>4, <2>1, <2>2, SumPick
<1> QED
  BY <1>3, <1>4

\* A sum of zeros.
THEOREM SumZero ==
    ASSUME NEW f, NEW S, IsFiniteSet(S), \A x \in S : f[x] = 0
    PROVE  SumFunctionOnSet(f, S) = 0
<1> DEFINE T == {s \in SUBSET S : SumFunctionOnSet(f, s) # 0}
<1> SUFFICES ASSUME T # {} PROVE FALSE
  OBVIOUS
<1>1. PICK U \in T : \A V \in SUBSET U : V \in T => V = U
  <2>1. T \in SUBSET SUBSET S
    OBVIOUS
  <2> HIDE DEF T
  <2> QED
    BY <2>1, SmallestSet
<1>2. IsFiniteSet(U)
  BY FS_Subset
<1>3. CASE U = {}
  BY <1>3, SumEmpty
<1>4. CASE U # {}
  <2>1. Pick(U) \in U /\ f[Pick(U)] = 0
    BY <1>4, PickIn
  <2>2. SumFunctionOnSet(f, U \ {Pick(U)}) = 0
    BY <1>1, <2>1
  <2> QED
    BY <1>2, <1>4, <2>1, <2>2, SumPick
<1> QED
  BY <1>3, <1>4

\* Any element may be put aside.
THEOREM SumTakeOut ==
    ASSUME NEW f, NEW S, IsFiniteSet(S), \A x \in S : f[x] \in Int, NEW x \in S
    PROVE  SumFunctionOnSet(f, S) = f[x] + SumFunctionOnSet(f, S \ {x})
<1> DEFINE Wrong(s) == \E y \in s : SumFunctionOnSet(f, s) # f[y] + SumFunctionOnSet(f, s \ {y})
           T == {s \in SUBSET S : Wrong(s)}
<1> SUFFICES ASSUME T # {} PROVE FALSE
  OBVIOUS
<1>1. PICK U \in T : \A V \in SUBSET U : V \in T => V = U
  <2>1. T \in SUBSET SUBSET S
    OBVIOUS
  <2> HIDE DEF T
  <2> QED
    BY <2>1, SmallestSet
<1>2. PICK y \in U : SumFunctionOnSet(f, U) # f[y] + SumFunctionOnSet(f, U \ {y})
  OBVIOUS
<1> DEFINE p == Pick(U)
           W == U \ {p, y}
<1>3. p \in U /\ f[p] \in Int /\ f[y] \in Int
  BY <1>2, PickIn
<1>4. IsFiniteSet(U) /\ IsFiniteSet(W)
  BY FS_Subset
<1>5. SumFunctionOnSet(f, U) = f[p] + SumFunctionOnSet(f, U \ {p})
  BY <1>2, <1>4, SumPick
<1>6. p # y
  BY <1>2, <1>5
<1>7. SumFunctionOnSet(f, U \ {p}) = f[y] + SumFunctionOnSet(f, W)
  <2>1. U \ {p} \in SUBSET U /\ U \ {p} # U /\ y \in U \ {p}
    BY <1>2, <1>3, <1>6
  <2>2. (U \ {p}) \ {y} = W
    OBVIOUS
  <2>3. U \ {p} \notin T /\ U \ {p} \in SUBSET S
    BY <1>1, <2>1
  <2> QED
    BY <2>1, <2>2, <2>3
<1>8. SumFunctionOnSet(f, U \ {y}) = f[p] + SumFunctionOnSet(f, W)
  <2>1. U \ {y} \in SUBSET U /\ U \ {y} # U /\ p \in U \ {y}
    BY <1>2, <1>3, <1>6
  <2>2. (U \ {y}) \ {p} = W
    OBVIOUS
  <2>3. U \ {y} \notin T /\ U \ {y} \in SUBSET S
    BY <1>1, <2>1
  <2> QED
    BY <2>1, <2>2, <2>3
<1>9. SumFunctionOnSet(f, W) \in Int
  BY <1>4, SumInt
<1> QED
  BY <1>2, <1>3, <1>5, <1>7, <1>8, <1>9

\* What is not in the set may be added.
THEOREM SumAdd ==
    ASSUME NEW f, NEW S, IsFiniteSet(S), NEW x, \A y \in S \union {x} : f[y] \in Int, x \notin S
    PROVE  SumFunctionOnSet(f, S \union {x}) = f[x] + SumFunctionOnSet(f, S)
<1>1. IsFiniteSet(S \union {x}) /\ (S \union {x}) \ {x} = S
  BY FS_AddElement
<1> QED
  BY <1>1, SumTakeOut

\* Only the values on the set count.
THEOREM SumSame ==
    ASSUME NEW f, NEW g, NEW S, IsFiniteSet(S), \A x \in S : f[x] = g[x]
    PROVE  SumFunctionOnSet(f, S) = SumFunctionOnSet(g, S)
<1> DEFINE T == {s \in SUBSET S : SumFunctionOnSet(f, s) # SumFunctionOnSet(g, s)}
<1> SUFFICES ASSUME T # {} PROVE FALSE
  OBVIOUS
<1>1. PICK U \in T : \A V \in SUBSET U : V \in T => V = U
  <2>1. T \in SUBSET SUBSET S
    OBVIOUS
  <2> HIDE DEF T
  <2> QED
    BY <2>1, SmallestSet
<1>2. IsFiniteSet(U)
  BY FS_Subset
<1>3. CASE U = {}
  BY <1>3, SumEmpty
<1>4. CASE U # {}
  <2>1. Pick(U) \in U
    BY <1>4, PickIn
  <2>2. SumFunctionOnSet(f, U \ {Pick(U)}) = SumFunctionOnSet(g, U \ {Pick(U)})
    BY <1>1, <2>1
  <2> QED
    BY <1>2, <1>4, <2>1, <2>2, SumPick
<1> QED
  BY <1>3, <1>4

\* The sums of two disjoint sets add up.
THEOREM SumUnion ==
    ASSUME NEW f, NEW S, IsFiniteSet(S), NEW R, IsFiniteSet(R), S \cap R = {},
           \A x \in S \union R : f[x] \in Int
    PROVE  SumFunctionOnSet(f, S \union R) = SumFunctionOnSet(f, S) + SumFunctionOnSet(f, R)
<1> DEFINE T == {s \in SUBSET S : SumFunctionOnSet(f, s \union R)
                                   # SumFunctionOnSet(f, s) + SumFunctionOnSet(f, R)}
<1> SUFFICES ASSUME T # {} PROVE FALSE
  OBVIOUS
<1>1. PICK U \in T : \A V \in SUBSET U : V \in T => V = U
  <2>1. T \in SUBSET SUBSET S
    OBVIOUS
  <2> HIDE DEF T
  <2> QED
    BY <2>1, SmallestSet
<1>2. SumFunctionOnSet(f, R) \in Int
  BY SumInt
<1>3. CASE U = {}
  BY <1>2, <1>3, SumEmpty
<1>4. CASE U # {}
  <2>1. PICK x \in U : TRUE
    BY <1>4
  <2> DEFINE W == U \ {x}
  <2>2. IsFiniteSet(U) /\ IsFiniteSet(W) /\ IsFiniteSet(U \union R) /\ IsFiniteSet(W \union R)
    BY FS_Subset, FS_Union
  <2>3. SumFunctionOnSet(f, U) = f[x] + SumFunctionOnSet(f, W)
    BY <2>2, SumTakeOut
  <2>4. SumFunctionOnSet(f, U \union R) = f[x] + SumFunctionOnSet(f, W \union R)
    <3>1. (U \union R) \ {x} = W \union R
      OBVIOUS
    <3> QED
      BY <2>2, <3>1, SumTakeOut
  <2>5. SumFunctionOnSet(f, W \union R) = SumFunctionOnSet(f, W) + SumFunctionOnSet(f, R)
    BY <1>1
  <2>6. SumFunctionOnSet(f, W) \in Int /\ f[x] \in Int
    BY <2>2, SumInt
  <2> QED
    BY <1>2, <2>3, <2>4, <2>5, <2>6
<1> QED
  BY <1>3, <1>4

\* A sum is that over the images of its elements, one image for each element.
LEMMA SumOfImage ==
    ASSUME NEW S, IsFiniteSet(S), NEW m, \A x, y \in S : m[x] = m[y] => x = y,
           NEW f, NEW g, \A x \in S : f[x] \in Int /\ f[x] = g[m[x]]
    PROVE  SumFunctionOnSet(f, S) = SumFunctionOnSet(g, {m[x] : x \in S})
<1> DEFINE T == {s \in SUBSET S : SumFunctionOnSet(f, s) # SumFunctionOnSet(g, {m[x] : x \in s})}
<1> SUFFICES ASSUME T # {} PROVE FALSE
  OBVIOUS
<1>1. PICK U \in T : \A V \in SUBSET U : V \in T => V = U
  <2>1. T \in SUBSET SUBSET S
    OBVIOUS
  <2> HIDE DEF T
  <2> QED
    BY <2>1, SmallestSet
<1>2. IsFiniteSet(U)
  BY FS_Subset
<1>3. CASE U = {}
  <2>1. {m[x] : x \in U} = {}
    BY <1>3
  <2> QED
    BY <1>3, <2>1, SumEmpty
<1>4. CASE U # {}
  <2>1. PICK y \in U : TRUE
    BY <1>4
  <2> DEFINE W == U \ {y}
             MU == {m[x] : x \in U}
             MW == {m[x] : x \in W}
  <2>2. SumFunctionOnSet(f, U) = f[y] + SumFunctionOnSet(f, W)
    BY <1>2, SumTakeOut
  <2>3. IsFiniteSet(MU) /\ m[y] \in MU /\ MU \ {m[y]} = MW
    <3>1. [x \in U |-> m[x]] \in Surjection(U, MU)
      BY DEF Surjection
    <3>2. IsFiniteSet(MU)
      BY <1>2, <3>1, FS_Surjection
    <3> QED
      BY <3>2
  <2>4. \A z \in MU : g[z] \in Int
    OBVIOUS
  <2> HIDE DEF MU, MW
  <2>5. SumFunctionOnSet(g, MU) = g[m[y]] + SumFunctionOnSet(g, MU \ {m[y]})
    BY <2>3, <2>4, SumTakeOut
  <2>6. SumFunctionOnSet(f, W) = SumFunctionOnSet(g, MW)
    <3>1. W \in SUBSET U /\ W # U /\ W \in SUBSET S
      BY <2>1
    <3>2. W \notin T
      BY <1>1, <3>1
    <3> QED
      BY <3>1, <3>2 DEF MW
  <2> QED
    BY <2>1, <2>2, <2>3, <2>5, <2>6 DEF MU
<1> QED
  BY <1>3, <1>4

\* A sum is that of another set, when the elements go to it one to one.
THEOREM SumMoved ==
    ASSUME NEW S, IsFiniteSet(S), NEW m, \A x, y \in S : m[x] = m[y] => x = y,
           NEW T, \A x \in S : m[x] \in T, \A y \in T : \E x \in S : m[x] = y,
           NEW f, NEW g, \A x \in S : f[x] \in Int /\ f[x] = g[m[x]]
    PROVE  SumFunctionOnSet(f, S) = SumFunctionOnSet(g, T)
<1>1. T = {m[x] : x \in S}
  OBVIOUS
<1>2. SumFunctionOnSet(f, S) = SumFunctionOnSet(g, {m[x] : x \in S})
  BY SumOfImage
<1> QED
  BY <1>1, <1>2

\* A sum of natural numbers is one.
THEOREM SumNat ==
    ASSUME NEW f, NEW S, IsFiniteSet(S), \A x \in S : f[x] \in Nat
    PROVE  SumFunctionOnSet(f, S) \in Nat
<1> DEFINE T == {s \in SUBSET S : SumFunctionOnSet(f, s) \notin Nat}
<1> SUFFICES ASSUME T # {} PROVE FALSE
  OBVIOUS
<1>1. PICK U \in T : \A V \in SUBSET U : V \in T => V = U
  <2>1. T \in SUBSET SUBSET S
    OBVIOUS
  <2> HIDE DEF T
  <2> QED
    BY <2>1, SmallestSet
<1>2. IsFiniteSet(U)
  BY FS_Subset
<1>3. CASE U = {}
  BY <1>3, SumEmpty
<1>4. CASE U # {}
  <2>1. Pick(U) \in U /\ f[Pick(U)] \in Nat
    BY <1>4, PickIn
  <2>2. SumFunctionOnSet(f, U \ {Pick(U)}) \in Nat
    BY <1>1, <2>1
  <2> QED
    BY <1>2, <1>4, <2>1, <2>2, SumPick
<1> QED
  BY <1>3, <1>4

\* Over more elements, none of them negative, a sum is not smaller.
THEOREM SumMore ==
    ASSUME NEW f, NEW S, IsFiniteSet(S), NEW R \in SUBSET S, \A x \in S : f[x] \in Nat
    PROVE  SumFunctionOnSet(f, R) <= SumFunctionOnSet(f, S)
<1>1. IsFiniteSet(R) /\ IsFiniteSet(S \ R) /\ S = R \union (S \ R)
  BY FS_Subset
<1>2. SumFunctionOnSet(f, S) = SumFunctionOnSet(f, R) + SumFunctionOnSet(f, S \ R)
  BY <1>1, SumUnion
<1>3. SumFunctionOnSet(f, R) \in Nat /\ SumFunctionOnSet(f, S \ R) \in Nat
  BY <1>1, SumNat
<1> QED
  BY <1>2, <1>3
=============================================================================
