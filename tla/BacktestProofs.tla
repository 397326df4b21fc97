--------------------------- MODULE BacktestProofs ---------------------------
(***************************************************************************)
(* Proofs about Backtest, for every capture, every layout of windows and   *)
(* every order: each window is priced against the views received in it and *)
(* the one before (SeesItsViews), and in the window that is followed the   *)
(* schedule is kept (KeepsSchedule), the fills are walks of the view of    *)
(* their instant (FillsAreWalks, UnfilledOnlyForDepth) and the layers sum  *)
(* to the shortfall (LayersSumToShortfall).                                *)
(***************************************************************************)
EXTENDS Backtest, BookOpsProofs, SequenceTheorems

-----------------------------------------------------------------------------
(* Sums of functions over finite sets.                                     *)

(* Induction on the subsets of a finite set, for a property given by the   *)
(* set G of the subsets that have it.                                      *)
Inherited(G, S) ==
    \A s \in SUBSET S : s # {} /\ (\A x \in s : s \ {x} \in G) => s \in G

LEMMA SubsetInduction ==
    ASSUME NEW S, IsFiniteSet(S), NEW G, {} \in G, Inherited(G, S)
    PROVE  S \in G
<1> DEFINE B == {s \in SUBSET S : s \notin G}
           T == {Cardinality(s) : s \in B}
<1> SUFFICES ASSUME B # {} PROVE FALSE
  OBVIOUS
<1>1. \A s \in SUBSET S : IsFiniteSet(s) /\ Cardinality(s) \in Nat
  BY FS_Subset, FS_CardinalityType
<1>2. T \in SUBSET Nat /\ T # {}
  BY <1>1
<1>3. PICK m \in T : \A n \in T : m <= n
  BY <1>2, LeastExists
<1>4. PICK s \in B : Cardinality(s) = m
  BY <1>3
<1>5. ASSUME NEW x \in s PROVE s \ {x} \in G
  <2>1. Cardinality(s \ {x}) = Cardinality(s) - 1
    BY <1>1, <1>4, FS_RemoveElement
  <2>2. ~(m <= Cardinality(s \ {x}))
    BY <1>1, <1>4, <2>1
  <2>3. s \ {x} \notin B
    BY <1>3, <2>2
  <2> QED BY <1>4, <2>3
<1> QED BY <1>4, <1>5 DEF Inherited

Any(s) == CHOOSE x \in s : TRUE
Sums(g, f, G) ==
    g = [s \in G |-> IF s = {} THEN 0 ELSE f[Any(s)] + g[s \ {Any(s)}]]

LEMMA SumUnfolds ==
    ASSUME NEW f, NEW S
    PROVE  SumFunctionOnSet(f, S) = (CHOOSE g : Sums(g, f, SUBSET S))[S]
BY DEF SumFunctionOnSet, FoldFunctionOnSet, MapThenFoldSet, Sums, Any

LEMMA AnyIsOne ==
    ASSUME NEW s, s # {}
    PROVE  Any(s) \in s
BY DEF Any

LEMMA CountingUp ==
    ASSUME NEW G, 0 \in G, \A n \in Nat : n \in G => n + 1 \in G
    PROVE  \A n \in Nat : n \in G
<1> DEFINE T == {n \in Nat : n \notin G}
<1> SUFFICES ASSUME T # {} PROVE FALSE
  OBVIOUS
<1>1. PICK m \in T : \A n \in T : m <= n
  BY LeastExists
<1>2. m \in Nat /\ m # 0
  OBVIOUS
<1>3. m - 1 \in Nat /\ ~(m <= m - 1) /\ m - 1 + 1 = m
  BY <1>2
<1>4. m - 1 \in G
  BY <1>1, <1>3
<1> QED BY <1>3, <1>4

LEMMA SumsExist ==
    ASSUME NEW f, NEW S, IsFiniteSet(S)
    PROVE  \E g : Sums(g, f, SUBSET S)
<1> DEFINE Small(n) == {s \in SUBSET S : Cardinality(s) <= n}
           G == {n \in Nat : \E g : Sums(g, f, Small(n))}
<1>1. \A s \in SUBSET S : IsFiniteSet(s) /\ Cardinality(s) \in Nat
  BY FS_Subset, FS_CardinalityType
<1>2. 0 \in G
  <2> DEFINE g == [s \in Small(0) |-> 0]
  <2>1. \A s \in Small(0) : s = {}
    BY <1>1, FS_EmptySet
  <2>2. g = [s \in Small(0) |-> IF s = {} THEN 0 ELSE f[Any(s)] + g[s \ {Any(s)}]]
    BY <2>1
  <2>3. Sums(g, f, Small(0))
    BY <2>2 DEF Sums
  <2> QED BY <2>3
<1>3. ASSUME NEW n \in Nat, n \in G
      PROVE  n + 1 \in G
  <2>1. PICK g : Sums(g, f, Small(n))
    BY <1>3
  <2> DEFINE h == [s \in Small(n + 1) |-> IF s = {} THEN 0 ELSE f[Any(s)] + g[s \ {Any(s)}]]
  <2>2. ASSUME NEW s \in Small(n + 1), s # {}
        PROVE  h[s \ {Any(s)}] = g[s \ {Any(s)}]
    <3> DEFINE r == s \ {Any(s)}
    <3>1. Any(s) \in s
      BY <2>2, AnyIsOne
    <3>2. Cardinality(r) = Cardinality(s) - 1
      BY <1>1, <3>1, FS_RemoveElement
    <3>3. r \in Small(n) /\ r \in Small(n + 1)
      BY <1>1, <3>2
    <3> HIDE DEF r, Small
    <3>4. h[r] = IF r = {} THEN 0 ELSE f[Any(r)] + g[r \ {Any(r)}]
      BY <3>3
    <3>5. g[r] = IF r = {} THEN 0 ELSE f[Any(r)] + g[r \ {Any(r)}]
      BY <2>1, <3>3 DEF Sums
    <3> QED BY <3>4, <3>5 DEF r
  <2> HIDE DEF Small
  <2>3. h = [s \in Small(n + 1) |-> IF s = {} THEN 0 ELSE f[Any(s)] + h[s \ {Any(s)}]]
    BY <2>2
  <2> HIDE DEF h
  <2>4. Sums(h, f, Small(n + 1))
    BY <2>3 DEF Sums
  <2> QED BY <2>4
<1>4. Cardinality(S) \in G
  <2> HIDE DEF G
  <2> QED BY <1>1, <1>2, <1>3, CountingUp
<1>5. Small(Cardinality(S)) = SUBSET S
  BY <1>1, FS_Subset
<1> QED BY <1>4, <1>5

(* Two of them agree where both are defined.                               *)
LEMMA SumsAgree ==
    ASSUME NEW f, NEW S, IsFiniteSet(S), NEW R \in SUBSET S,
           NEW g, Sums(g, f, SUBSET S), NEW h, Sums(h, f, SUBSET R)
    PROVE  g[R] = h[R]
<1> DEFINE G == {s \in SUBSET R : g[s] = h[s]}
<1>1. \A s \in SUBSET R :
          /\ g[s] = IF s = {} THEN 0 ELSE f[Any(s)] + g[s \ {Any(s)}]
          /\ h[s] = IF s = {} THEN 0 ELSE f[Any(s)] + h[s \ {Any(s)}]
  BY DEF Sums
<1>2. {} \in G
  BY <1>1
<1>3. ASSUME NEW s \in SUBSET R, s # {}, \A x \in s : s \ {x} \in G
      PROVE  s \in G
  <2>1. g[s \ {Any(s)}] = h[s \ {Any(s)}]
    BY <1>3, AnyIsOne
  <2> QED BY <1>1, <1>3, <2>1
<1>4. IsFiniteSet(R)
  BY FS_Subset
<1>5. Inherited(G, R)
  BY <1>3 DEF Inherited
<1> HIDE DEF G
<1>6. R \in G
  BY <1>2, <1>4, <1>5, SubsetInduction
<1> QED BY <1>6 DEF G

(* What SumFunctionOnSet computes: nothing of nothing, and otherwise some  *)
(* element more than the sum of the others.                                *)
LEMMA SumOfNone ==
    ASSUME NEW f
    PROVE  SumFunctionOnSet(f, {}) = 0
<1> DEFINE g == CHOOSE g : Sums(g, f, SUBSET {})
<1>1. Sums(g, f, SUBSET {})
  BY SumsExist, FS_EmptySet
<1> HIDE DEF g
<1>2. g[{}] = 0
  BY <1>1 DEF Sums
<1> QED BY <1>2, SumUnfolds DEF g

LEMMA SumIsSome ==
    ASSUME NEW f, NEW S, IsFiniteSet(S)
    PROVE  \E g : Sums(g, f, SUBSET S) /\ SumFunctionOnSet(f, S) = g[S]
BY SumsExist, SumUnfolds

LEMMA SumByAny ==
    ASSUME NEW f, NEW S, IsFiniteSet(S), S # {}
    PROVE  SumFunctionOnSet(f, S) = f[Any(S)] + SumFunctionOnSet(f, S \ {Any(S)})
<1>1. PICK R \in SUBSET S : R = S \ {Any(S)}
  OBVIOUS
<1>2. PICK g : Sums(g, f, SUBSET S) /\ SumFunctionOnSet(f, S) = g[S]
  BY SumIsSome
<1>3. PICK h : Sums(h, f, SUBSET R) /\ SumFunctionOnSet(f, R) = h[R]
  BY FS_Subset, SumIsSome
<1>4. g[S] = f[Any(S)] + g[R]
  BY <1>1, <1>2 DEF Sums
<1>5. g[R] = h[R]
  <2>1. \A RR \in SUBSET S : \A gg : Sums(gg, f, SUBSET S) => \A hh : Sums(hh, f, SUBSET RR) => gg[RR] = hh[RR]
    BY SumsAgree
  <2>2. \A gg : Sums(gg, f, SUBSET S) => \A hh : Sums(hh, f, SUBSET R) => gg[R] = hh[R]
    BY <2>1
  <2>3. \A hh : Sums(hh, f, SUBSET R) => g[R] = hh[R]
    BY <2>2, <1>2
  <2> QED BY <1>3, <2>3
<1> QED BY <1>1, <1>2, <1>3, <1>4, <1>5

Summable(f, S) == IsFiniteSet(S) /\ \A x \in S : f[x] \in Int

LEMMA SummableSubset ==
    ASSUME NEW f, NEW S, Summable(f, S), NEW R \in SUBSET S
    PROVE  Summable(f, R)
BY FS_Subset DEF Summable

LEMMA SumIsInt ==
    ASSUME NEW f, NEW S, Summable(f, S)
    PROVE  SumFunctionOnSet(f, S) \in Int
<1> DEFINE G == {s \in SUBSET S : SumFunctionOnSet(f, s) \in Int}
<1>1. {} \in G
  BY SumOfNone
<1>2. ASSUME NEW s \in SUBSET S, s # {}, \A x \in s : s \ {x} \in G
      PROVE  s \in G
  <2>1. Any(s) \in s /\ IsFiniteSet(s)
    BY <1>2, AnyIsOne, FS_Subset DEF Summable
  <2>2. f[Any(s)] \in Int /\ SumFunctionOnSet(f, s \ {Any(s)}) \in Int
    BY <1>2, <2>1 DEF Summable
  <2>3. SumFunctionOnSet(f, s) = f[Any(s)] + SumFunctionOnSet(f, s \ {Any(s)})
    BY <1>2, <2>1, SumByAny
  <2> QED BY <2>2, <2>3
<1>3. IsFiniteSet(S)
  BY DEF Summable
<1>4. Inherited(G, S)
  BY <1>2 DEF Inherited
<1> HIDE DEF G
<1>5. S \in G
  BY <1>1, <1>3, <1>4, SubsetInduction
<1> QED BY <1>5 DEF G

(* Any element may be taken first.                                         *)
LEMMA SumByElement ==
    ASSUME NEW f, NEW S, Summable(f, S), NEW x \in S
    PROVE  SumFunctionOnSet(f, S) = f[x] + SumFunctionOnSet(f, S \ {x})
<1> DEFINE By(s, y) == SumFunctionOnSet(f, s) = f[y] + SumFunctionOnSet(f, s \ {y})
           G == {s \in SUBSET S : \A y \in s : By(s, y)}
<1>1. {} \in G
  OBVIOUS
<1>2. ASSUME NEW s \in SUBSET S, s # {}, \A y \in s : s \ {y} \in G
      PROVE  s \in G
  <2> SUFFICES ASSUME NEW y \in s PROVE By(s, y)
    OBVIOUS
  <2> DEFINE a == Any(s)
             r == (s \ {a}) \ {y}
  <2>1. a \in s /\ IsFiniteSet(s)
    BY <1>2, AnyIsOne, FS_Subset DEF Summable
  <2>2. By(s, a)
    BY <1>2, <2>1, SumByAny
  <2>3. CASE y = a
    BY <2>2, <2>3
  <2>4. CASE y # a
    <3>1. By(s \ {a}, y) /\ By(s \ {y}, a)
      BY <1>2, <2>1, <2>4
    <3>2. (s \ {y}) \ {a} = r
      OBVIOUS
    <3>3. f[a] \in Int /\ f[y] \in Int /\ SumFunctionOnSet(f, r) \in Int
      <4>1. Summable(f, r)
        BY SummableSubset
      <4> QED BY <2>1, <4>1, SumIsInt DEF Summable
    <3>4. /\ SumFunctionOnSet(f, s) = f[a] + SumFunctionOnSet(f, s \ {a})
          /\ SumFunctionOnSet(f, s \ {a}) = f[y] + SumFunctionOnSet(f, r)
          /\ SumFunctionOnSet(f, s \ {y}) = f[a] + SumFunctionOnSet(f, r)
      BY <2>2, <3>1, <3>2
    <3> HIDE DEF r, a
    <3> QED BY <3>3, <3>4
  <2> QED BY <2>3, <2>4
<1>3. IsFiniteSet(S)
  BY DEF Summable
<1>4. Inherited(G, S)
  BY <1>2 DEF Inherited
<1> HIDE DEF G
<1>5. S \in G
  BY <1>1, <1>3, <1>4, SubsetInduction
<1> QED BY <1>5 DEF G

(* Sums of equal values are equal, and a sum of naturals is a natural.     *)
LEMMA SumSame ==
    ASSUME NEW f, NEW g, NEW S, Summable(f, S), \A x \in S : f[x] = g[x]
    PROVE  SumFunctionOnSet(f, S) = SumFunctionOnSet(g, S)
<1> DEFINE G == {s \in SUBSET S : SumFunctionOnSet(f, s) = SumFunctionOnSet(g, s)}
<1>1. {} \in G
  BY SumOfNone
<1>2. ASSUME NEW s \in SUBSET S, s # {}, \A y \in s : s \ {y} \in G
      PROVE  s \in G
  <2> DEFINE r == s \ {Any(s)}
  <2>1. Any(s) \in s /\ IsFiniteSet(s)
    BY <1>2, AnyIsOne, FS_Subset DEF Summable
  <2>2. /\ SumFunctionOnSet(f, s) = f[Any(s)] + SumFunctionOnSet(f, r)
        /\ SumFunctionOnSet(g, s) = g[Any(s)] + SumFunctionOnSet(g, r)
    BY <1>2, <2>1, SumByAny
  <2>3. r \in G
    BY <1>2, <2>1
  <2> HIDE DEF r
  <2> QED BY <2>1, <2>2, <2>3
<1>3. IsFiniteSet(S)
  BY DEF Summable
<1>4. Inherited(G, S)
  BY <1>2 DEF Inherited
<1> HIDE DEF G
<1>5. S \in G
  BY <1>1, <1>3, <1>4, SubsetInduction
<1> QED BY <1>5 DEF G

LEMMA SumOfNaturals ==
    ASSUME NEW f, NEW S, Summable(f, S), \A x \in S : f[x] >= 0
    PROVE  SumFunctionOnSet(f, S) \in Nat
<1> DEFINE G == {s \in SUBSET S : SumFunctionOnSet(f, s) \in Nat}
<1>1. {} \in G
  BY SumOfNone
<1>2. ASSUME NEW s \in SUBSET S, s # {}, \A y \in s : s \ {y} \in G
      PROVE  s \in G
  <2> DEFINE r == s \ {Any(s)}
  <2>1. Any(s) \in s /\ IsFiniteSet(s) /\ Summable(f, s) /\ Summable(f, r)
    BY <1>2, AnyIsOne, FS_Subset, SummableSubset DEF Summable
  <2>2. SumFunctionOnSet(f, s) = f[Any(s)] + SumFunctionOnSet(f, r)
    BY <1>2, <2>1, SumByAny
  <2>3. r \in G
    BY <1>2, <2>1
  <2>4. SumFunctionOnSet(f, r) \in Int /\ f[Any(s)] \in Int
    BY <2>1, SumIsInt DEF Summable
  <2> HIDE DEF r
  <2> QED BY <2>1, <2>2, <2>3, <2>4
<1>3. IsFiniteSet(S)
  BY DEF Summable
<1>4. Inherited(G, S)
  BY <1>2 DEF Inherited
<1> HIDE DEF G
<1>5. S \in G
  BY <1>1, <1>3, <1>4, SubsetInduction
<1> QED BY <1>5 DEF G

LEMMA SumOfZeros ==
    ASSUME NEW f, NEW S, Summable(f, S), \A x \in S : f[x] = 0
    PROVE  SumFunctionOnSet(f, S) = 0
<1> DEFINE G == {s \in SUBSET S : SumFunctionOnSet(f, s) = 0}
<1>1. {} \in G
  BY SumOfNone
<1>2. ASSUME NEW s \in SUBSET S, s # {}, \A y \in s : s \ {y} \in G
      PROVE  s \in G
  <2> DEFINE r == s \ {Any(s)}
  <2>1. Any(s) \in s /\ IsFiniteSet(s) /\ Summable(f, s) /\ Summable(f, r)
    BY <1>2, AnyIsOne, FS_Subset, SummableSubset DEF Summable
  <2>2. SumFunctionOnSet(f, s) = f[Any(s)] + SumFunctionOnSet(f, r)
    BY <1>2, <2>1, SumByAny
  <2>3. r \in G
    BY <1>2, <2>1
  <2>4. SumFunctionOnSet(f, r) \in Int /\ f[Any(s)] \in Int
    BY <2>1, SumIsInt DEF Summable
  <2> HIDE DEF r
  <2> QED BY <2>1, <2>2, <2>3, <2>4
<1>3. IsFiniteSet(S)
  BY DEF Summable
<1>4. Inherited(G, S)
  BY <1>2 DEF Inherited
<1> HIDE DEF G
<1>5. S \in G
  BY <1>1, <1>3, <1>4, SubsetInduction
<1> QED BY <1>5 DEF G

(* A sum splits at any subset, and grows with the set when no value is     *)
(* negative.                                                               *)
LEMMA SumSplits ==
    ASSUME NEW f, NEW S, Summable(f, S), NEW R \in SUBSET S
    PROVE  SumFunctionOnSet(f, S) = SumFunctionOnSet(f, R) + SumFunctionOnSet(f, S \ R)
<1> DEFINE Splits(r) == SumFunctionOnSet(f, S) = SumFunctionOnSet(f, r) + SumFunctionOnSet(f, S \ r)
           G == {r \in SUBSET R : Splits(r)}
<1>1. {} \in G
  <2>1. S \ {} = S /\ SumFunctionOnSet(f, S) \in Int
    BY SumIsInt
  <2>2. SumFunctionOnSet(f, {}) = 0
    BY SumOfNone
  <2> QED BY <2>1, <2>2
<1>2. ASSUME NEW r \in SUBSET R, r # {}, \A y \in r : r \ {y} \in G
      PROVE  r \in G
  <2> DEFINE a == Any(r)
             q == r \ {a}
  <2>1. a \in r /\ q \in G
    BY <1>2, AnyIsOne
  <2>2. Summable(f, r) /\ Summable(f, S \ q) /\ Summable(f, q) /\ Summable(f, S \ r)
    BY SummableSubset
  <2>3. SumFunctionOnSet(f, r) = f[a] + SumFunctionOnSet(f, q)
    BY <2>1, <2>2, SumByElement
  <2>4. SumFunctionOnSet(f, S \ q) = f[a] + SumFunctionOnSet(f, S \ r)
    <3>1. a \in S \ q /\ (S \ q) \ {a} = S \ r
      BY <2>1
    <3>2. SumFunctionOnSet(f, S \ q) = f[a] + SumFunctionOnSet(f, (S \ q) \ {a})
      <4> HIDE DEF q, a
      <4> QED BY <2>2, <3>1, SumByElement
    <3> QED BY <3>1, <3>2
  <2>5. /\ f[a] \in Int /\ SumFunctionOnSet(f, q) \in Int
        /\ SumFunctionOnSet(f, S \ r) \in Int
    BY <2>1, <2>2, SumIsInt DEF Summable
  <2>6. SumFunctionOnSet(f, S) = SumFunctionOnSet(f, q) + SumFunctionOnSet(f, S \ q)
    BY <2>1
  <2> HIDE DEF q, a
  <2> QED BY <2>3, <2>4, <2>5, <2>6
<1>3. IsFiniteSet(R)
  BY FS_Subset DEF Summable
<1>4. Inherited(G, R)
  BY <1>2 DEF Inherited
<1> HIDE DEF G
<1>5. R \in G
  BY <1>1, <1>3, <1>4, SubsetInduction
<1> QED BY <1>5 DEF G

LEMMA SumGrows ==
    ASSUME NEW f, NEW S, Summable(f, S), \A x \in S : f[x] >= 0, NEW R \in SUBSET S
    PROVE  SumFunctionOnSet(f, R) <= SumFunctionOnSet(f, S)
<1>1. Summable(f, R) /\ Summable(f, S \ R)
  BY SummableSubset
<1>2. SumFunctionOnSet(f, R) \in Int
  BY <1>1, SumIsInt
<1>3. SumFunctionOnSet(f, S \ R) \in Nat
  BY <1>1, SumOfNaturals
<1>4. SumFunctionOnSet(f, S) = SumFunctionOnSet(f, R) + SumFunctionOnSet(f, S \ R)
  BY SumSplits
<1> QED BY <1>2, <1>3, <1>4

(* A common factor and a common price come out of a sum.                   *)
Scaled(h, k, f, a, g, S) == \A x \in S : h[x] = k * (f[x] - a * g[x])

LEMMA SumFactors ==
    ASSUME NEW k \in Int, NEW a \in Int, NEW f, NEW g, NEW h, NEW S,
           Summable(f, S), Summable(g, S), Summable(h, S),
           Scaled(h, k, f, a, g, S)
    PROVE  SumFunctionOnSet(h, S) = k * (SumFunctionOnSet(f, S) - a * SumFunctionOnSet(g, S))
<1> DEFINE Factors(s) == SumFunctionOnSet(h, s) = k * (SumFunctionOnSet(f, s) - a * SumFunctionOnSet(g, s))
           G == {s \in SUBSET S : Factors(s)}
<1>1. {} \in G
  BY SumOfNone
<1>2. ASSUME NEW s \in SUBSET S, s # {}, \A y \in s : s \ {y} \in G
      PROVE  s \in G
  <2> DEFINE c == Any(s)
             r == s \ {c}
  <2>1. c \in s /\ c \in S /\ r \in G /\ IsFiniteSet(s)
    BY <1>2, AnyIsOne, FS_Subset DEF Summable
  <2>2. /\ SumFunctionOnSet(f, s) = f[c] + SumFunctionOnSet(f, r)
        /\ SumFunctionOnSet(g, s) = g[c] + SumFunctionOnSet(g, r)
        /\ SumFunctionOnSet(h, s) = h[c] + SumFunctionOnSet(h, r)
    BY <1>2, <2>1, SumByAny
  <2>3. /\ SumFunctionOnSet(f, r) \in Int /\ SumFunctionOnSet(g, r) \in Int
        /\ SumFunctionOnSet(h, r) \in Int
    <3>1. Summable(f, r) /\ Summable(g, r) /\ Summable(h, r)
      BY SummableSubset
    <3> QED BY <3>1, SumIsInt
  <2>4. f[c] \in Int /\ g[c] \in Int /\ h[c] \in Int /\ h[c] = k * (f[c] - a * g[c])
    BY <2>1 DEF Summable, Scaled
  <2>5. SumFunctionOnSet(h, r) = k * (SumFunctionOnSet(f, r) - a * SumFunctionOnSet(g, r))
    BY <2>1
  <2>6. \A x, y, u, v \in Int : k * (x - a * y) + k * (u - a * v) = k * ((x + u) - a * (y + v))
    OBVIOUS
  <2> HIDE DEF r, c
  <2>7. Factors(s)
    BY <2>2, <2>3, <2>4, <2>5, <2>6
  <2> QED BY <2>7
<1>3. IsFiniteSet(S)
  BY DEF Summable
<1>4. Inherited(G, S)
  BY <1>2 DEF Inherited
<1> HIDE DEF G
<1>5. S \in G
  BY <1>1, <1>3, <1>4, SubsetInduction
<1> QED BY <1>5 DEF G

(* Renaming the elements one to one leaves a sum as it is.                 *)
Renames(b, f, S, g, T) ==
    /\ b \in [S -> T]
    /\ \A x, y \in S : x # y => b[x] # b[y]
    /\ \A z \in T : \E x \in S : z = b[x]
    /\ \A x \in S : f[x] = g[b[x]]

LEMMA SumRenamed ==
    ASSUME NEW f, NEW g, NEW S, NEW T, NEW b, Summable(f, S), Summable(g, T),
           Renames(b, f, S, g, T)
    PROVE  SumFunctionOnSet(f, S) = SumFunctionOnSet(g, T)
<1> DEFINE Im(s) == {b[x] : x \in s}
           G == {s \in SUBSET S : SumFunctionOnSet(f, s) = SumFunctionOnSet(g, Im(s))}
<1>1. {} \in G
  <2>1. Im({}) = {}
    OBVIOUS
  <2> QED BY <2>1, SumOfNone
<1>2. ASSUME NEW s \in SUBSET S, s # {}, \A y \in s : s \ {y} \in G
      PROVE  s \in G
  <2> DEFINE c == Any(s)
             r == s \ {c}
  <2>1. c \in s /\ c \in S /\ r \in G /\ IsFiniteSet(s)
    BY <1>2, AnyIsOne, FS_Subset DEF Summable
  <2>2. SumFunctionOnSet(f, s) = f[c] + SumFunctionOnSet(f, r)
    BY <1>2, <2>1, SumByAny
  <2>3. b[c] \in Im(s) /\ Im(s) \ {b[c]} = Im(r) /\ Im(s) \in SUBSET T
    BY <2>1 DEF Renames
  <2>4. Summable(g, Im(s))
    BY <2>3, SummableSubset
  <2>5. SumFunctionOnSet(g, Im(s)) = g[b[c]] + SumFunctionOnSet(g, Im(s) \ {b[c]})
    <3> HIDE DEF Im
    <3> QED BY <2>3, <2>4, SumByElement
  <2>6. SumFunctionOnSet(f, r) = SumFunctionOnSet(g, Im(r))
    BY <2>1
  <2>7. f[c] = g[b[c]]
    BY <2>1 DEF Renames
  <2> HIDE DEF r, c, Im
  <2>8. SumFunctionOnSet(f, s) = SumFunctionOnSet(g, Im(s))
    BY <2>2, <2>3, <2>5, <2>6, <2>7
  <2> QED BY <2>8
<1>3. IsFiniteSet(S) /\ Im(S) = T
  BY DEF Summable, Renames
<1>4. Inherited(G, S)
  BY <1>2 DEF Inherited
<1> HIDE DEF G
<1>5. S \in G
  BY <1>1, <1>3, <1>4, SubsetInduction
<1> QED BY <1>3, <1>5 DEF G

-----------------------------------------------------------------------------
(* The views at or before an instant are the first ones of the stream:     *)
(* counting them gives the position of the last of them.                   *)
LEMMA PrefixIsInterval ==
    ASSUME NEW n \in Nat, NEW P \in SUBSET (1 .. n),
           \A i \in P, j \in 1 .. n : j <= i => j \in P
    PROVE  /\ Cardinality(P) \in 0 .. n
           /\ P = 1 .. Cardinality(P)
<1>1. CASE P = {}
  BY <1>1, FS_EmptySet
<1>2. CASE P # {}
  <2>1. P \in SUBSET (0 .. n)
    OBVIOUS
  <2>2. PICK m \in P : \A k \in P : k <= m
    BY <1>2, <2>1, GreatestExists
  <2>3. P = 1 .. m
    <3>1. m \in 1 .. n /\ \A k \in P : k \in 1 .. n
      BY <2>2
    <3>2. \A k \in 1 .. m : k \in P
      BY <2>2, <3>1
    <3>3. \A k \in P : k \in 1 .. m
      BY <2>2, <3>1
    <3> QED BY <3>2, <3>3
  <2>4. Cardinality(P) = m
    BY <2>3, FS_Interval
  <2> QED BY <2>2, <2>3, <2>4
<1> QED BY <1>1, <1>2

LEMMA FirstOnes ==
    ASSUME NEW k \in Nat
    PROVE  /\ IsFiniteSet(1 .. k) /\ Cardinality(1 .. k) = k
           /\ 1 .. k = {} <=> k = 0
<1>1. 1 .. k = {} <=> k = 0
  OBVIOUS
<1>2. /\ IsFiniteSet(1 .. k)
      /\ Cardinality(1 .. k) = IF 1 > k THEN 0 ELSE k - 1 + 1
  BY FS_Interval
<1>3. Cardinality(1 .. k) = k
  BY <1>2
<1> QED BY <1>1, <1>2, <1>3

LEMMA Narrowed ==
    ASSUME NEW T, NEW q \in Seq(T), NEW S, \A i \in DOMAIN q : q[i] \in S
    PROVE  q \in Seq(S)
OBVIOUS

(* One element more at the end of a sequence.                              *)
LEMMA AppendsOne ==
    ASSUME NEW S, NEW q \in Seq(S), NEW x \in S
    PROVE  /\ Append(q, x) \in Seq(S)
           /\ Len(q) \in Nat /\ DOMAIN q = 1 .. Len(q)
           /\ DOMAIN Append(q, x) = 1 .. Len(q) + 1
           /\ \A i \in 1 .. Len(q) : Append(q, x)[i] = q[i]
           /\ Append(q, x)[Len(q) + 1] = x
           /\ Range(Append(q, x)) = Range(q) \cup {x}
<1>1. /\ Append(q, x) \in Seq(S)
      /\ Len(q) \in Nat /\ DOMAIN q = 1 .. Len(q)
      /\ DOMAIN Append(q, x) = 1 .. Len(q) + 1
      /\ \A i \in 1 .. Len(q) : Append(q, x)[i] = q[i]
      /\ Append(q, x)[Len(q) + 1] = x
  OBVIOUS
<1>2. Range(Append(q, x)) = Range(q) \cup {x}
  BY <1>1 DEF Range
<1> QED BY <1>1, <1>2

-----------------------------------------------------------------------------
(* The pass over the views.  What a window has collected so far is what    *)
(* was received in it, the view it carries is the last one before, and the *)
(* windows handed over are those due that have views.                      *)
Handover == [start : Opening, views : Seq(Nat)]

StreamTypes ==
    /\ next \in 0 .. WindowCount + 1
    /\ seen \in Seq(0 .. Span)
    /\ buffers \in [Opening -> Seq(Nat)]
    /\ carried \in [Opening -> Nat]
    /\ handed \in Seq(Handover)

Ascending == \A i, j \in DOMAIN seen : i <= j => seen[i] <= seen[j]

BuffersHold ==
    \A s \in Opening :
        /\ Range(buffers[s]) = Inside(s)
        /\ \A i, j \in DOMAIN buffers[s] : i < j => buffers[s][i] < buffers[s][j]

CarriesTheOneBefore ==
    \A s \in Opening :
        /\ Inside(s) = {} => carried[s] = 0
        /\ Inside(s) # {} => Before(s) = 1 .. carried[s]

Due == {Starts[i] : i \in 1 .. next - 1}

HandedInOrder ==
    Range(handed) = {[start |-> s, views |-> Views(s)] : s \in {r \in Due : Views(r) # << >>}}

StreamInv ==
    /\ StreamTypes /\ Ascending /\ BuffersHold
    /\ CarriesTheOneBefore /\ HandedInOrder

LEMMA StartsAreInstants ==
    /\ Step \in Nat
    /\ Starts \in [1 .. WindowCount -> Nat]
    /\ Opening \in SUBSET Nat
    /\ \A i \in 1 .. WindowCount : Starts[i] \in Opening
<1>1. Step \in Nat
  <2>1. CASE WindowCount > 1
    <3>1. Span - Duration \in Nat /\ WindowCount - 1 \in Nat \ {0}
      BY <2>1, WindowsAssumption
    <3>2. \A a \in Nat, b \in Nat \ {0} : a \div b \in Nat
      OBVIOUS
    <3> QED BY <2>1, <3>1, <3>2 DEF Step
  <2>2. CASE ~(WindowCount > 1)
    BY <2>2 DEF Step
  <2> QED BY <2>1, <2>2
<1>2. \A i \in 1 .. WindowCount : (i - 1) * Step \in Nat
  <2>1. \A i \in Nat \ {0}, k \in Nat : (i - 1) * k \in Nat
    <3> TAKE i \in Nat \ {0}, k \in Nat
    <3>1. i - 1 \in Nat
      OBVIOUS
    <3>2. \A a, b \in Nat : a * b \in Nat
      OBVIOUS
    <3> QED BY <3>1, <3>2
  <2> QED BY <1>1, <2>1, WindowsAssumption
<1> QED BY <1>1, <1>2 DEF Starts, Opening, Range

(* Where nothing is kept, before the pass and once a window is followed.   *)
Blank == /\ seen = << >> /\ handed = << >> /\ next \in 0 .. WindowCount + 1
         /\ buffers = [s \in Opening |-> << >>]
         /\ carried = [s \in Opening |-> 0]

LEMMA BlankStream == Blank => StreamInv
<1> SUFFICES ASSUME Blank PROVE StreamInv
  OBVIOUS
<1> USE DEF Blank
<1>1. DOMAIN seen = {} /\ Range(handed) = {}
  BY DEF Range
<1>2. \A s \in Opening : buffers[s] = << >> /\ carried[s] = 0 /\ Inside(s) = {}
  BY <1>1 DEF Inside
<1>3. StreamTypes
  BY WindowsAssumption DEF StreamTypes
<1>4. Ascending
  BY <1>1 DEF Ascending
<1>5. BuffersHold
  BY <1>2 DEF BuffersHold, Range
<1>6. CarriesTheOneBefore
  BY <1>2 DEF CarriesTheOneBefore
<1>7. HandedInOrder
  <2>1. Due \in SUBSET Opening
    BY StartsAreInstants, WindowsAssumption DEF Due
  <2>2. \A s \in Due : Views(s) = << >>
    BY <1>2, <2>1 DEF Views
  <2> QED BY <1>1, <2>2 DEF HandedInOrder
<1> QED BY <1>3, <1>4, <1>5, <1>6, <1>7 DEF StreamInv

(* A view that arrives is kept by the windows it falls in; the first one a *)
(* window keeps makes it carry the view before.                            *)
LEMMA TakeKeepsStream ==
    ASSUME StreamInv, NEW t \in 0 .. Span, Take(t)
    PROVE  StreamInv'
<1> USE DEF StreamInv
<1> DEFINE n == Len(seen) + 1
<1>1. /\ next = 0 /\ next' = 0 /\ handed' = handed
      /\ \A i \in DOMAIN seen : seen[i] <= t
      /\ Len(seen') = n /\ n \in Nat /\ DOMAIN seen = 1 .. n - 1 /\ DOMAIN seen' = 1 .. n
      /\ seen' \in Seq(0 .. Span) /\ seen'[n] = t
      /\ \A i \in 1 .. n - 1 : seen'[i] = seen[i] /\ seen[i] \in Nat
  <2>1. /\ next = 0 /\ next' = 0 /\ handed' = handed /\ seen' = Append(seen, t)
        /\ \A i \in DOMAIN seen : seen[i] <= t
    BY DEF Take
  <2>2. seen \in Seq(0 .. Span) /\ t \in 0 .. Span
    BY DEF StreamTypes
  <2>3. /\ seen' \in Seq(0 .. Span)
        /\ Len(seen) \in Nat /\ DOMAIN seen = 1 .. Len(seen)
        /\ DOMAIN seen' = 1 .. n
        /\ \A i \in 1 .. Len(seen) : seen'[i] = seen[i]
        /\ seen'[n] = t
    BY <2>1, <2>2, AppendsOne
  <2>4. Len(seen') = n
    BY <2>1, <2>2
  <2>5. \A i \in 1 .. n - 1 : seen[i] \in Nat
    BY <2>2, <2>3, WindowsAssumption
  <2> QED BY <2>1, <2>3, <2>4, <2>5
<1>2. ASSUME NEW s \in Opening
      PROVE  /\ s \in Nat /\ s + Duration \in Nat
             /\ s \in OpenAt(t) <=> (s <= t /\ t <= s + Duration)
             /\ Inside(s)' = IF s \in OpenAt(t) THEN Inside(s) \cup {n} ELSE Inside(s)
             /\ Before(s)' = IF t < s THEN Before(s) \cup {n} ELSE Before(s)
             /\ buffers'[s] = IF s \in OpenAt(t) THEN Append(buffers[s], n) ELSE buffers[s]
             /\ carried'[s] = IF s \in OpenAt(t) /\ buffers[s] = << >> THEN n - 1 ELSE carried[s]
             /\ buffers[s] \in Seq(Nat) /\ carried[s] \in Nat
             /\ \A i \in Inside(s) : i \in 1 .. n - 1
  <2>1. s \in Nat /\ s + Duration \in Nat
    BY StartsAreInstants, WindowsAssumption
  <2>2. s \in OpenAt(t) <=> (s <= t /\ t <= s + Duration)
    BY DEF OpenAt
  <2>3. Inside(s)' = IF s \in OpenAt(t) THEN Inside(s) \cup {n} ELSE Inside(s)
    BY <1>1, <2>2 DEF Inside
  <2>4. Before(s)' = IF t < s THEN Before(s) \cup {n} ELSE Before(s)
    BY <1>1 DEF Before
  <2>5. buffers'[s] = IF s \in OpenAt(t) THEN Append(buffers[s], n) ELSE buffers[s]
    BY <1>1 DEF Take
  <2>6. carried'[s] = IF s \in OpenAt(t) /\ buffers[s] = << >> THEN n - 1 ELSE carried[s]
    BY <1>1 DEF Take, LastView
  <2>7. buffers[s] \in Seq(Nat) /\ carried[s] \in Nat
    BY DEF StreamTypes
  <2>8. \A i \in Inside(s) : i \in 1 .. n - 1
    BY <1>1 DEF Inside
  <2> QED BY <2>1, <2>2, <2>3, <2>4, <2>5, <2>6, <2>7, <2>8
<1>3. StreamTypes'
  <2>1. buffers' \in [Opening -> Seq(Nat)]
    <3>1. ASSUME NEW s \in Opening PROVE buffers'[s] \in Seq(Nat)
      <4>1. buffers[s] \in Seq(Nat) /\ n \in Nat
        BY <1>1, <1>2
      <4>2. Append(buffers[s], n) \in Seq(Nat)
        BY <4>1, AppendsOne
      <4> QED BY <1>2, <4>1, <4>2
    <3> QED BY <3>1 DEF Take
  <2>2. carried' \in [Opening -> Nat]
    <3>1. \A s \in Opening : carried'[s] \in Nat
      BY <1>1, <1>2
    <3> QED BY <3>1 DEF Take
  <2> QED BY <1>1, <2>1, <2>2 DEF StreamTypes
<1>4. Ascending'
  <2>1. \A i \in 1 .. n - 1 : seen[i] <= t
    BY <1>1
  <2>2. \A i, j \in 1 .. n : i <= j => seen'[i] <= seen'[j]
    <3> SUFFICES ASSUME NEW i \in 1 .. n, NEW j \in 1 .. n, i <= j
                 PROVE  seen'[i] <= seen'[j]
      OBVIOUS
    <3>1. CASE j = n
      BY <1>1, <2>1, <3>1
    <3>2. CASE j # n
      <4>1. i \in 1 .. n - 1 /\ j \in 1 .. n - 1
        BY <1>1, <3>2
      <4> QED BY <1>1, <4>1 DEF Ascending
    <3> QED BY <3>1, <3>2
  <2> QED BY <1>1, <2>2 DEF Ascending
<1>5. BuffersHold'
  <2> SUFFICES ASSUME NEW s \in Opening
               PROVE  /\ Range(buffers'[s]) = Inside(s)'
                      /\ \A i, j \in DOMAIN buffers'[s] : i < j => buffers'[s][i] < buffers'[s][j]
    BY DEF BuffersHold
  <2> DEFINE b == buffers[s]
  <2>1. /\ b \in Seq(Nat) /\ Range(b) = Inside(s)
        /\ \A i, j \in DOMAIN b : i < j => b[i] < b[j]
    BY <1>2 DEF BuffersHold
  <2>2. CASE s \notin OpenAt(t)
    BY <1>2, <2>1, <2>2
  <2>3. CASE s \in OpenAt(t)
    <3>1. buffers'[s] = Append(b, n)
      BY <1>2, <2>3
    <3> DEFINE c == Append(b, n)
    <3>2. /\ DOMAIN c = 1 .. Len(b) + 1 /\ DOMAIN b = 1 .. Len(b) /\ Len(b) \in Nat
          /\ \A i \in 1 .. Len(b) : c[i] = b[i]
          /\ c[Len(b) + 1] = n /\ n \in Nat
          /\ Range(c) = Range(b) \cup {n}
      <4>1. n \in Nat
        BY <1>1
      <4> HIDE DEF n
      <4> QED BY <2>1, <4>1, AppendsOne
    <3>3. \A i \in DOMAIN b : b[i] \in 1 .. n - 1
      BY <1>2, <2>1 DEF Range
    <3> HIDE DEF n, b, c
    <3>4. ASSUME NEW i \in 1 .. Len(b) + 1, NEW j \in 1 .. Len(b) + 1, i < j
          PROVE  c[i] < c[j]
      <4>1. i \in 1 .. Len(b) /\ c[i] = b[i] /\ b[i] \in 1 .. n - 1
        BY <3>2, <3>3, <3>4
      <4>2. CASE j = Len(b) + 1
        BY <3>2, <4>1, <4>2
      <4>3. CASE j # Len(b) + 1
        <5>1. j \in 1 .. Len(b) /\ c[j] = b[j]
          BY <3>2, <4>3
        <5> QED BY <2>1, <3>2, <3>4, <4>1, <5>1
      <4> QED BY <4>2, <4>3
    <3>5. Range(c) = Inside(s)'
      BY <1>2, <2>1, <2>3, <3>2 DEF n, b
    <3>6. buffers'[s] = c
      BY <3>1 DEF c
    <3> QED BY <3>2, <3>4, <3>5, <3>6
  <2> QED BY <2>2, <2>3
<1>6. CarriesTheOneBefore'
  <2> SUFFICES ASSUME NEW s \in Opening
               PROVE  /\ Inside(s)' = {} => carried'[s] = 0
                      /\ Inside(s)' # {} => Before(s)' = 1 .. carried'[s]
    BY DEF CarriesTheOneBefore
  <2>1. buffers[s] = << >> <=> Inside(s) = {}
    <3>1. Range(buffers[s]) = Inside(s) /\ buffers[s] \in Seq(Nat)
      BY <1>2 DEF BuffersHold
    <3>2. ASSUME NEW b \in Seq(Nat) PROVE b = << >> <=> Range(b) = {}
      <4>1. b = << >> <=> DOMAIN b = {}
        <5>1. Len(b) \in Nat /\ DOMAIN b = 1 .. Len(b)
          OBVIOUS
        <5>2. b = << >> <=> Len(b) = 0
          BY EmptySeq
        <5>3. \A k \in Nat : 1 .. k = {} <=> k = 0
          OBVIOUS
        <5> QED BY <5>1, <5>2, <5>3
      <4> QED BY <4>1 DEF Range
    <3> QED BY <3>1, <3>2
  <2>2. CASE s \in OpenAt(t) /\ Inside(s) = {}
    <3>1. carried'[s] = n - 1 /\ Inside(s)' # {} /\ Before(s)' = Before(s)
      BY <1>1, <1>2, <2>1, <2>2
    <3>2. \A i \in 1 .. n - 1 : seen[i] < s
      <4> TAKE i \in 1 .. n - 1
      <4>1. seen[i] <= t /\ t <= s + Duration /\ seen[i] \in Nat
        BY <1>1, <1>2, <2>2
      <4>2. ~(s <= seen[i] /\ seen[i] <= s + Duration)
        BY <1>1, <2>2 DEF Inside
      <4> QED BY <1>2, <4>1, <4>2
    <3>3. Before(s) = 1 .. n - 1
      BY <1>1, <3>2 DEF Before
    <3> QED BY <3>1, <3>3
  <2>3. CASE s \in OpenAt(t) /\ Inside(s) # {}
    <3>1. carried'[s] = carried[s] /\ Before(s)' = Before(s)
      BY <1>1, <1>2, <2>1, <2>3
    <3>2. Before(s) = 1 .. carried[s]
      BY <2>3 DEF CarriesTheOneBefore
    <3>3. Inside(s)' # {}
      BY <1>2, <2>3
    <3> QED BY <3>1, <3>2, <3>3
  <2>4. CASE s \notin OpenAt(t)
    <3>1. carried'[s] = carried[s] /\ Inside(s)' = Inside(s)
      BY <1>2, <2>4
    <3>2. CASE Inside(s) = {}
      BY <3>1, <3>2 DEF CarriesTheOneBefore
    <3>3. CASE Inside(s) # {}
      <4>1. PICK i \in DOMAIN seen : s <= seen[i]
        BY <3>3 DEF Inside
      <4>2. ~(t < s)
        BY <1>1, <1>2, <4>1
      <4> QED BY <1>2, <3>1, <3>3, <4>2 DEF CarriesTheOneBefore
    <3> QED BY <3>2, <3>3
  <2> QED BY <2>2, <2>3, <2>4
<1>7. HandedInOrder'
  <2>1. Due = {} /\ Due' = {}
    BY <1>1 DEF Due
  <2> QED BY <1>1, <2>1 DEF HandedInOrder
<1> QED BY <1>3, <1>4, <1>5, <1>6, <1>7

LEMMA StreamEndsKeepsStream ==
    ASSUME StreamInv, StreamEnds
    PROVE  StreamInv'
<1> USE DEF StreamInv
<1>1. /\ next = 0 /\ next' = 1 /\ seen' = seen /\ buffers' = buffers
      /\ carried' = carried /\ handed' = handed /\ Due = {} /\ Due' = {}
  BY DEF StreamEnds, Due
<1>2. StreamTypes' /\ Ascending'
  BY <1>1, WindowsAssumption DEF StreamTypes, Ascending
<1>3. BuffersHold' /\ CarriesTheOneBefore'
  BY <1>1 DEF BuffersHold, CarriesTheOneBefore, Inside, Before
<1>4. HandedInOrder'
  BY <1>1 DEF HandedInOrder
<1> QED BY <1>2, <1>3, <1>4

LEMMA HandOverKeepsStream ==
    ASSUME StreamInv, HandOver
    PROVE  StreamInv'
<1> USE DEF StreamInv
<1> DEFINE s == Starts[next]
           e == [start |-> s, views |-> Views(s)]
<1>1. /\ next \in 1 .. WindowCount /\ next' = next + 1 /\ seen' = seen
      /\ buffers' = buffers /\ carried' = carried
      /\ handed' = IF Views(s) = << >> THEN handed ELSE Append(handed, e)
  BY DEF HandOver
<1> HIDE DEF e
<1>2. e \in Handover
  <2>1. buffers[s] \in Seq(Nat) /\ carried[s] \in Nat /\ s \in Opening
    BY <1>1, StartsAreInstants DEF StreamTypes
  <2>2. <<carried[s]>> \in Seq(Nat)
    BY <2>1
  <2>3. Views(s) \in Seq(Nat)
    BY <2>1, <2>2, ConcatProperties DEF Views
  <2> QED BY <2>1, <2>3 DEF Handover, e
<1>5. StreamTypes' /\ Ascending'
  <2>1. handed' \in Seq(Handover)
    BY <1>1, <1>2, AppendsOne DEF StreamTypes
  <2> QED BY <1>1, <2>1, WindowsAssumption DEF StreamTypes, Ascending
<1>3. BuffersHold' /\ CarriesTheOneBefore'
  BY <1>1 DEF BuffersHold, CarriesTheOneBefore, Inside, Before
<1>4. HandedInOrder'
  <2>1. Due' = Due \cup {s}
    <3>1. 1 .. next' - 1 = (1 .. next - 1) \cup {next}
      BY <1>1
    <3> QED BY <3>1 DEF Due
  <2>2. \A r : Views(r)' = Views(r)
    BY <1>1 DEF Views
  <2>3. Range(handed') = IF Views(s) = << >> THEN Range(handed) ELSE Range(handed) \cup {e}
    <3>1. CASE Views(s) = << >>
      BY <1>1, <3>1
    <3>2. CASE Views(s) # << >>
      <4>1. handed \in Seq(Handover) /\ e \in Handover
        BY <1>2 DEF StreamTypes
      <4> QED BY <1>1, <3>2, <4>1, AppendsOne
    <3> QED BY <3>1, <3>2
  <2> QED BY <2>1, <2>2, <2>3 DEF HandedInOrder, e
<1> QED BY <1>3, <1>4, <1>5

(* What a window is handed: the views received in it behind the last one   *)
(* before it, or nothing when none was received in it.                     *)
LEMMA ViewsOfAWindow ==
    ASSUME StreamInv, NEW s \in Opening
    PROVE  /\ Views(s) \in Seq(DOMAIN seen)
           /\ Views(s) = << >> <=> Inside(s) = {}
           /\ Inside(s) # {} =>
                 Range(Views(s)) = Inside(s) \cup (IF Before(s) = {} THEN {} ELSE {Cardinality(Before(s))})
           /\ \A i, j \in DOMAIN Views(s) : i < j => Views(s)[i] < Views(s)[j]
           /\ \A i \in DOMAIN Views(s) : seen[Views(s)[i]] <= s + Duration
<1> USE DEF StreamInv
<1> DEFINE b == buffers[s]
           c == carried[s]
           n == Len(seen)
<1>1. /\ b \in Seq(Nat) /\ c \in Nat /\ n \in Nat /\ DOMAIN seen = 1 .. n
      /\ Range(b) = Inside(s) /\ Inside(s) \in SUBSET (1 .. n)
      /\ \A i, j \in DOMAIN b : i < j => b[i] < b[j]
      /\ Inside(s) = {} => c = 0
      /\ Inside(s) # {} => Before(s) = 1 .. c
      /\ Views(s) = IF c # 0 THEN <<c>> \o b ELSE b
      /\ Before(s) \in SUBSET (1 .. n)
  <2>1. b \in Seq(Nat) /\ c \in Nat
    BY DEF StreamTypes
  <2>2. n \in Nat /\ DOMAIN seen = 1 .. n
    BY DEF StreamTypes
  <2>3. Inside(s) \in SUBSET (1 .. n) /\ Before(s) \in SUBSET (1 .. n)
    BY <2>2 DEF Inside, Before
  <2>4. Range(b) = Inside(s) /\ \A i, j \in DOMAIN b : i < j => b[i] < b[j]
    BY DEF BuffersHold
  <2>5. (Inside(s) = {} => c = 0) /\ (Inside(s) # {} => Before(s) = 1 .. c)
    BY DEF CarriesTheOneBefore
  <2> QED BY <2>1, <2>2, <2>3, <2>4, <2>5 DEF Views
<1>2. Inside(s) \cap Before(s) = {} /\ \A i \in Inside(s) : i > c
  <2>1. \A i \in Inside(s) : i \notin Before(s)
    <3> TAKE i \in Inside(s)
    <3>1. s <= seen[i] /\ seen[i] \in Nat /\ s \in Nat
      <4>1. \A x \in DOMAIN seen : seen[x] \in Nat
        BY WindowsAssumption DEF StreamTypes
      <4>2. s \in Nat
        BY StartsAreInstants
      <4> QED BY <4>1, <4>2 DEF Inside
    <3> QED BY <3>1 DEF Before
  <2> QED BY <1>1, <2>1
<1> HIDE DEF b, c, n
<1>3. DOMAIN b = 1 .. Len(b) /\ Len(b) \in Nat /\ \A i \in 1 .. Len(b) : b[i] \in Inside(s)
  BY <1>1 DEF Range
<1>4. CASE Inside(s) = {}
  <2>1. b = << >>
    <3>1. Len(b) = 0
      BY <1>3, <1>4
    <3> QED BY <1>1, <3>1, EmptySeq
  <2>2. Views(s) = << >>
    BY <1>1, <1>4, <2>1
  <2> QED BY <1>4, <2>2
<1>6. \A i \in Inside(s) \cup Before(s) : seen[i] <= s + Duration
  <2>1. \A i \in 1 .. n : seen[i] \in Nat
    BY <1>1, WindowsAssumption DEF StreamTypes
  <2>2. s \in Nat /\ Duration \in Nat
    BY StartsAreInstants, WindowsAssumption
  <2> QED BY <1>1, <2>1, <2>2 DEF Inside, Before
<1>5. CASE Inside(s) # {}
  <2>1. Cardinality(Before(s)) = c /\ (Before(s) = {} <=> c = 0)
    <3>1. Before(s) = 1 .. c
      BY <1>1, <1>5
    <3>2. Cardinality(1 .. c) = c /\ (1 .. c = {} <=> c = 0)
      BY <1>1, FirstOnes
    <3> QED BY <3>1, <3>2
  <2>2. Len(b) > 0
    BY <1>1, <1>3, <1>5 DEF Range
  <2>3. CASE c = 0
    <3>1. Views(s) = b
      BY <1>1, <2>3
    <3>2. b \in Seq(1 .. n)
      BY <1>1, <1>3
    <3>3. b # << >>
      BY <2>2
    <3>4. \A i \in DOMAIN b : seen[b[i]] <= s + Duration
      BY <1>3, <1>6
    <3> QED BY <1>1, <1>5, <2>1, <2>3, <3>1, <3>2, <3>3, <3>4
  <2>4. CASE c # 0
    <3> DEFINE v == <<c>> \o b
    <3>1. Views(s) = v
      BY <1>1, <2>4
    <3>2. /\ DOMAIN v = 1 .. Len(b) + 1 /\ v[1] = c
          /\ \A i \in 2 .. Len(b) + 1 : v[i] = b[i - 1]
          /\ v \in Seq(Nat)
      <4>1. <<c>> \in Seq(Nat) /\ Len(<<c>>) = 1 /\ <<c>>[1] = c
        BY <1>1
      <4>2. /\ v \in Seq(Nat) /\ Len(v) = 1 + Len(b)
            /\ \A i \in 1 .. 1 + Len(b) : v[i] = IF i <= 1 THEN <<c>>[i] ELSE b[i - 1]
        <5>1. <<c>> \in Seq(Nat) /\ b \in Seq(Nat)
          BY <1>1
        <5> QED BY <4>1, <5>1, ConcatProperties
      <4> HIDE DEF v
      <4>3. DOMAIN v = 1 .. Len(v)
        BY <4>2
      <4> QED BY <1>3, <4>1, <4>2, <4>3
    <3> HIDE DEF v
    <3>3. Range(v) = Range(b) \cup {c}
      <4>1. \A i \in 1 .. Len(b) : v[i + 1] = b[i] /\ i + 1 \in DOMAIN v
        BY <1>3, <3>2
      <4>2. 1 \in DOMAIN v
        BY <1>3, <3>2
      <4>3. \A i \in DOMAIN v : i = 1 \/ (i - 1 \in 1 .. Len(b) /\ v[i] = b[i - 1])
        BY <1>3, <3>2
      <4>4. Range(v) \subseteq Range(b) \cup {c}
        BY <1>3, <3>2, <4>3 DEF Range
      <4>5. Range(b) \subseteq Range(v)
        BY <1>3, <4>1 DEF Range
      <4>6. c \in Range(v)
        BY <3>2, <4>2 DEF Range
      <4> QED BY <4>4, <4>5, <4>6
    <3>4. \A i, j \in DOMAIN v : i < j => v[i] < v[j]
      <4> SUFFICES ASSUME NEW i \in DOMAIN v, NEW j \in DOMAIN v, i < j
                   PROVE  v[i] < v[j]
        OBVIOUS
      <4>1. j - 1 \in 1 .. Len(b) /\ v[j] = b[j - 1]
        BY <1>3, <3>2
      <4>2. CASE i = 1
        BY <1>2, <1>3, <3>2, <4>1, <4>2
      <4>3. CASE i # 1
        <5>1. i - 1 \in 1 .. Len(b) /\ v[i] = b[i - 1] /\ i - 1 < j - 1
          BY <1>3, <3>2, <4>3
        <5> QED BY <1>1, <1>3, <4>1, <5>1
      <4> QED BY <4>2, <4>3
    <3>5. c \in 1 .. n
      BY <1>1, <1>5, <2>4
    <3>6. v \in Seq(1 .. n)
      <4>1. \A i \in DOMAIN v : v[i] \in Range(b) \cup {c}
        BY <3>3 DEF Range
      <4>2. \A i \in DOMAIN v : v[i] \in 1 .. n
        BY <1>1, <3>5, <4>1
      <4> QED BY <3>2, <4>2, Narrowed
    <3>7. v # << >>
      BY <1>3, <3>2
    <3>8. \A i \in DOMAIN v : seen[v[i]] <= s + Duration
      <4>1. \A i \in DOMAIN v : v[i] \in Range(b) \cup {c}
        BY <3>3 DEF Range
      <4>2. c \in Before(s)
        BY <1>1, <1>5, <2>4
      <4> QED BY <1>1, <1>6, <4>1, <4>2
    <3> QED BY <1>1, <1>5, <2>1, <2>4, <3>1, <3>3, <3>4, <3>6, <3>7, <3>8
  <2> QED BY <2>3, <2>4
<1> QED BY <1>4, <1>5

LEMMA StreamInvImplies == StreamInv => SeesItsViews
<1> SUFFICES ASSUME StreamInv PROVE SeesItsViews
  OBVIOUS
<1>1. Due \in SUBSET Opening
  <2>1. \A i \in 1 .. next - 1 : i \in 1 .. WindowCount
    BY WindowsAssumption DEF StreamInv, StreamTypes
  <2> QED BY <2>1, StartsAreInstants DEF Due
<1>2. \A s \in Due : Views(s) = << >> <=> Inside(s) = {}
  BY <1>1, ViewsOfAWindow
<1>3. ASSUME NEW e \in Range(handed)
      PROVE  /\ e.start \in Due /\ e.start \in Opening
             /\ Inside(e.start) # {} /\ e.views = Views(e.start)
  <2>1. PICK s \in Due : Views(s) # << >> /\ e = [start |-> s, views |-> Views(s)]
    BY DEF StreamInv, HandedInOrder
  <2> QED BY <1>1, <1>2, <2>1
<1>4. \A e \in Range(handed) :
          Range(e.views) = Inside(e.start) \cup (IF Before(e.start) = {} THEN {} ELSE {Cardinality(Before(e.start))})
  BY <1>3, ViewsOfAWindow
<1>5. \A e \in Range(handed), i, j \in 1 .. MaxStream :
          {i, j} \subseteq DOMAIN e.views /\ i < j => e.views[i] < e.views[j]
  <2> TAKE e \in Range(handed), i, j \in 1 .. MaxStream
  <2>1. \A x, y \in DOMAIN Views(e.start) : x < y => Views(e.start)[x] < Views(e.start)[y]
    BY <1>3, ViewsOfAWindow
  <2> QED BY <1>3, <2>1
<1>6. {e.start : e \in Range(handed)} = {s \in Due : Inside(s) # {}}
  <2>1. \A s \in Due : Inside(s) # {} => [start |-> s, views |-> Views(s)] \in Range(handed)
    BY <1>2 DEF StreamInv, HandedInOrder
  <2>2. \A s : [start |-> s, views |-> Views(s)].start = s
    OBVIOUS
  <2>3. \A s \in Due : Inside(s) # {} => \E e \in Range(handed) : s = e.start
    BY <2>1, <2>2
  <2> QED BY <1>3, <2>3
<1> QED BY <1>4, <1>5, <1>6 DEF SeesItsViews, Due

-----------------------------------------------------------------------------
(* Walking one side of a book.                                             *)
LEMMA BetterIsStrict ==
    ASSUME NEW s \in Side, NEW p \in Price, NEW q \in Price
    PROVE  /\ ~Better(s, p, p)
           /\ Better(s, p, q) => ~Better(s, q, p)
           /\ p # q => Better(s, p, q) \/ Better(s, q, p)
           /\ \A r \in Price : Better(s, p, q) /\ Better(s, q, r) => Better(s, p, r)
BY BookAssumption DEF Better, Price, Side

LEMMA EndsOfPrices ==
    ASSUME NEW s \in Side, NEW P \in SUBSET Price, P # {}
    PROVE  /\ \E p \in P : \A q \in P \ {p} : Better(s, p, q)
           /\ \E p \in P : \A q \in P \ {p} : Better(s, q, p)
<1>1. P \in SUBSET (0 .. MaxTick) /\ P \in SUBSET Nat /\ MaxTick \in Nat
  BY BookAssumption DEF Price
<1>2. PICK low \in P : \A q \in P : low <= q
  BY <1>1, LeastExists
<1>3. PICK high \in P : \A q \in P : q <= high
  BY <1>1, GreatestExists
<1>4. /\ \A q \in P \ {low} : q > low
      /\ \A q \in P \ {high} : q < high
  BY <1>1, <1>2, <1>3
<1>5. CASE s = "bid"
  BY <1>4, <1>5 DEF Better
<1>6. CASE s = "ask"
  BY <1>4, <1>6 DEF Better
<1> QED BY <1>5, <1>6 DEF Side

(* BestFirst lists a set of prices, every one once.                        *)
Ordered(s, ps) == \A i, j \in DOMAIN ps : i < j => Better(s, ps[i], ps[j])

LEMMA PricesFinite ==
    ASSUME NEW P \in SUBSET Price
    PROVE  IsFiniteSet(P) /\ Cardinality(P) \in Nat
<1>1. IsFiniteSet(Price)
  BY BookAssumption, FS_Interval DEF Price
<1>2. IsFiniteSet(P)
  BY <1>1, FS_Subset
<1> QED BY <1>2, FS_CardinalityType

LEMMA OrderExists ==
    ASSUME NEW s \in Side, NEW P \in SUBSET Price
    PROVE  \E ps \in [1 .. Cardinality(P) -> P] : Ordered(s, ps)
<1> DEFINE G == {T \in SUBSET P : \E ps \in [1 .. Cardinality(T) -> T] : Ordered(s, ps)}
<1>1. {} \in G
  <2>1. 1 .. Cardinality({}) = {}
    BY FS_EmptySet
  <2>2. << >> \in [{} -> {}] /\ Ordered(s, << >>)
    BY DEF Ordered
  <2> QED BY <2>1, <2>2
<1>2. ASSUME NEW T \in SUBSET P, T # {}, \A x \in T : T \ {x} \in G
      PROVE  T \in G
  <2> DEFINE n == Cardinality(T)
  <2>1. PICK w \in T : \A q \in T \ {w} : Better(s, q, w)
    BY <1>2, EndsOfPrices
  <2> DEFINE R == T \ {w}
  <2>2. n \in Nat /\ Cardinality(R) = n - 1 /\ n - 1 \in Nat
    <3>1. T \in SUBSET Price /\ R \in SUBSET Price
      OBVIOUS
    <3>2. IsFiniteSet(T) /\ n \in Nat /\ Cardinality(R) \in Nat
      BY <3>1, PricesFinite
    <3>3. Cardinality(R) = n - 1
      BY <3>2, FS_RemoveElement
    <3> QED BY <3>2, <3>3
  <2>3. PICK ps \in [1 .. n - 1 -> R] : Ordered(s, ps)
    BY <1>2, <2>2
  <2> DEFINE qs == [i \in 1 .. n |-> IF i = n THEN w ELSE ps[i]]
  <2>4. \A i \in 1 .. n : i = n \/ i \in 1 .. n - 1
    BY <2>2
  <2>5. qs \in [1 .. n -> T]
    BY <2>3, <2>4
  <2>6. Ordered(s, qs)
    <3> SUFFICES ASSUME NEW i \in 1 .. n, NEW j \in 1 .. n, i < j
                 PROVE  Better(s, qs[i], qs[j])
      BY DEF Ordered
    <3>1. i \in 1 .. n - 1 /\ i # n
      BY <2>2
    <3>2. CASE j = n
      BY <2>1, <2>3, <3>1, <3>2
    <3>3. CASE j # n
      <4>1. j \in 1 .. n - 1
        BY <2>4, <3>3
      <4> QED BY <2>3, <3>1, <3>3, <4>1 DEF Ordered
    <3> QED BY <3>2, <3>3
  <2> QED BY <2>5, <2>6
<1>3. IsFiniteSet(P)
  BY PricesFinite
<1>4. Inherited(G, P)
  BY <1>2 DEF Inherited
<1> HIDE DEF G
<1>5. P \in G
  BY <1>1, <1>3, <1>4, SubsetInduction
<1> QED BY <1>5 DEF G

LEMMA BestFirstLists ==
    ASSUME NEW s \in Side, NEW P \in SUBSET Price, NEW ps, ps = BestFirst(s, P)
    PROVE  /\ ps \in [1 .. Cardinality(P) -> P]
           /\ \A i, j \in 1 .. Cardinality(P) : i < j => Better(s, ps[i], ps[j])
           /\ \A i, j \in 1 .. Cardinality(P) : i # j => ps[i] # ps[j]
           /\ \A p \in P : \E i \in 1 .. Cardinality(P) : p = ps[i]
<1> DEFINE n == Cardinality(P)
<1>1. n \in Nat /\ IsFiniteSet(P) /\ IsFiniteSet(1 .. n) /\ Cardinality(1 .. n) = n
  BY PricesFinite, FirstOnes
<1>2. ps \in [1 .. n -> P] /\ Ordered(s, ps)
  BY OrderExists DEF BestFirst, Ordered
<1>3. \A i, j \in 1 .. n : i < j => Better(s, ps[i], ps[j])
  BY <1>2 DEF Ordered
<1>4. \A i, j \in 1 .. n : i # j => ps[i] # ps[j]
  <2> TAKE i, j \in 1 .. n
  <2>1. ps[i] \in Price /\ ps[j] \in Price
    BY <1>2
  <2>2. i # j => i < j \/ j < i
    OBVIOUS
  <2> QED BY <1>3, <2>1, <2>2, BetterIsStrict
<1>5. ps \in Injection(1 .. n, P)
  BY <1>2, <1>4 DEF Injection, IsInjective
<1>6. ps \in Surjection(1 .. n, P)
  BY <1>1, <1>5, FS_Injection
<1>7. \A p \in P : \E i \in 1 .. n : p = ps[i]
  BY <1>6 DEF Surjection
<1> QED BY <1>2, <1>3, <1>4, <1>7

(* What a walk takes from each level, and in all.                          *)
Ahead(s, p) == {q \in Price : Better(s, q, p)}

LEMMA WalkTakes ==
    ASSUME NEW s \in Side, NEW levels \in [Price -> Nat], NEW need \in Nat,
           NEW taken, taken = Walked(levels, s, need)
    PROVE  /\ taken \in [Price -> Nat]
           /\ Summable(taken, Price) /\ Summable(levels, Price)
           /\ \A p \in Price : LET ahead == SumFunctionOnSet(levels, Ahead(s, p)) IN
                 /\ ahead \in Nat
                 /\ taken[p] <= levels[p]
                 /\ taken[p] > 0 => ahead + taken[p] <= need
                 /\ taken[p] < levels[p] => need <= ahead + taken[p]
           /\ \A p, q \in Price : taken[p] > 0 /\ Better(s, q, p) => taken[q] = levels[q]
<1> DEFINE ahead(p) == SumFunctionOnSet(levels, Ahead(s, p))
<1>1. Summable(levels, Price) /\ \A p \in Price : levels[p] >= 0
  BY PricesFinite DEF Summable
<1>2. ASSUME NEW p \in Price PROVE ahead(p) \in Nat
  <2>1. Ahead(s, p) \in SUBSET Price
    BY DEF Ahead
  <2> QED BY <1>1, <2>1, SummableSubset, SumOfNaturals
<1>3. ASSUME NEW p \in Price
      PROVE  taken[p] = Least2(levels[p], Beyond(need, ahead(p)))
  BY DEF Walked, Ahead
<1> HIDE DEF ahead
<1>4. ASSUME NEW p \in Price
      PROVE  /\ taken[p] \in Nat /\ taken[p] <= levels[p]
             /\ taken[p] > 0 => ahead(p) + taken[p] <= need
             /\ taken[p] < levels[p] => need <= ahead(p) + taken[p]
             /\ levels[p] < need - ahead(p) => taken[p] = levels[p]
             /\ taken[p] > 0 => need > ahead(p)
  <2>1. ahead(p) \in Nat /\ levels[p] \in Nat
    BY <1>2
  <2> QED BY <1>3, <2>1 DEF Least2, Beyond
<1>5. taken \in [Price -> Nat]
  BY <1>4 DEF Walked
<1>6. ASSUME NEW p \in Price, NEW q \in Price, taken[p] > 0, Better(s, q, p)
      PROVE  taken[q] = levels[q]
  <2> DEFINE A == Ahead(s, q) \cup {q}
  <2>1. A \in SUBSET Ahead(s, p) /\ q \in A /\ A \ {q} = Ahead(s, q) /\ A \in SUBSET Price
    BY <1>6, BetterIsStrict DEF Ahead
  <2>2. Summable(levels, Ahead(s, p)) /\ Summable(levels, A)
    <3>1. Ahead(s, p) \in SUBSET Price
      BY DEF Ahead
    <3> QED BY <1>1, <2>1, <3>1, SummableSubset
  <2>3. SumFunctionOnSet(levels, A) = levels[q] + SumFunctionOnSet(levels, A \ {q})
    <3> HIDE DEF A
    <3> QED BY <2>1, <2>2, SumByElement
  <2>4. SumFunctionOnSet(levels, A) <= SumFunctionOnSet(levels, Ahead(s, p))
    <3>1. \A x \in Ahead(s, p) : levels[x] >= 0
      BY DEF Ahead
    <3> HIDE DEF A
    <3> QED BY <2>1, <2>2, <3>1, SumGrows
  <2>5. levels[q] + ahead(q) <= ahead(p)
    BY <2>1, <2>3, <2>4 DEF ahead
  <2>6. need > ahead(p)
    BY <1>4, <1>6
  <2>7. levels[q] < need - ahead(q)
    BY <1>2, <2>5, <2>6
  <2> QED BY <1>4, <2>7
<1>7. Summable(taken, Price)
  BY <1>1, <1>5 DEF Summable
<1> QED BY <1>1, <1>2, <1>4, <1>5, <1>6, <1>7 DEF ahead

(* A walk takes no more than is needed, and less only when it empties the  *)
(* side.                                                                   *)
LEMMA WalkStops ==
    ASSUME NEW s \in Side, NEW levels \in [Price -> Nat], NEW need \in Nat,
           NEW taken, taken = Walked(levels, s, need)
    PROVE  /\ SumFunctionOnSet(taken, Price) \in 0 .. need
           /\ SumFunctionOnSet(taken, Price) < need => \A p \in Price : taken[p] = levels[p]
<1> DEFINE got == SumFunctionOnSet(taken, Price)
           ahead(p) == SumFunctionOnSet(levels, Ahead(s, p))
<1>1. /\ taken \in [Price -> Nat] /\ Summable(taken, Price)
      /\ \A p \in Price :
            /\ ahead(p) \in Nat /\ taken[p] <= levels[p]
            /\ taken[p] > 0 => ahead(p) + taken[p] <= need
            /\ taken[p] < levels[p] => need <= ahead(p) + taken[p]
      /\ \A p, q \in Price : taken[p] > 0 /\ Better(s, q, p) => taken[q] = levels[q]
  BY WalkTakes
<1>2. got \in Nat /\ \A p \in Price : taken[p] >= 0
  BY <1>1, SumOfNaturals
<1>3. ASSUME NEW p \in Price, \A q \in Ahead(s, p) : taken[q] = levels[q]
      PROVE  LET rest == SumFunctionOnSet(taken, (Price \ Ahead(s, p)) \ {p})
             IN  rest \in Nat /\ got = ahead(p) + taken[p] + rest
  <2> DEFINE A == Ahead(s, p)
             B == Price \ A
             C == B \ {p}
  <2>1. A \in SUBSET Price /\ B \in SUBSET Price /\ C \in SUBSET Price /\ p \in B
    BY BetterIsStrict DEF Ahead
  <2>2. Summable(taken, A) /\ Summable(taken, B) /\ Summable(taken, C)
    BY <1>1, <2>1, SummableSubset
  <2> HIDE DEF A
  <2>3. got = SumFunctionOnSet(taken, A) + SumFunctionOnSet(taken, B)
    BY <1>1, <2>1, SumSplits
  <2>4. SumFunctionOnSet(taken, A) = ahead(p)
    BY <1>3, <2>2, SumSame DEF A
  <2> HIDE DEF B
  <2>5. SumFunctionOnSet(taken, B) = taken[p] + SumFunctionOnSet(taken, C)
    BY <2>1, <2>2, SumByElement
  <2>6. SumFunctionOnSet(taken, C) \in Nat
    BY <1>2, <2>1, <2>2, SumOfNaturals
  <2>7. ahead(p) \in Nat /\ taken[p] \in Nat
    BY <1>1
  <2> HIDE DEF got, ahead, C
  <2>8. got = ahead(p) + taken[p] + SumFunctionOnSet(taken, C)
    BY <2>3, <2>4, <2>5, <2>6, <2>7
  <2> QED BY <2>6, <2>8 DEF A, B, C
<1>4. got <= need
  <2> DEFINE T == {p \in Price : taken[p] > 0}
  <2>1. CASE T = {}
    <3>1. \A p \in Price : taken[p] = 0
      BY <1>1, <2>1
    <3> QED BY <1>1, <3>1, SumOfZeros
  <2>2. CASE T # {}
    <3>1. PICK p \in T : \A q \in T \ {p} : Better(s, q, p)
      BY <2>2, EndsOfPrices
    <3>2. \A q \in Ahead(s, p) : taken[q] = levels[q]
      BY <1>1, <3>1 DEF Ahead
    <3> DEFINE C == (Price \ Ahead(s, p)) \ {p}
    <3>3. \A q \in C : taken[q] = 0
      BY <1>1, <3>1 DEF Ahead
    <3>4. SumFunctionOnSet(taken, C) = 0
      <4>1. Summable(taken, C)
        BY <1>1, SummableSubset
      <4> HIDE DEF C
      <4> QED BY <3>3, <4>1, SumOfZeros
    <3>5. got = ahead(p) + taken[p] + SumFunctionOnSet(taken, C)
      BY <1>3, <3>1, <3>2
    <3>6. /\ ahead(p) \in Nat /\ taken[p] \in Nat
          /\ ahead(p) + taken[p] <= need
      BY <1>1, <3>1
    <3> HIDE DEF got, ahead, C
    <3> QED BY <3>4, <3>5, <3>6
  <2> QED BY <2>1, <2>2
<1>5. ASSUME got < need, NEW x \in Price, taken[x] # levels[x]
      PROVE  FALSE
  <2> DEFINE T == {p \in Price : taken[p] < levels[p]}
  <2>1. T # {}
    BY <1>1, <1>5
  <2>2. PICK p \in T : \A q \in T \ {p} : Better(s, p, q)
    BY <2>1, EndsOfPrices
  <2>3. \A q \in Ahead(s, p) : taken[q] = levels[q]
    <3> TAKE q \in Ahead(s, p)
    <3>1. q \in Price /\ Better(s, q, p) /\ p \in Price
      BY DEF Ahead
    <3>2. q \notin T
      BY <2>2, <3>1, BetterIsStrict
    <3> QED BY <1>1, <3>1, <3>2
  <2> DEFINE rest == SumFunctionOnSet(taken, (Price \ Ahead(s, p)) \ {p})
  <2>4. rest \in Nat /\ got = ahead(p) + taken[p] + rest
    BY <1>3, <2>2, <2>3
  <2>5. ahead(p) \in Nat /\ taken[p] \in Nat /\ need <= ahead(p) + taken[p]
    BY <1>1, <2>2
  <2> HIDE DEF got, ahead, rest
  <2> QED BY <1>5, <2>4, <2>5
<1> QED BY <1>2, <1>4, <1>5

-----------------------------------------------------------------------------
(* The order of the window that is followed.                               *)
Fill == [at : Nat, price : Price, qty : Nat \ {0}, of : Nat]

OrderTypes ==
    /\ side \in Side /\ views \in Seq(View) /\ traded \in SUBSET (Start .. End)
    /\ slice \in 1 .. Slices + 1 /\ remaining \in Int /\ carry \in Nat
    /\ fills \in Seq(Fill)
    /\ outcome \in {"none", "working", "empty", "skipped", "priced", "crashed"}

NotBegun ==
    outcome = "none" => slice = 1 /\ remaining = Target /\ carry = 0 /\ fills = << >>

ViewsAscend == \A i, j \in DOMAIN views : i <= j => views[i].at <= views[j].at

(* The view a fill names is the one of its instant.                        *)
FillsOfTheirView ==
    \A i \in DOMAIN fills : fills[i].of = ViewAt(fills[i].at) /\ fills[i].of \in DOMAIN views

(* What a child sent at an instant left behind of its view: nothing.       *)
Emptied(at) ==
    LET shown == views[ViewAt(at)].book[Opposite(side)]
    IN  \A p \in Held(shown) : \E i \in DOMAIN fills :
          fills[i].at = at /\ fills[i].price = p /\ fills[i].qty = shown[p]

CarriesForDepth ==
    slice > 1 /\ carry > 0 /\ ViewAt(slice - 2) # 0 => Emptied(slice - 2)

DoneIsDone ==
    outcome \notin {"none", "working"} => slice > Slices \/ remaining <= 0

PricedAtTouches ==
    outcome = "priced" => \A v \in Priced : v \in DOMAIN views /\ TwoSided(v)

OrderInv ==
    /\ OrderTypes /\ NotBegun /\ ViewsAscend
    /\ KeepsSchedule /\ FillsOfTheirView /\ FillsAreWalks
    /\ CarriesForDepth /\ DoneIsDone /\ PricedAtTouches

LEMMA OrderConstants ==
    /\ Slices \in Nat \ {0} /\ SliceQty \in Nat \ {0}
    /\ Target \in Nat /\ Start = 0 /\ End = Slices
    /\ \A i \in 1 .. Slices : /\ (i - 1) * SliceQty \in Nat
                              /\ (i - 1) * SliceQty + SliceQty = i * SliceQty
                              /\ i * SliceQty <= Target
<1>1. Slices \in Nat \ {0} /\ SliceQty \in Nat \ {0}
  BY TwapAssumption
<1>2. \A a, b \in Nat : a * b \in Nat
  OBVIOUS
<1>3. \A i \in Nat \ {0}, n \in Nat, q \in Nat : i <= n => i * q <= n * q /\ (i - 1) * q + q = i * q
  <2> TAKE i \in Nat \ {0}, n \in Nat, q \in Nat
  <2>1. (i - 1) * q + q = i * q
    OBVIOUS
  <2>2. ASSUME i <= n PROVE i * q <= n * q
    <3>1. n - i \in Nat
      BY <2>2
    <3>2. (n - i) * q \in Nat /\ n * q = i * q + (n - i) * q
      BY <1>2, <3>1
    <3> QED BY <3>2
  <2> QED BY <2>1, <2>2
<1>4. Target \in Nat
  BY <1>1, <1>2 DEF Target
<1>5. ASSUME NEW i \in 1 .. Slices
      PROVE  /\ (i - 1) * SliceQty \in Nat
             /\ (i - 1) * SliceQty + SliceQty = i * SliceQty
             /\ i * SliceQty <= Target
  <2>1. i \in Nat \ {0} /\ i - 1 \in Nat /\ i <= Slices /\ Slices \in Nat /\ SliceQty \in Nat
    BY <1>1
  <2>2. (i - 1) * SliceQty \in Nat
    BY <1>2, <2>1
  <2> QED BY <1>3, <2>1, <2>2 DEF Target
<1> QED BY <1>1, <1>4, <1>5 DEF Start, End

LEMMA ViewAtIsLast ==
    ASSUME views \in Seq(View), ViewsAscend, NEW t \in Int
    PROVE  /\ ViewAt(t) \in 0 .. Len(views)
           /\ \A v \in DOMAIN views : views[v].at <= t <=> v <= ViewAt(t)
<1> DEFINE n == Len(views)
           P == {i \in DOMAIN views : views[i].at <= t}
<1>1. n \in Nat /\ DOMAIN views = 1 .. n /\ \A i \in 1 .. n : views[i].at \in Int
  <2>1. n \in Nat /\ DOMAIN views = 1 .. n /\ \A i \in 1 .. n : views[i] \in View
    OBVIOUS
  <2>2. \A x \in View : x.at \in Int
    BY OrderConstants DEF View
  <2> QED BY <2>1, <2>2
<1>2. P \in SUBSET (1 .. n)
  BY <1>1
<1>3. \A i \in P, j \in 1 .. n : j <= i => j \in P
  <2> TAKE i \in P, j \in 1 .. n
  <2>1. j <= i => views[j].at <= views[i].at
    BY <1>1 DEF ViewsAscend
  <2> QED BY <1>1, <2>1
<1>4. Cardinality(P) \in 0 .. n /\ P = 1 .. Cardinality(P)
  <2> HIDE DEF P, n
  <2> QED BY <1>1, <1>2, <1>3, PrefixIsInterval
<1>5. ViewAt(t) = Cardinality(P)
  BY DEF ViewAt
<1>6. \A v \in DOMAIN views : views[v].at <= t <=> v \in P
  OBVIOUS
<1> HIDE DEF P, n
<1> QED BY <1>1, <1>4, <1>5, <1>6 DEF n

(* What a sequence of fills amounts to.                                    *)
Shares(q) == SumFunctionOnSet([i \in DOMAIN q |-> q[i].qty], DOMAIN q)

LEMMA FilledIsShares == Filled = Shares(fills)
BY DEF Filled, EachFill, Shares

LEMMA SharesAreInts ==
    ASSUME NEW q \in Seq(Fill)
    PROVE  /\ Summable([i \in DOMAIN q |-> q[i].qty], DOMAIN q)
           /\ Shares(q) \in Nat
<1> DEFINE f == [i \in DOMAIN q |-> q[i].qty]
<1>1. DOMAIN q = 1 .. Len(q) /\ Len(q) \in Nat /\ \A i \in 1 .. Len(q) : q[i].qty \in Nat
  <2>1. DOMAIN q = 1 .. Len(q) /\ Len(q) \in Nat /\ \A i \in 1 .. Len(q) : q[i] \in Fill
    OBVIOUS
  <2>2. \A x \in Fill : x.qty \in Nat
    BY DEF Fill
  <2> QED BY <2>1, <2>2
<1>2. Summable(f, DOMAIN q) /\ \A i \in DOMAIN q : f[i] >= 0
  BY <1>1, FirstOnes DEF Summable
<1> HIDE DEF f
<1>3. SumFunctionOnSet(f, DOMAIN q) \in Nat
  BY <1>2, SumOfNaturals
<1> QED BY <1>2, <1>3 DEF f, Shares

(* Fills appended add to the amount, here those of a walk that took        *)
(* taken[p] at each of the prices ps.                                      *)
LEMMA SharesGrow ==
    ASSUME NEW q \in Seq(Fill), NEW r \in Seq(Fill)
    PROVE  Shares(q \o r) = Shares(q) + Shares(r)
<1> DEFINE z == q \o r
           m == Len(q)
           k == Len(r)
           f == [i \in DOMAIN z |-> z[i].qty]
           g == [i \in DOMAIN q |-> q[i].qty]
           h == [i \in DOMAIN r |-> r[i].qty]
<1>1. /\ m \in Nat /\ k \in Nat /\ DOMAIN q = 1 .. m /\ DOMAIN r = 1 .. k
      /\ z \in Seq(Fill) /\ Len(z) = m + k /\ DOMAIN z = 1 .. m + k
      /\ \A i \in 1 .. m + k : z[i] = IF i <= m THEN q[i] ELSE r[i - m]
  <2>1. /\ z \in Seq(Fill) /\ Len(z) = m + k
        /\ \A i \in 1 .. m + k : z[i] = IF i <= m THEN q[i] ELSE r[i - m]
    BY ConcatProperties
  <2> HIDE DEF z
  <2>2. DOMAIN z = 1 .. Len(z)
    BY <2>1
  <2> QED BY <2>1, <2>2
<1>2. /\ Summable(f, DOMAIN z) /\ Summable(g, DOMAIN q) /\ Summable(h, DOMAIN r)
  <2> HIDE DEF z
  <2> QED BY <1>1, SharesAreInts
<1> HIDE DEF z
<1>3. (1 .. m) \in SUBSET DOMAIN z /\ DOMAIN z \ (1 .. m) = (m + 1) .. (m + k)
  BY <1>1
<1>4. SumFunctionOnSet(f, 1 .. m) = SumFunctionOnSet(g, DOMAIN q)
  <2>1. \A i \in 1 .. m : g[i] = f[i]
    BY <1>1
  <2> HIDE DEF f, g
  <2> QED BY <1>1, <1>2, <2>1, SumSame
<1>5. SumFunctionOnSet(h, 1 .. k) = SumFunctionOnSet(f, (m + 1) .. (m + k))
  <2> DEFINE T == (m + 1) .. (m + k)
             b == [i \in 1 .. k |-> i + m]
  <2>1. b \in [1 .. k -> T]
    BY <1>1
  <2>2. \A x, y \in 1 .. k : x # y => b[x] # b[y]
    BY <1>1
  <2>3. \A y \in T : \E x \in 1 .. k : y = b[x]
    <3> TAKE y \in T
    <3>1. y - m \in 1 .. k /\ y = (y - m) + m
      BY <1>1
    <3> QED BY <3>1
  <2>4. \A x \in 1 .. k : h[x] = f[b[x]]
    <3> TAKE x \in 1 .. k
    <3>1. x + m \in 1 .. m + k /\ ~(x + m <= m) /\ (x + m) - m = x
      BY <1>1
    <3> QED BY <1>1, <3>1
  <2>5. Summable(f, T)
    <3> HIDE DEF f
    <3> QED BY <1>2, <1>3, SummableSubset
  <2> HIDE DEF f, h, b, T, k
  <2>6. Summable(h, 1 .. k)
    BY <1>1, <1>2
  <2>7. Renames(b, h, 1 .. k, f, T)
    BY <2>1, <2>2, <2>3, <2>4 DEF Renames
  <2>8. SumFunctionOnSet(h, 1 .. k) = SumFunctionOnSet(f, T)
    BY <2>5, <2>6, <2>7, SumRenamed
  <2> QED BY <2>8 DEF T
<1>6. SumFunctionOnSet(f, DOMAIN z) = SumFunctionOnSet(f, 1 .. m) + SumFunctionOnSet(f, (m + 1) .. (m + k))
  <2>1. SumFunctionOnSet(f, DOMAIN z) = SumFunctionOnSet(f, 1 .. m) + SumFunctionOnSet(f, DOMAIN z \ (1 .. m))
    <3>1. (1 .. m) \in SUBSET DOMAIN z
      BY <1>3
    <3>2. Summable(f, DOMAIN z)
      BY <1>2
    <3> HIDE DEF f
    <3> QED BY <3>1, <3>2, SumSplits
  <2> QED BY <1>3, <2>1
<1> HIDE DEF f, g, h
<1>7. Shares(q \o r) = SumFunctionOnSet(f, DOMAIN z)
  BY DEF Shares, f, z
<1>8. Shares(q) = SumFunctionOnSet(g, DOMAIN q) /\ Shares(r) = SumFunctionOnSet(h, 1 .. k)
  BY <1>1 DEF Shares, g, h
<1> QED BY <1>4, <1>5, <1>6, <1>7, <1>8

LEMMA SharesOfWalk ==
    ASSUME NEW taken \in [Price -> Nat], NEW P \in SUBSET Price, \A p \in Price \ P : taken[p] = 0,
           NEW k \in Nat, NEW ps, NEW r \in Seq(Fill), Len(r) = k,
           Renames(ps, [i \in DOMAIN r |-> r[i].qty], 1 .. k, taken, P)
    PROVE  Shares(r) = SumFunctionOnSet(taken, Price)
<1> DEFINE h == [i \in DOMAIN r |-> r[i].qty]
<1>1. DOMAIN r = 1 .. k
  OBVIOUS
<1>2. Summable(h, 1 .. k) /\ Shares(r) = SumFunctionOnSet(h, 1 .. k)
  BY <1>1, SharesAreInts DEF Shares
<1>3. Summable(taken, Price) /\ Summable(taken, P) /\ Summable(taken, Price \ P)
  BY PricesFinite DEF Summable
<1>4. Renames(ps, h, 1 .. k, taken, P)
  OBVIOUS
<1> HIDE DEF h
<1>5. SumFunctionOnSet(h, 1 .. k) = SumFunctionOnSet(taken, P)
  BY <1>2, <1>3, <1>4, SumRenamed
<1>6. SumFunctionOnSet(taken, Price \ P) = 0
  BY <1>3, SumOfZeros
<1>7. SumFunctionOnSet(taken, Price) = SumFunctionOnSet(taken, P) + SumFunctionOnSet(taken, Price \ P)
  BY <1>3, SumSplits
<1>8. SumFunctionOnSet(taken, P) \in Int
  BY <1>3, SumIsInt
<1> QED BY <1>2, <1>5, <1>6, <1>7, <1>8

-----------------------------------------------------------------------------
LEMMA OrderInitHolds == OrderInit => OrderInv
<1> SUFFICES ASSUME OrderInit PROVE OrderInv
  OBVIOUS
<1> USE DEF OrderInit
<1>1. fills = << >> /\ DOMAIN fills = {} /\ views = << >> /\ DOMAIN views = {}
  OBVIOUS
<1>2. OrderTypes
  BY OrderConstants DEF OrderTypes, Side
<1>3. NotBegun /\ DoneIsDone /\ PricedAtTouches /\ CarriesForDepth
  BY DEF NotBegun, DoneIsDone, PricedAtTouches, CarriesForDepth
<1>4. ViewsAscend /\ FillsOfTheirView /\ FillsAreWalks
  BY <1>1 DEF ViewsAscend, FillsOfTheirView, FillsAreWalks
<1>5. KeepsSchedule
  <2>1. Filled = 0
    BY <1>1, SumOfNone DEF Filled, EachFill
  <2>2. Sent * SliceQty = 0
    <3>1. Sent = 0
      BY DEF Sent
    <3>2. \A n \in Nat : 0 * n = 0
      OBVIOUS
    <3> QED BY <3>1, <3>2, OrderConstants
  <2> QED BY <2>1, <2>2, OrderConstants DEF KeepsSchedule
<1> QED BY <1>2, <1>3, <1>4, <1>5 DEF OrderInv

(* The views handed to run_window are those of its window, none of them    *)
(* later than its end, in the order they were received.                    *)
LEMMA FollowKeepsOrder ==
    ASSUME StreamInv, OrderInv, Follow
    PROVE  OrderInv'
<1> DEFINE s == Starts[next]
           vs == Views(s)
<1>1. /\ s \in Opening /\ s \in Nat
  BY StartsAreInstants DEF Follow
<1>2. PICK shown \in [DOMAIN vs -> Candidates] :
        Open([i \in DOMAIN vs |-> [at |-> Since(vs[i], s), book |-> shown[i]]])
  BY DEF Follow
<1>3. /\ vs \in Seq(DOMAIN seen)
      /\ \A i \in DOMAIN vs : seen[vs[i]] <= s + Duration
      /\ \A i, j \in DOMAIN vs : i < j => vs[i] < vs[j]
  BY <1>1, ViewsOfAWindow
<1>4. DOMAIN vs = 1 .. Len(vs) /\ Len(vs) \in Nat /\ \A i \in DOMAIN vs : vs[i] \in DOMAIN seen
  BY <1>3
<1>5. DOMAIN seen = 1 .. Len(seen) /\ \A i \in DOMAIN seen : seen[i] \in Nat
  BY WindowsAssumption DEF StreamInv, StreamTypes
<1> HIDE DEF vs, s
<1>6. /\ side' \in Side /\ traded' \in SUBSET (Start .. End)
      /\ views' = [i \in DOMAIN vs |-> [at |-> Since(vs[i], s), book |-> shown[i]]]
      /\ outcome = "none" /\ outcome' = "working"
      /\ slice' = slice /\ remaining' = remaining /\ carry' = carry /\ fills' = fills
      /\ slice = 1 /\ fills = << >>
  BY <1>2 DEF Open, OrderInv, NotBegun
<1>7. ASSUME NEW i \in DOMAIN vs
      PROVE  /\ Since(vs[i], s) \in -1 .. End
             /\ Since(vs[i], s) = IF seen[vs[i]] < s THEN -1 ELSE seen[vs[i]] - s
             /\ views'[i] \in View /\ views'[i].at = Since(vs[i], s)
  <2>1. seen[vs[i]] \in Nat /\ seen[vs[i]] <= s + Duration
    BY <1>3, <1>4, <1>5
  <2>2. Since(vs[i], s) \in -1 .. End
    BY <1>1, <2>1, OrderConstants, BacktestAssumption DEF Since
  <2> QED BY <1>2, <1>6, <2>2 DEF Since, View
<1>8. views' \in Seq(View) /\ DOMAIN views' = DOMAIN vs
  BY <1>4, <1>6, <1>7
<1>9. OrderTypes'
  BY <1>6, <1>8 DEF OrderInv, OrderTypes
<1>10. ViewsAscend'
  <2> SUFFICES ASSUME NEW i \in DOMAIN vs, NEW j \in DOMAIN vs, i <= j
               PROVE  views'[i].at <= views'[j].at
    BY <1>8 DEF ViewsAscend
  <2>1. seen[vs[i]] <= seen[vs[j]]
    <3>1. vs[i] <= vs[j] /\ vs[i] \in DOMAIN seen /\ vs[j] \in DOMAIN seen
      <4>1. i = j \/ i < j
        BY <1>4
      <4>2. vs[i] \in DOMAIN seen /\ vs[j] \in DOMAIN seen
        BY <1>4
      <4>3. vs[i] = vs[j] \/ vs[i] < vs[j]
        BY <1>3, <4>1
      <4> QED BY <1>5, <4>2, <4>3
    <3> QED BY <3>1 DEF StreamInv, Ascending
  <2>2. seen[vs[i]] \in Nat /\ seen[vs[j]] \in Nat
    BY <1>4, <1>5
  <2> QED BY <1>1, <1>7, <2>1, <2>2
<1>11. KeepsSchedule'
  BY <1>6 DEF OrderInv, KeepsSchedule, Filled, EachFill, Sent
<1>12. DOMAIN fills' = {}
  BY <1>6
<1>13. FillsOfTheirView' /\ FillsAreWalks'
  BY <1>12 DEF FillsOfTheirView, FillsAreWalks
<1>14. NotBegun' /\ CarriesForDepth' /\ DoneIsDone' /\ PricedAtTouches'
  BY <1>6 DEF NotBegun, CarriesForDepth, DoneIsDone, PricedAtTouches
<1> QED BY <1>9, <1>10, <1>11, <1>13, <1>14 DEF OrderInv

(* A child is always sent for its slice and all that was carried to it:    *)
(* what remains of the order is never less than that.                      *)
LEMMA WantedInFull ==
    ASSUME OrderInv, Working
    PROVE  /\ Sent \in 0 .. Slices - 1 /\ slice \in 1 .. Slices
           /\ Filled \in Nat /\ remaining \in Int /\ carry \in Nat
           /\ Wanted = SliceQty + carry /\ Wanted \in Nat
           /\ Filled + remaining = Target
           /\ Filled + Wanted = slice * SliceQty
<1>1. /\ slice \in 1 .. Slices /\ Sent = slice - 1
      /\ Filled + remaining = Target /\ Filled + carry = Sent * SliceQty
      /\ remaining \in Int /\ carry \in Nat
  BY DEF OrderInv, OrderTypes, Working, KeepsSchedule, Sent
<1>2. Filled \in Nat
  BY FilledIsShares, SharesAreInts DEF OrderInv, OrderTypes
<1>3. /\ (slice - 1) * SliceQty \in Nat
      /\ (slice - 1) * SliceQty + SliceQty = slice * SliceQty
      /\ slice * SliceQty <= Target /\ Target \in Nat /\ SliceQty \in Nat \ {0}
      /\ Slices \in Nat \ {0}
  BY <1>1, OrderConstants
<1>4. Filled + carry + SliceQty = slice * SliceQty
  BY <1>1, <1>2, <1>3
<1>5. SliceQty + carry <= remaining
  BY <1>1, <1>2, <1>3, <1>4
<1>6. Wanted = SliceQty + carry
  BY <1>1, <1>3, <1>5 DEF Wanted, Least2
<1> QED BY <1>1, <1>2, <1>3, <1>4, <1>6

LEMMA SliceWithoutViewKeeps ==
    ASSUME OrderInv, SliceWithoutView
    PROVE  OrderInv'
<1>1. /\ side' = side /\ views' = views /\ traded' = traded /\ remaining' = remaining
      /\ fills' = fills /\ outcome' = outcome /\ outcome = "working"
      /\ slice' = slice + 1 /\ carry' = Wanted /\ ViewAt(Sent) = 0 /\ Working
  BY DEF SliceWithoutView, given, Working
<1>2. /\ Sent \in 0 .. Slices - 1 /\ slice \in 1 .. Slices
      /\ Filled \in Nat /\ Wanted \in Nat /\ remaining \in Int
      /\ Filled + remaining = Target /\ Filled + Wanted = slice * SliceQty
      /\ Slices \in Nat
  BY <1>1, WantedInFull, OrderConstants
<1>3. /\ \A t : ViewAt(t)' = ViewAt(t)
      /\ Filled' = Filled /\ Sent' = slice
  BY <1>1, <1>2 DEF ViewAt, Filled, EachFill, Sent
<1>4. OrderTypes'
  BY <1>1, <1>2 DEF OrderInv, OrderTypes
<1>5. NotBegun' /\ DoneIsDone' /\ PricedAtTouches'
  BY <1>1 DEF NotBegun, DoneIsDone, PricedAtTouches
<1>6. ViewsAscend' /\ FillsOfTheirView'
  BY <1>1, <1>3 DEF OrderInv, ViewsAscend, FillsOfTheirView
<1>9. FillsAreWalks'
  BY <1>1 DEF OrderInv, FillsAreWalks
<1>7. KeepsSchedule'
  BY <1>1, <1>2, <1>3 DEF KeepsSchedule
<1>8. CarriesForDepth'
  <2>1. slice' - 2 = Sent
    BY <1>1, <1>2 DEF Sent
  <2> QED BY <1>1, <1>3, <2>1 DEF CarriesForDepth
<1> QED BY <1>4, <1>5, <1>6, <1>7, <1>8, <1>9 DEF OrderInv

LEMMA EndsKeeps ==
    ASSUME OrderInv, NoFills \/ ArrivalMissing \/ PriceIt \/ PriceFails
    PROVE  OrderInv'
<1>1. /\ UNCHANGED <<given, slice, remaining, carry, fills>>
      /\ Worked /\ outcome' \in {"empty", "skipped", "priced", "crashed"}
  BY DEF NoFills, ArrivalMissing, PriceIt, PriceFails, Ends, Priceable
<1>2. /\ side' = side /\ views' = views /\ traded' = traded /\ remaining' = remaining
      /\ fills' = fills /\ slice' = slice /\ carry' = carry
      /\ outcome = "working" /\ (slice > Slices \/ ~(remaining > 0))
      /\ outcome' \in {"empty", "skipped", "priced", "crashed"}
  <2>1. slice \in Int /\ Slices \in Int
    BY OrderConstants DEF OrderInv, OrderTypes
  <2>2. outcome = "working" /\ ~(slice <= Slices /\ remaining > 0)
    BY <1>1 DEF Worked, Working
  <2>3. slice > Slices \/ ~(remaining > 0)
    BY <2>1, <2>2
  <2> QED BY <1>1, <2>2, <2>3 DEF given
<1>3. /\ \A t : ViewAt(t)' = ViewAt(t)
      /\ Filled' = Filled /\ Sent' = Sent
  BY <1>2 DEF ViewAt, Filled, EachFill, Sent
<1>4. OrderTypes'
  BY <1>2 DEF OrderInv, OrderTypes
<1>5. NotBegun' /\ DoneIsDone'
  <2>1. remaining \in Int
    BY DEF OrderInv, OrderTypes
  <2> QED BY <1>2, <2>1 DEF NotBegun, DoneIsDone
<1>6. ViewsAscend' /\ FillsOfTheirView'
  BY <1>2, <1>3 DEF OrderInv, ViewsAscend, FillsOfTheirView
<1>10. FillsAreWalks'
  BY <1>2 DEF OrderInv, FillsAreWalks
<1>7. KeepsSchedule'
  BY <1>2, <1>3 DEF OrderInv, KeepsSchedule
<1>8. CarriesForDepth'
  BY <1>2, <1>3 DEF OrderInv, CarriesForDepth, Emptied
<1>9. PricedAtTouches'
  <2> SUFFICES ASSUME outcome' = "priced"
               PROVE  \A v \in Priced' : v \in DOMAIN views /\ TwoSided(v)'
    BY <1>2 DEF PricedAtTouches
  <2>1. Priced' = Priced /\ \A v : TwoSided(v)' = TwoSided(v)
    BY <1>2, <1>3 DEF Priced, TwoSided
  <2>2. PriceIt
    BY DEF NoFills, ArrivalMissing, PriceFails, Ends
  <2>3. ViewAt(Start) # 0 /\ \A v \in Priced : TwoSided(v)
    BY <2>2 DEF PriceIt, Priceable
  <2>4. \A t \in Int : ViewAt(t) \in 0 .. Len(views)
    BY ViewAtIsLast DEF OrderInv, OrderTypes
  <2>5. DOMAIN views = 1 .. Len(views) /\ Len(views) \in Nat
    BY DEF OrderInv, OrderTypes
  <2>6. \A v \in Priced : v \in DOMAIN views
    <3>1. ViewAt(Start) \in DOMAIN views /\ Len(views) \in DOMAIN views
      BY <2>3, <2>4, <2>5, OrderConstants
    <3>2. \A i \in DOMAIN fills : fills[i].of \in DOMAIN views
      BY DEF OrderInv, FillsOfTheirView
    <3>3. \A t \in traded : ViewAt(t) # 0 => ViewAt(t) \in DOMAIN views
      <4>1. \A t \in traded : t \in Int
        BY OrderConstants DEF OrderInv, OrderTypes
      <4> QED BY <2>4, <2>5, <4>1
    <3> QED BY <3>1, <3>2, <3>3 DEF Priced
  <2> QED BY <2>1, <2>3, <2>6
<1> QED BY <1>4, <1>5, <1>6, <1>7, <1>8, <1>9, <1>10 DEF OrderInv

-----------------------------------------------------------------------------
(* A child's fills: one for each price its walk took something from, best  *)
(* first, all of them of the view of its instant.                          *)
Child(k, ps, new, shown, taken) ==
    /\ ViewAt(Sent) \in DOMAIN views
    /\ shown = views[ViewAt(Sent)].book[Opposite(side)]
    /\ taken = Walked(shown, Opposite(side), Wanted)
    /\ \A i, j \in 1 .. k : i < j => Better(Opposite(side), ps[i], ps[j])
    /\ \A p \in Price : taken[p] > 0 => \E i \in 1 .. k : p = ps[i]
    /\ Len(new) = k
    /\ \A i \in 1 .. k :
          new[i] = [at |-> Sent, price |-> ps[i], qty |-> taken[ps[i]], of |-> ViewAt(Sent)]
    /\ Shares(new) = SumFunctionOnSet(taken, Price)
    /\ fills' = fills \o new
    /\ remaining' = remaining - SumFunctionOnSet(taken, Price)
    /\ carry' = Wanted - SumFunctionOnSet(taken, Price)

LEMMA ChildFills ==
    ASSUME OrderInv, SliceFills
    PROVE  \E k \in Nat : \E ps \in [1 .. k -> Price], new \in Seq(Fill),
              shown \in [Price -> Nat], taken \in [Price -> Nat] :
             Child(k, ps, new, shown, taken)
<1> DEFINE s     == Opposite(side)
           v     == ViewAt(Sent)
           shown == views[v].book[s]
           taken == Walked(shown, s, Wanted)
           P     == {p \in Price : taken[p] > 0}
           ps    == BestFirst(s, P)
           k     == Cardinality(P)
           new   == FillsOf(taken, s)
<1>1. /\ s \in Side /\ Sent \in 0 .. Slices - 1 /\ Wanted \in Nat /\ Slices \in Nat
      /\ v \in DOMAIN views /\ v \in Nat
  <2>1. Working /\ v # 0
    BY DEF SliceFills
  <2>2. Sent \in 0 .. Slices - 1 /\ Wanted \in Nat /\ Slices \in Nat
    BY <2>1, WantedInFull, OrderConstants
  <2>3. v \in 0 .. Len(views)
    BY <2>2, ViewAtIsLast DEF OrderInv, OrderTypes
  <2>4. v \in DOMAIN views /\ v \in Nat
    BY <2>1, <2>3 DEF OrderInv, OrderTypes
  <2> QED BY <2>2, <2>4 DEF Opposite, Side, OrderInv, OrderTypes
<1>2. shown \in [Price -> Nat]
  <2>1. views[v] \in View
    BY <1>1 DEF OrderInv, OrderTypes
  <2>2. views[v].book \in Book
    BY <2>1, TwapAssumption DEF View
  <2>3. shown \in [Price -> Qty \cup {0}]
    BY <1>1, <2>2 DEF Book, Side
  <2>4. Qty \cup {0} \subseteq Nat
    BY BookAssumption
  <2> HIDE DEF shown
  <2> QED BY <2>3, <2>4
<1>3. /\ fills' = fills \o new
      /\ remaining' = remaining - SumFunctionOnSet(taken, Price)
      /\ carry' = Wanted - SumFunctionOnSet(taken, Price)
  BY DEF SliceFills
<1> HIDE DEF s, v, shown
<1>4. taken \in [Price -> Nat]
  BY <1>1, <1>2, WalkTakes
<1>5. /\ k \in Nat /\ P \in SUBSET Price
      /\ ps \in [1 .. k -> P]
      /\ \A i, j \in 1 .. k : i < j => Better(s, ps[i], ps[j])
      /\ \A i, j \in 1 .. k : i # j => ps[i] # ps[j]
      /\ \A p \in P : \E i \in 1 .. k : p = ps[i]
  <2>1. P \in SUBSET Price
    OBVIOUS
  <2> HIDE DEF P
  <2>2. k \in Nat
    BY <2>1, PricesFinite
  <2> QED BY <1>1, <2>1, <2>2, BestFirstLists
<1>6. new = [i \in 1 .. k |-> [at |-> Sent, price |-> ps[i], qty |-> taken[ps[i]], of |-> v]]
  BY <1>5 DEF FillsOf, v
<1> HIDE DEF taken, new
<1>7. \A i \in 1 .. k : ps[i] \in Price /\ taken[ps[i]] \in Nat \ {0}
  BY <1>4, <1>5
<1> HIDE DEF P, ps, k
<1>8. new \in Seq(Fill) /\ Len(new) = k /\ DOMAIN new = 1 .. k
  <2>1. \A i \in 1 .. k : new[i] \in Fill
    BY <1>1, <1>6, <1>7 DEF Fill
  <2> QED BY <1>5, <1>6, <2>1
<1>9. Shares(new) = SumFunctionOnSet(taken, Price)
  <2>1. Renames(ps, [i \in DOMAIN new |-> new[i].qty], 1 .. k, taken, P)
    <3>1. \A i \in 1 .. k : [j \in DOMAIN new |-> new[j].qty][i] = taken[ps[i]]
      BY <1>6, <1>8
    <3> QED BY <1>5, <3>1 DEF Renames
  <2>2. \A p \in Price \ P : taken[p] = 0
    BY <1>4 DEF P
  <2> QED BY <1>4, <1>5, <1>8, <2>1, <2>2, SharesOfWalk
<1>10. ps \in [1 .. k -> Price]
  BY <1>5
<1>11. \A p \in Price : taken[p] > 0 => \E i \in 1 .. k : p = ps[i]
  BY <1>5 DEF P
<1>12. \A i \in 1 .. k :
          new[i] = [at |-> Sent, price |-> ps[i], qty |-> taken[ps[i]], of |-> v]
  BY <1>6
<1>13. shown = views[v].book[s] /\ taken = Walked(shown, s, Wanted)
  BY DEF shown, taken
<1>14. Child(k, ps, new, shown, taken)
  BY <1>1, <1>3, <1>5, <1>8, <1>9, <1>11, <1>12, <1>13 DEF s, v, Child
<1> QED BY <1>2, <1>4, <1>5, <1>8, <1>10, <1>14

LEMMA SliceFillsKeeps ==
    ASSUME OrderInv, SliceFills
    PROVE  OrderInv'
<1> DEFINE s == Opposite(side)
           v == ViewAt(Sent)
           m == Len(fills)
<1>count. PICK k \in Nat : \E ps \in [1 .. k -> Price], new \in Seq(Fill),
           shown \in [Price -> Nat], taken \in [Price -> Nat] :
        Child(k, ps, new, shown, taken)
  BY ChildFills
<1>walk. PICK ps \in [1 .. k -> Price], new \in Seq(Fill),
           shown \in [Price -> Nat], taken \in [Price -> Nat] :
        Child(k, ps, new, shown, taken)
  BY <1>count
<1>1. /\ v \in DOMAIN views /\ shown = views[v].book[s] /\ taken = Walked(shown, s, Wanted)
      /\ \A i, j \in 1 .. k : i < j => Better(s, ps[i], ps[j])
      /\ \A p \in Price : taken[p] > 0 => \E i \in 1 .. k : p = ps[i]
      /\ Len(new) = k
      /\ \A i \in 1 .. k :
            new[i] = [at |-> Sent, price |-> ps[i], qty |-> taken[ps[i]], of |-> v]
      /\ Shares(new) = SumFunctionOnSet(taken, Price)
      /\ fills' = fills \o new
      /\ remaining' = remaining - SumFunctionOnSet(taken, Price)
      /\ carry' = Wanted - SumFunctionOnSet(taken, Price)
  BY <1>walk DEF Child
<1> DEFINE got == SumFunctionOnSet(taken, Price)
<1>2. /\ side' = side /\ views' = views /\ traded' = traded /\ outcome' = outcome
      /\ outcome = "working" /\ slice' = slice + 1 /\ Working
  BY DEF SliceFills, given, Working
<1>3. /\ Sent \in 0 .. Slices - 1 /\ slice \in 1 .. Slices
      /\ Filled \in Nat /\ Wanted \in Nat /\ remaining \in Int
      /\ Filled + remaining = Target /\ Filled + Wanted = slice * SliceQty
      /\ Slices \in Nat
  BY <1>2, WantedInFull, OrderConstants
<1>4. s \in Side
  BY DEF Opposite, Side, OrderInv, OrderTypes
<1>5. /\ got \in 0 .. Wanted
      /\ got < Wanted => \A p \in Price : taken[p] = shown[p]
  <2>1. taken = Walked(shown, s, Wanted)
    BY <1>1
  <2>2. Wanted \in Nat
    BY <1>3
  <2> HIDE DEF s, got
  <2>3. /\ SumFunctionOnSet(taken, Price) \in 0 .. Wanted
        /\ SumFunctionOnSet(taken, Price) < Wanted => \A p \in Price : taken[p] = shown[p]
    BY <1>4, <2>1, <2>2, WalkStops
  <2> QED BY <2>3 DEF got
<1>6. /\ m \in Nat /\ DOMAIN fills = 1 .. m /\ fills \in Seq(Fill)
      /\ fills' \in Seq(Fill) /\ DOMAIN fills' = 1 .. m + k
      /\ \A i \in 1 .. m : fills'[i] = fills[i]
      /\ \A i \in 1 .. k : fills'[m + i] = new[i]
      /\ \A i \in 1 .. m + k : i \in 1 .. m \/ (i - m \in 1 .. k /\ fills'[i] = new[i - m])
  <2>1. fills \in Seq(Fill) /\ m \in Nat /\ DOMAIN fills = 1 .. m
    BY DEF OrderInv, OrderTypes
  <2>2. /\ fills' \in Seq(Fill) /\ Len(fills') = m + k
        /\ \A i \in 1 .. m + k : fills'[i] = IF i <= m THEN fills[i] ELSE new[i - m]
    <3>1. /\ fills \o new \in Seq(Fill) /\ Len(fills \o new) = m + k
          /\ \A i \in 1 .. m + k : (fills \o new)[i] = IF i <= m THEN fills[i] ELSE new[i - m]
      <4>1. Len(new) = k
        BY <1>1
      <4> QED BY <2>1, <4>1, ConcatProperties
    <3>2. fills' = fills \o new
      BY <1>1
    <3> QED BY <3>1, <3>2
  <2>3. DOMAIN fills' = 1 .. m + k
    BY <2>2
  <2> HIDE DEF m
  <2>4. \A i \in 1 .. m : fills'[i] = fills[i]
    BY <2>1, <2>2
  <2>5. ASSUME NEW i \in 1 .. k PROVE fills'[m + i] = new[i]
    <3>1. m + i \in 1 .. m + k /\ ~(m + i <= m) /\ (m + i) - m = i
      BY <2>1
    <3> QED BY <2>2, <3>1
  <2>6. ASSUME NEW i \in 1 .. m + k
        PROVE  i \in 1 .. m \/ (i - m \in 1 .. k /\ fills'[i] = new[i - m])
    <3>1. i \in 1 .. m \/ (i - m \in 1 .. k /\ ~(i <= m))
      BY <2>1
    <3> QED BY <2>2, <3>1
  <2> QED BY <2>1, <2>2, <2>3, <2>4, <2>5, <2>6
<1> HIDE DEF m, s, v
<1>7. \A t : ViewAt(t)' = ViewAt(t)
  BY <1>2 DEF ViewAt
<1>8. Filled' = Filled + got /\ Sent' = slice
  <2>1. Shares(fills') = Shares(fills) + Shares(new)
    BY <1>1, <1>6, SharesGrow
  <2>2. Filled' = Shares(fills')
    BY DEF Filled, EachFill, Shares
  <2>3. Sent' = slice
    BY <1>2, <1>3 DEF Sent
  <2> QED BY <1>1, <2>1, <2>2, <2>3, FilledIsShares
<1>9. carry' = Wanted - got /\ remaining' = remaining - got
  BY <1>1
<1> HIDE DEF got
<1>10. OrderTypes'
  <2>1. carry' \in Nat /\ remaining' \in Int
    BY <1>3, <1>5, <1>9
  <2>2. slice' \in 1 .. Slices + 1
    BY <1>2, <1>3
  <2> QED BY <1>2, <1>6, <2>1, <2>2 DEF OrderInv, OrderTypes
<1>11. NotBegun' /\ DoneIsDone' /\ PricedAtTouches'
  BY <1>2 DEF NotBegun, DoneIsDone, PricedAtTouches
<1>12. ViewsAscend'
  BY <1>2 DEF OrderInv, ViewsAscend
<1>13. KeepsSchedule'
  BY <1>3, <1>5, <1>8, <1>9 DEF KeepsSchedule
<1>14. ASSUME NEW i \in 1 .. k
       PROVE  /\ new[i].at = Sent /\ new[i].of = v /\ new[i].price = ps[i]
              /\ new[i].qty = taken[ps[i]]
  BY <1>1
<1>15. FillsOfTheirView'
  <2> SUFFICES ASSUME NEW i \in 1 .. m + k
               PROVE  fills'[i].of = ViewAt(fills'[i].at) /\ fills'[i].of \in DOMAIN views
    BY <1>2, <1>6, <1>7 DEF FillsOfTheirView
  <2>1. CASE i \in 1 .. m
    BY <1>6, <2>1 DEF OrderInv, FillsOfTheirView
  <2>2. CASE i - m \in 1 .. k /\ fills'[i] = new[i - m]
    BY <1>1, <1>14, <2>2 DEF v
  <2> QED BY <1>6, <2>1, <2>2
<1>16. FillsAreWalks'
  <2> DEFINE Walks(f, i) ==
               /\ \A w \in DOMAIN views : views[w].at <= f.at <=> w <= f.of
               /\ f.qty <= views[f.of].book[s][f.price]
               /\ \A q \in Held(views[f.of].book[s]) : Better(s, q, f.price) =>
                     \E j \in 1 .. i - 1 :
                        fills'[j] = [at |-> f.at, price |-> q, qty |-> views[f.of].book[s][q], of |-> f.of]
  <2>1. ASSUME NEW i \in 1 .. m PROVE Walks(fills[i], i)
    <3>1. \A w \in DOMAIN views : views[w].at <= fills[i].at <=> w <= fills[i].of
      BY <1>6 DEF OrderInv, FillsAreWalks
    <3>2. fills[i].qty <= views[fills[i].of].book[s][fills[i].price]
      BY <1>6 DEF OrderInv, FillsAreWalks, s
    <3>3. ASSUME NEW q \in Held(views[fills[i].of].book[s]), Better(s, q, fills[i].price)
          PROVE  \E j \in 1 .. i - 1 :
                    fills'[j] = [at |-> fills[i].at, price |-> q,
                                 qty |-> views[fills[i].of].book[s][q], of |-> fills[i].of]
      <4>1. PICK j \in 1 .. i - 1 :
                    fills[j] = [at |-> fills[i].at, price |-> q,
                                qty |-> views[fills[i].of].book[s][q], of |-> fills[i].of]
        BY <1>6, <3>3 DEF OrderInv, FillsAreWalks, s
      <4>2. j \in 1 .. m
        BY <1>6
      <4> QED BY <1>6, <4>1, <4>2
    <3> QED BY <3>1, <3>2, <3>3
  <2>2. ASSUME NEW i \in 1 .. k PROVE Walks(new[i], m + i)
    <3> DEFINE f == new[i]
    <3>1. f.at = Sent /\ f.of = v /\ f.price = ps[i] /\ f.qty = taken[ps[i]] /\ ps[i] \in Price
      BY <1>14
    <3> HIDE DEF f
    <3>2. \A w \in DOMAIN views : views[w].at <= Sent <=> w <= v
      BY <1>3, ViewAtIsLast DEF OrderInv, OrderTypes, v
    <3>3. shown = views[v].book[s]
      BY <1>1
    <3>4. /\ taken[ps[i]] <= shown[ps[i]] /\ taken[ps[i]] > 0
          /\ \A p, q \in Price : taken[p] > 0 /\ Better(s, q, p) => taken[q] = shown[q]
      <4>1. taken = Walked(shown, s, Wanted)
        BY <1>1
      <4>2. /\ \A p \in Price : taken[p] <= shown[p]
            /\ \A p, q \in Price : taken[p] > 0 /\ Better(s, q, p) => taken[q] = shown[q]
        <5>1. Wanted \in Nat
          BY <1>3
        <5> QED BY <1>4, <4>1, <5>1, WalkTakes
      <4>3. new[i].qty \in Nat \ {0}
        BY <1>1 DEF Fill
      <4> QED BY <1>14, <4>2, <4>3
    <3>5. ASSUME NEW q \in Held(shown), Better(s, q, ps[i])
          PROVE  \E j \in 1 .. (m + i) - 1 :
                   fills'[j] = [at |-> Sent, price |-> q, qty |-> shown[q], of |-> v]
      <4>1. q \in Price /\ taken[q] = shown[q] /\ shown[q] # 0 /\ shown[q] \in Nat
        BY <3>1, <3>4, <3>5 DEF Held
      <4>2. PICK j \in 1 .. k : q = ps[j]
        BY <1>1, <4>1
      <4>3. j < i
        <5>1. j # i /\ ~(i < j)
          BY <1>1, <3>1, <3>5, <4>1, <4>2, <1>4, BetterIsStrict
        <5> QED BY <5>1
      <4>4. m + j \in 1 .. (m + i) - 1 /\ fills'[m + j] = new[j]
        BY <1>6, <4>3
      <4>5. new[j] = [at |-> Sent, price |-> q, qty |-> shown[q], of |-> v]
        BY <1>1, <4>1, <4>2
      <4> QED BY <4>4, <4>5
    <3> QED BY <3>1, <3>2, <3>3, <3>4, <3>5 DEF f
  <2>3. ASSUME NEW i \in 1 .. m + k PROVE Walks(fills'[i], i)
    <3>1. CASE i \in 1 .. m
      <4>1. fills'[i] = fills[i]
        BY <1>6, <3>1
      <4> HIDE DEF Walks
      <4> QED BY <2>1, <3>1, <4>1
    <3>2. CASE i - m \in 1 .. k /\ fills'[i] = new[i - m]
      <4>1. m + (i - m) = i
        BY <1>6
      <4> HIDE DEF Walks
      <4> QED BY <2>2, <3>2, <4>1
    <3> HIDE DEF Walks
    <3> QED BY <1>6, <3>1, <3>2
  <2> QED BY <1>2, <1>6, <2>3 DEF FillsAreWalks, s
<1>17. CarriesForDepth'
  <2>1. slice' - 2 = Sent
    BY <1>2, <1>3 DEF Sent
  <2>4. ViewAt(slice - 2)' = v
    BY <1>2, <2>1 DEF ViewAt, v
  <2>2. ASSUME carry' > 0, NEW p \in Held(shown)
        PROVE  \E i \in DOMAIN fills' :
                 fills'[i].at = Sent /\ fills'[i].price = p /\ fills'[i].qty = shown[p]
    <3>1. \A q \in Price : taken[q] = shown[q]
      BY <1>3, <1>5, <1>9, <2>2
    <3>2. p \in Price /\ taken[p] = shown[p] /\ taken[p] > 0
      BY <2>2, <3>1 DEF Held
    <3>3. PICK i \in 1 .. k : p = ps[i]
      BY <1>1, <3>2
    <3>4. m + i \in DOMAIN fills' /\ fills'[m + i] = new[i]
      BY <1>6
    <3> QED BY <1>14, <3>2, <3>3, <3>4
  <2>3. shown = views'[v].book[Opposite(side)']
    BY <1>1, <1>2 DEF s, Opposite
  <2> QED BY <2>1, <2>2, <2>3, <2>4 DEF CarriesForDepth, Emptied
<1> QED BY <1>10, <1>11, <1>12, <1>13, <1>15, <1>16, <1>17 DEF OrderInv

-----------------------------------------------------------------------------
(* After the last slice what remains of the order is what its child        *)
(* carried, and a child carries only from a view it emptied.               *)
LEMMA LeftForDepth == OrderInv => UnfilledOnlyForDepth
<1> SUFFICES ASSUME OrderInv, outcome \notin {"none", "working"}, remaining > 0, ViewAt(End - 1) # 0
             PROVE  Emptied(End - 1)
  BY DEF UnfilledOnlyForDepth, Emptied
<1>1. /\ slice \in 1 .. Slices + 1 /\ remaining \in Int /\ carry \in Nat
      /\ Slices \in Nat \ {0} /\ SliceQty \in Nat \ {0} /\ Target \in Nat /\ End = Slices
  BY OrderConstants DEF OrderInv, OrderTypes
<1>2. slice = Slices + 1
  BY <1>1 DEF OrderInv, DoneIsDone
<1>3. Filled \in Nat
  BY FilledIsShares, SharesAreInts DEF OrderInv, OrderTypes
<1>4. Filled + remaining = Target /\ Filled + carry = Sent * SliceQty
  BY DEF OrderInv, KeepsSchedule
<1>5. Sent * SliceQty = Target
  <2>1. Sent = Slices
    BY <1>1, <1>2 DEF Sent
  <2> QED BY <2>1 DEF Target
<1>6. carry > 0 /\ slice > 1 /\ slice - 2 = End - 1
  BY <1>1, <1>2, <1>3, <1>4, <1>5
<1> QED BY <1>6 DEF OrderInv, CarriesForDepth

(* Where every view priced has both touches the mids are numbers, and the  *)
(* layers of a fill add to what it paid beyond the arrival mid.            *)
LEMMA LayersAddUp == OrderInv => LayersSumToShortfall
<1> SUFFICES ASSUME OrderInv, outcome = "priced" PROVE
        SpreadLayer + TimingLayer + OpportunityLayer =
            Sign(side) * (Paid2 + (Target - Filled) * Mid2(Len(views)) - Target * Mid2(ViewAt(Start)))
  BY DEF LayersSumToShortfall
<1> DEFINE S == DOMAIN fills
           a == Mid2(ViewAt(Start))
           z == Mid2(Len(views))
           sg == Sign(side)
           mid(i) == Mid2(ViewAt(fills[i].at))
           qty    == [i \in S |-> fills[i].qty]
           paid   == [i \in S |-> fills[i].qty * 2 * fills[i].price]
           spread == [i \in S |-> fills[i].qty * (2 * fills[i].price - mid(i)) * sg]
           timing == [i \in S |-> fills[i].qty * (mid(i) - a) * sg]
           both   == [i \in S |-> spread[i] + timing[i]]
<1>1. \A v \in Priced : Mid2(v) \in Int
  <2> TAKE v \in Priced
  <2>1. TwoSided(v)
    BY DEF OrderInv, PricedAtTouches
  <2>2. Best(views[v].book, "bid") \in Int /\ Best(views[v].book, "ask") \in Int
    <3>1. ASSUME NEW s \in Side PROVE Best(views[v].book, s) \in Int
      <4>1. Held(views[v].book[s]) # {}
        BY <2>1 DEF TwoSided
      <4>2. Best(views[v].book, s) \in Held(views[v].book[s])
        BY <4>1, BestIsBest
      <4>3. Best(views[v].book, s) \in Price
        BY <4>2, HeldFinite
      <4> QED BY <4>3, BookAssumption DEF Price
    <3> QED BY <3>1 DEF Side
  <2> QED BY <2>2 DEF Mid2
<1>2. a \in Int /\ z \in Int /\ sg \in {1, -1}
  BY <1>1 DEF Priced, Sign
<1>3. IsFiniteSet(S) /\ \A i \in S : /\ fills[i].qty \in Int /\ fills[i].price \in Int
                                     /\ mid(i) \in Int
  <2>1. IsFiniteSet(S) /\ \A i \in S : fills[i] \in Fill
    <3>1. Len(fills) \in Nat /\ S = 1 .. Len(fills) /\ \A i \in S : fills[i] \in Fill
      BY DEF OrderInv, OrderTypes
    <3> QED BY <3>1, FirstOnes
  <2>2. \A x \in Fill : x.qty \in Int /\ x.price \in Int
    BY BookAssumption DEF Fill, Price
  <2>3. ASSUME NEW i \in S PROVE mid(i) \in Int
    <3>1. fills[i].of \in Priced /\ fills[i].of = ViewAt(fills[i].at)
      BY DEF OrderInv, FillsOfTheirView, Priced
    <3> QED BY <1>1, <3>1
  <2> QED BY <2>1, <2>2, <2>3
<1> HIDE DEF a, z, sg, mid
<1>4. \A q, p, m \in Int : q * (2 * p - m) * sg + q * (m - a) * sg = sg * (q * 2 * p - a * q)
  BY <1>2
<1>5. \A i \in S : /\ qty[i] \in Int /\ paid[i] \in Int /\ spread[i] \in Int
                   /\ timing[i] \in Int /\ both[i] \in Int
  <2>1. sg \in Int
    BY <1>2
  <2> QED BY <1>2, <1>3, <2>1
<1>6. /\ Summable(qty, S) /\ Summable(paid, S) /\ Summable(spread, S)
      /\ Summable(timing, S) /\ Summable(both, S)
  BY <1>3, <1>5 DEF Summable
<1>7. Scaled(both, 1, spread, -1, timing, S)
  <2>1. \A i \in S : both[i] = spread[i] + timing[i]
    OBVIOUS
  <2> HIDE DEF both, spread, timing, S
  <2> QED BY <1>5, <2>1 DEF Scaled
<1>8. Scaled(both, sg, paid, a, qty, S)
  <2>1. ASSUME NEW i \in S PROVE both[i] = sg * (paid[i] - a * qty[i])
    <3> DEFINE q == fills[i].qty
               p == fills[i].price
    <3>1. /\ both[i] = q * (2 * p - mid(i)) * sg + q * (mid(i) - a) * sg
          /\ paid[i] = q * 2 * p /\ qty[i] = q
      OBVIOUS
    <3>2. q \in Int /\ p \in Int /\ mid(i) \in Int
      BY <1>3
    <3> HIDE DEF q, p, both, paid, qty
    <3>3. both[i] = sg * (q * 2 * p - a * q)
      BY <1>4, <3>1, <3>2
    <3> QED BY <3>1, <3>3
  <2> QED BY <2>1 DEF Scaled
<1>9. /\ Filled = SumFunctionOnSet(qty, S) /\ Paid2 = SumFunctionOnSet(paid, S)
      /\ SpreadLayer = SumFunctionOnSet(spread, S) /\ TimingLayer = SumFunctionOnSet(timing, S)
      /\ OpportunityLayer = (Target - Filled) * (z - a) * sg
  BY DEF Filled, Paid2, SpreadLayer, TimingLayer, OpportunityLayer, EachFill, a, z, sg, mid
<1> HIDE DEF qty, paid, spread, timing, both, S
<1>10. SumFunctionOnSet(both, S) =
          1 * (SumFunctionOnSet(spread, S) - (-1) * SumFunctionOnSet(timing, S))
  BY <1>6, <1>7, SumFactors
<1>11. SumFunctionOnSet(both, S) =
          sg * (SumFunctionOnSet(paid, S) - a * SumFunctionOnSet(qty, S))
  <2>1. sg \in Int
    BY <1>2
  <2> QED BY <1>2, <1>6, <1>8, <2>1, SumFactors
<1>12. /\ Filled \in Int /\ Paid2 \in Int /\ SpreadLayer \in Int /\ TimingLayer \in Int
       /\ Target \in Int
  BY <1>6, <1>9, SumIsInt, OrderConstants
<1>13. SpreadLayer + TimingLayer = sg * (Paid2 - a * Filled)
  <2>1. SpreadLayer + TimingLayer = 1 * (SpreadLayer - (-1) * TimingLayer)
    BY <1>12
  <2> QED BY <1>9, <1>10, <1>11, <2>1
<1>14. \A f, p, t \in Int :
          sg * (p - a * f) + (t - f) * (z - a) * sg = sg * (p + (t - f) * z - t * a)
  BY <1>2
<1>15. SpreadLayer + TimingLayer + OpportunityLayer
          = sg * (Paid2 + (Target - Filled) * z - Target * a)
  <2>1. SpreadLayer + TimingLayer + OpportunityLayer
          = sg * (Paid2 - a * Filled) + (Target - Filled) * (z - a) * sg
    BY <1>9, <1>13
  <2> QED BY <1>12, <1>14, <2>1
<1> QED BY <1>15 DEF a, z, sg

-----------------------------------------------------------------------------
(* While a window is worked the stream is done with, and before one is     *)
(* followed no order is begun.                                             *)
LEMMA OrderStays ==
    ASSUME OrderInv, UNCHANGED orderVars
    PROVE  OrderInv'
<1>1. /\ side' = side /\ views' = views /\ traded' = traded /\ slice' = slice
      /\ remaining' = remaining /\ carry' = carry /\ fills' = fills /\ outcome' = outcome
  BY DEF orderVars, given
<1>2. /\ \A t : ViewAt(t)' = ViewAt(t) 
      /\ Filled' = Filled /\ Sent' = Sent /\ ViewAt(slice - 2)' = ViewAt(slice - 2)
      /\ \A v : TwoSided(v)' = TwoSided(v)
  BY <1>1 DEF ViewAt, Filled, EachFill, Sent, TwoSided
<1>3. OrderTypes' /\ NotBegun' /\ ViewsAscend' /\ DoneIsDone'
  BY <1>1 DEF OrderInv, OrderTypes, NotBegun, ViewsAscend, DoneIsDone
<1>4. KeepsSchedule'
  BY <1>1, <1>2 DEF OrderInv, KeepsSchedule
<1>5. FillsOfTheirView' /\ FillsAreWalks'
  BY <1>1, <1>2 DEF OrderInv, FillsOfTheirView, FillsAreWalks
<1>6. CarriesForDepth'
  BY <1>1, <1>2 DEF OrderInv, CarriesForDepth, Emptied
<1>7. PricedAtTouches'
  <2>1. Priced' = Priced
    BY <1>1, <1>2 DEF Priced
  <2> QED BY <1>1, <1>2, <2>1 DEF OrderInv, PricedAtTouches
<1> QED BY <1>3, <1>4, <1>5, <1>6, <1>7 DEF OrderInv

LEMMA StreamStays ==
    ASSUME StreamInv, UNCHANGED streamVars
    PROVE  StreamInv'
<1>1. seen' = seen /\ buffers' = buffers /\ carried' = carried /\ next' = next /\ handed' = handed
  BY DEF streamVars
<1>2. StreamTypes' /\ Ascending'
  BY <1>1 DEF StreamInv, StreamTypes, Ascending
<1>3. BuffersHold' /\ CarriesTheOneBefore'
  BY <1>1 DEF StreamInv, BuffersHold, CarriesTheOneBefore, Inside, Before
<1>4. HandedInOrder'
  <2>1. Due' = Due /\ \A s : Views(s)' = Views(s)
    BY <1>1 DEF Due, Views
  <2> QED BY <1>1, <2>1 DEF StreamInv, HandedInOrder
<1> QED BY <1>2, <1>3, <1>4 DEF StreamInv

(* The inductive invariant of the pass and the window followed.            *)
BacktestInv == StreamInv /\ OrderInv

THEOREM BacktestInductive == Spec => []BacktestInv
<1>1. Init => BacktestInv
  <2>1. StreamInit => Blank
    BY WindowsAssumption DEF StreamInit, Blank
  <2> QED BY <2>1, BlankStream, OrderInitHolds DEF Init, BacktestInv
<1>2. BacktestInv /\ [Next]_vars => BacktestInv'
  <2> SUFFICES ASSUME StreamInv, OrderInv, [Next]_vars
               PROVE  StreamInv' /\ OrderInv'
    BY DEF BacktestInv
  <2>1. ASSUME NEW t \in 0 .. Span, Passing(Take(t)) PROVE StreamInv' /\ OrderInv'
    BY <2>1, TakeKeepsStream, OrderStays DEF Passing
  <2>2. ASSUME Passing(StreamEnds) PROVE StreamInv' /\ OrderInv'
    BY <2>2, StreamEndsKeepsStream, OrderStays DEF Passing
  <2>3. ASSUME Passing(HandOver) PROVE StreamInv' /\ OrderInv'
    BY <2>3, HandOverKeepsStream, OrderStays DEF Passing
  <2>4. ASSUME Follow PROVE StreamInv' /\ OrderInv'
    <3>1. Blank'
      BY <2>4, WindowsAssumption DEF Follow, Blank
    <3>2. StreamInv'
      BY <3>1, BlankStream, PTL
    <3> QED BY <2>4, <3>2, FollowKeepsOrder
  <2>5. ASSUME Work PROVE StreamInv' /\ OrderInv'
    <3>1. StreamInv'
      BY <2>5, StreamStays DEF Work
    <3>2. OrderInv'
      <4>1. SliceWithoutView \/ SliceFills \/ NoFills \/ ArrivalMissing \/ PriceIt \/ PriceFails
        BY <2>5 DEF Work, OrderNext
      <4> QED BY <4>1, SliceWithoutViewKeeps, SliceFillsKeeps, EndsKeeps
    <3> QED BY <3>1, <3>2
  <2>6. ASSUME UNCHANGED vars PROVE StreamInv' /\ OrderInv'
    BY <2>6, StreamStays, OrderStays DEF vars
  <2> QED BY <2>1, <2>2, <2>3, <2>4, <2>5, <2>6 DEF Next
<1> QED BY <1>1, <1>2, PTL DEF Spec

(* What the pass and the order of a window are made of: instants, indices  *)
(* of views, amounts, the six outcomes of a window (backtest.py:128-181,   *)
(* analysis.py:157-232).                                                   *)
THEOREM BacktestTypes == Spec => [](StreamTypes /\ OrderTypes)
<1>1. BacktestInv => StreamTypes /\ OrderTypes
  BY DEF BacktestInv, StreamInv, OrderInv
<1> QED BY <1>1, BacktestInductive, PTL

(* A window is priced against exactly the views received while it was open *)
(* and the one before them, for any number of windows, however they        *)
(* overlap (backtest.py:159-181).                                          *)
THEOREM WindowsSeeTheirViews == Spec => []SeesItsViews
<1>1. BacktestInv => SeesItsViews
  BY StreamInvImplies DEF BacktestInv
<1> QED BY <1>1, BacktestInductive, PTL

(* What was sent so far is either filled or carried, and what is filled    *)
(* and what remains are the order (analysis.py:189-232).                   *)
THEOREM ScheduleKept == Spec => []KeepsSchedule
<1>1. BacktestInv => KeepsSchedule
  BY DEF BacktestInv, OrderInv
<1> QED BY <1>1, BacktestInductive, PTL

(* A fill is taken from the last view received by the time its child was   *)
(* sent, within the level shown and after every better level was emptied   *)
(* (analysis.py:203-229).                                                  *)
THEOREM FillsWalkTheirView == Spec => []FillsAreWalks
<1>1. BacktestInv => FillsAreWalks
  BY DEF BacktestInv, OrderInv
<1> QED BY <1>1, BacktestInductive, PTL

(* An order is left unfilled only when its last child emptied the view it  *)
(* found, or found none (analysis.py:180-183).                             *)
THEOREM UnfilledForDepth == Spec => []UnfilledOnlyForDepth
<1>1. BacktestInv => UnfilledOnlyForDepth
  BY LeftForDepth DEF BacktestInv
<1> QED BY <1>1, BacktestInductive, PTL

(* Spread, timing and opportunity sum to the implementation shortfall of   *)
(* any order over any views (analysis.py:254-309).                         *)
THEOREM LayersSum == Spec => []LayersSumToShortfall
<1>1. BacktestInv => LayersSumToShortfall
  BY LayersAddUp DEF BacktestInv
<1> QED BY <1>1, BacktestInductive, PTL
=============================================================================
