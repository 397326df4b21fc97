--------------------------- MODULE BookOpsProofs ---------------------------
(***************************************************************************)
(* Facts about the functions of BookOps that hold for every MaxTick, Qty   *)
(* and Depth: the best and the worst price of a side exist, comparing the  *)
(* touch decides whether the whole book is crossed, and merging a frame or *)
(* cutting a window yields a book again.                                   *)
(***************************************************************************)
EXTENDS BookOps, FiniteSetTheorems, WellFoundedInduction, TLAPS

(* A non-empty set of naturals has a least element.                        *)
LEMMA LeastExists ==
    ASSUME NEW T \in SUBSET Nat, T # {}
    PROVE  \E m \in T : \A n \in T : m <= n
<1> DEFINE R == OpToRel(<, Nat)
<1>1. IsWellFoundedOn(R, Nat)
  BY NatLessThanWellFounded
<1> HIDE DEF R
<1>2. PICK m \in T : \A n \in T : ~(<<n, m>> \in R)
  BY <1>1, WFMin
<1>3. \A n \in T : ~(n < m)
  BY <1>2 DEF R, OpToRel
<1> QED BY <1>3

(* A non-empty set of naturals that has an upper bound has a greatest      *)
(* element.                                                                *)
LEMMA GreatestExists ==
    ASSUME NEW N \in Nat, NEW T \in SUBSET (0 .. N), T # {}
    PROVE  \E m \in T : \A n \in T : n <= m
<1> DEFINE U == {u \in Nat : N - u \in T}
<1>1. U # {}
  <2>1. PICK t \in T : TRUE
    OBVIOUS
  <2>2. N - t \in Nat /\ N - (N - t) = t
    BY <2>1
  <2> QED BY <2>1, <2>2
<1>2. PICK u \in U : \A v \in U : u <= v
  BY <1>1, LeastExists
<1>3. \A n \in T : n <= N - u
  <2> TAKE n \in T
  <2>1. N - n \in Nat /\ N - (N - n) = n
    OBVIOUS
  <2>2. u <= N - n
    BY <1>2, <2>1
  <2> QED BY <2>2
<1> QED BY <1>2, <1>3

(* What a side holds is a finite set of ticks, so it can be counted.       *)
LEMMA HeldFinite ==
    ASSUME NEW levels
    PROVE  /\ Held(levels) \in SUBSET Price
           /\ IsFiniteSet(Held(levels))
           /\ Cardinality(Held(levels)) \in Nat
<1>1. IsFiniteSet(Price)
  BY BookAssumption, FS_Interval DEF Price
<1>2. Held(levels) \in SUBSET Price
  BY DEF Held
<1>3. IsFiniteSet(Held(levels))
  BY <1>1, <1>2, FS_Subset
<1> QED BY <1>2, <1>3, FS_CardinalityType

(* A side that is not empty has a best price, and CHOOSE finds it.         *)
LEMMA BestIsBest ==
    ASSUME NEW b, NEW s \in Side, Held(b[s]) # {}
    PROVE  /\ Best(b, s) \in Held(b[s])
           /\ \A q \in Held(b[s]) \ {Best(b, s)} : Better(s, Best(b, s), q)
<1> DEFINE H == Held(b[s])
<1>1. H \in SUBSET (0 .. MaxTick) /\ H \in SUBSET Nat /\ H # {}
  BY HeldFinite, BookAssumption DEF Price
<1>2. \E p \in H : \A q \in H \ {p} : Better(s, p, q)
  <2>1. CASE s = "bid"
    <3>1. PICK p \in H : \A q \in H : q <= p
      BY <1>1, BookAssumption, GreatestExists
    <3>2. \A q \in H \ {p} : p > q
      BY <1>1, <3>1
    <3> QED BY <2>1, <3>1, <3>2 DEF Better
  <2>2. CASE s = "ask"
    <3>1. PICK p \in H : \A q \in H : p <= q
      BY <1>1, LeastExists
    <3>2. \A q \in H \ {p} : p < q
      BY <1>1, <3>1
    <3> QED BY <2>2, <3>1, <3>2 DEF Better
  <2> QED BY <2>1, <2>2 DEF Side
<1> QED BY <1>2 DEF Best

(* A side that is not empty has a worst price, and CHOOSE finds it.        *)
LEMMA WorstIsWorst ==
    ASSUME NEW b, NEW s \in Side, Held(b[s]) # {}
    PROVE  /\ Worst(b, s) \in Held(b[s])
           /\ \A q \in Held(b[s]) \ {Worst(b, s)} : Better(s, q, Worst(b, s))
<1> DEFINE H == Held(b[s])
<1>1. H \in SUBSET (0 .. MaxTick) /\ H \in SUBSET Nat /\ H # {}
  BY HeldFinite, BookAssumption DEF Price
<1>2. \E p \in H : \A q \in H \ {p} : Better(s, q, p)
  <2>1. CASE s = "ask"
    <3>1. PICK p \in H : \A q \in H : q <= p
      BY <1>1, BookAssumption, GreatestExists
    <3>2. \A q \in H \ {p} : q < p
      BY <1>1, <3>1
    <3> QED BY <2>1, <3>1, <3>2 DEF Better
  <2>2. CASE s = "bid"
    <3>1. PICK p \in H : \A q \in H : p <= q
      BY <1>1, LeastExists
    <3>2. \A q \in H \ {p} : q > p
      BY <1>1, <3>1
    <3> QED BY <2>2, <3>1, <3>2 DEF Better
  <2> QED BY <2>1, <2>2 DEF Side
<1> QED BY <1>2 DEF Worst

(* Comparing the two best prices is enough: the check apply_update makes   *)
(* at the touch finds every crossed pair of levels, however deep.          *)
THEOREM TouchDecidesCrossed ==
    ASSUME NEW b
    PROVE  TouchCrossed(b) <=> Crossed(b)
<1>1. ASSUME TouchCrossed(b) PROVE Crossed(b)
  BY <1>1, BestIsBest DEF TouchCrossed, Crossed, Side
<1>2. ASSUME Crossed(b) PROVE TouchCrossed(b)
  <2>1. PICK p \in Held(b["bid"]), q \in Held(b["ask"]) : p >= q
    BY <1>2 DEF Crossed
  <2> DEFINE top == Best(b, "bid")
             low == Best(b, "ask")
  <2>2. top \in Held(b["bid"]) /\ (p = top \/ top > p)
    BY <2>1, BestIsBest DEF Side, Better
  <2>3. low \in Held(b["ask"]) /\ (q = low \/ low < q)
    BY <2>1, BestIsBest DEF Side, Better
  <2>4. p \in Nat /\ q \in Nat /\ top \in Nat /\ low \in Nat
    BY <2>1, <2>2, <2>3, HeldFinite DEF Price
  <2>5. top >= low
    BY <2>1, <2>2, <2>3, <2>4
  <2> QED BY <2>1, <2>5 DEF TouchCrossed
<1> QED BY <1>1, <1>2

(* The entry that decides a price in a frame is the last that names it.    *)
LEMMA LastOfIsLast ==
    ASSUME NEW n \in Nat, NEW S \in SUBSET (1 .. n), S # {}
    PROVE  LastOf(S) \in S /\ \A j \in S : j <= LastOf(S)
<1>1. S \in SUBSET (0 .. n)
  OBVIOUS
<1>2. \E i \in S : \A j \in S : j <= i
  BY <1>1, GreatestExists
<1> QED BY <1>2 DEF LastOf

(* A frame without negative quantities turns a book into a book.           *)
LEMMA MergedIsBook ==
    ASSUME NEW b \in Book, NEW f \in Seq(Entry), NEW n \in 0 .. Len(f),
           \A i \in 1 .. n : f[i].qty >= 0
    PROVE  Merged(b, f, n) \in Book
<1> SUFFICES ASSUME NEW s \in Side, NEW p \in Price
             PROVE  Merged(b, f, n)[s][p] \in Qty \cup {0}
  BY DEF Merged, Book
<1> DEFINE T == Touches(f, n, s, p)
<1>1. CASE T = {}
  BY <1>1 DEF Merged, Book
<1>2. CASE T # {}
  <2>1. LastOf(T) \in T
    <3>1. n \in Nat /\ T \in SUBSET (1 .. n)
      BY DEF Touches
    <3> HIDE DEF T
    <3> QED BY <1>2, <3>1, LastOfIsLast
  <2>2. LastOf(T) \in 1 .. n
    BY <2>1 DEF Touches
  <2>3. f[LastOf(T)] \in Entry /\ f[LastOf(T)].qty >= 0
    BY <2>2
  <2>4. f[LastOf(T)].qty \in Qty \cup {0}
    BY <2>3 DEF Entry
  <2>5. Merged(b, f, n)[s][p] = f[LastOf(T)].qty
    BY <1>2 DEF Merged
  <2> QED BY <2>4, <2>5
<1> QED BY <1>1, <1>2

(* Cutting a window out of a book leaves a book.                           *)
LEMMA WindowIsBook ==
    ASSUME NEW b \in Book, NEW n
    PROVE  Window(b, n) \in Book
BY DEF Window, Book

LEMMA EmptyIsBook == EmptyBook \in Book
BY DEF EmptyBook, Book

(* An accepted snapshot is a book.                                         *)
LEMMA LoadedIsBook ==
    ASSUME NEW f \in Seq(Entry), SnapshotFits(f)
    PROVE  Loaded(f) \in Book
<1>1. \A i \in 1 .. Len(f) : f[i] \in Entry
  OBVIOUS
<1>2. \A i \in 1 .. Len(f) : f[i].qty >= 0
  <2> TAKE i \in 1 .. Len(f)
  <2>1. f[i].qty \in Qty \cup {0, -1}
    BY <1>1 DEF Entry
  <2>2. f[i].qty > 0
    BY DEF SnapshotFits
  <2>3. \A q \in Qty \cup {0, -1} : q > 0 => q >= 0
    BY BookAssumption
  <2> QED BY <2>1, <2>2, <2>3
<1> QED BY <1>2, EmptyIsBook, MergedIsBook DEF Loaded

(* Merging is incremental: applying one more entry to the merge of the     *)
(* first n gives the merge of the first n + 1.                             *)
LEMMA MergedOfNone ==
    ASSUME NEW b \in Book, NEW f
    PROVE  Merged(b, f, 0) = b
<1>1. \A s \in Side, p \in Price : Touches(f, 0, s, p) = {}
  BY DEF Touches
<1>2. Merged(b, f, 0) = [s \in Side |-> [p \in Price |-> b[s][p]]]
  BY <1>1 DEF Merged
<1> QED BY <1>2 DEF Book

Stored(b, entry) == [b EXCEPT ![entry.side][entry.price] = entry.qty]

LEMMA MergedStep ==
    ASSUME NEW b \in Book, NEW f \in Seq(Entry), NEW n \in Nat, n + 1 \in 1 .. Len(f)
    PROVE  Merged(b, f, n + 1) = Stored(Merged(b, f, n), f[n + 1])
<1> USE DEF Stored
<1> DEFINE e == f[n + 1]
           m == Merged(b, f, n)
           r == [m EXCEPT ![e.side][e.price] = e.qty]
<1>1. e \in Entry
  OBVIOUS
<1>2. ASSUME NEW s \in Side, NEW p \in Price
      PROVE  Merged(b, f, n + 1)[s][p] = r[s][p]
  <2> DEFINE T == Touches(f, n, s, p)
             U == Touches(f, n + 1, s, p)
  <2>1. CASE s = e.side /\ p = e.price
    <3>1. n + 1 \in U /\ U \in SUBSET (1 .. n + 1)
      BY <2>1 DEF Touches
    <3>2. LastOf(U) \in U /\ n + 1 <= LastOf(U)
      <4>1. n + 1 \in Nat
        OBVIOUS
      <4> HIDE DEF U
      <4> QED BY <3>1, <4>1, LastOfIsLast
    <3>3. LastOf(U) = n + 1
      BY <3>1, <3>2
    <3>4. Merged(b, f, n + 1)[s][p] = e.qty
      BY <3>1, <3>3 DEF Merged
    <3>5. r[s][p] = e.qty
      BY <2>1 DEF Merged
    <3> QED BY <3>4, <3>5
  <2>2. CASE s # e.side \/ p # e.price
    <3>1. U = T
      BY <2>2 DEF Touches
    <3>2. Merged(b, f, n + 1)[s][p] = m[s][p]
      BY <3>1 DEF Merged
    <3>3. r[s][p] = m[s][p]
      BY <2>2 DEF Merged
    <3> QED BY <3>2, <3>3
  <2> QED BY <2>1, <2>2
<1>3. Merged(b, f, n + 1) = [s \in Side |-> [p \in Price |-> r[s][p]]]
  BY <1>2 DEF Merged
<1>4. r = [s \in Side |-> [p \in Price |-> r[s][p]]]
  BY <1>1 DEF Merged, Entry
<1> QED BY <1>3, <1>4

(* Dropping the worst level of an over-deep side is one step of trimming.  *)
LEMMA TrimStep ==
    ASSUME NEW b \in Book, NEW full, TrimmedFrom(b, full),
           NEW s \in Side, Cardinality(Held(b[s])) > Depth
    PROVE  /\ Worst(b, s) \in Price
           /\ TrimmedFrom([b EXCEPT ![s][Worst(b, s)] = 0], full)
<1> DEFINE w == Worst(b, s)
           c == [b EXCEPT ![s][w] = 0]
<1>1. Held(b[s]) # {}
  BY FS_EmptySet, BookAssumption
<1>2. /\ w \in Held(b[s]) /\ w \in Price
      /\ \A q \in Held(b[s]) \ {w} : Better(s, q, w)
  BY <1>1, WorstIsWorst, HeldFinite
<1> HIDE DEF w
<1>3. Held(c[s]) = Held(b[s]) \ {w}
  BY <1>2 DEF Held, Book
<1>4. Cardinality(Held(c[s])) >= Depth
  <2> DEFINE H == Held(b[s])
  <2>1. IsFiniteSet(H) /\ w \in H /\ Held(c[s]) = H \ {w}
    BY <1>2, <1>3, HeldFinite
  <2> HIDE DEF c, H
  <2>2. Cardinality(H \ {w}) = Cardinality(H) - 1
    BY <2>1, FS_RemoveElement
  <2> USE DEF H
  <2> QED BY <2>2, <2>1, HeldFinite, BookAssumption
<1>5. ASSUME NEW x \in Side, NEW p \in Price
      PROVE  /\ c[x][p] \in {full[x][p], 0}
             /\ full[x][p] # 0 /\ c[x][p] = 0 =>
                   /\ \A q \in Held(c[x]) : Better(x, q, p)
                   /\ Cardinality(Held(c[x])) >= Depth
  <2>1. CASE x # s
    <3>1. c[x] = b[x]
      BY <2>1 DEF Book
    <3> QED BY <3>1 DEF TrimmedFrom
  <2>2. CASE x = s /\ p = w
    BY <1>2, <1>3, <1>4, <2>2 DEF Book
  <2>3. CASE x = s /\ p # w
    <3>1. c[x][p] = b[x][p]
      BY <2>3 DEF Book
    <3> QED BY <1>3, <1>4, <2>3, <3>1 DEF TrimmedFrom
  <2> QED BY <2>1, <2>2, <2>3
<1>6. TrimmedFrom(c, full)
  BY <1>5 DEF TrimmedFrom
<1> QED BY <1>2, <1>6 DEF w

(* A trimmed book that is no longer over-deep is the window of the book it *)
(* was trimmed from: the loops that pop the worst level keep exactly the   *)
(* best Depth levels of each side.                                         *)
THEOREM TrimReachesWindow ==
    ASSUME NEW b \in Book, NEW full \in Book, TrimmedFrom(b, full),
           \A s \in Side : Cardinality(Held(b[s])) <= Depth
    PROVE  b = Window(full, Depth)
<1>1. ASSUME NEW s \in Side, NEW p \in Price
      PROVE  b[s][p] = Window(full, Depth)[s][p]
  <2> DEFINE H == Held(b[s])
             B == {q \in Held(full[s]) : Better(s, q, p)}
  <2>1. /\ IsFiniteSet(H) /\ Cardinality(H) \in Nat
        /\ B \in SUBSET Held(full[s]) /\ IsFiniteSet(Held(full[s]))
    BY HeldFinite
  <2>2. IsFiniteSet(B) /\ Cardinality(B) \in Nat
    BY <2>1, FS_Subset, FS_CardinalityType
  <2>3. CASE full[s][p] = 0
    BY <2>3 DEF TrimmedFrom, Window
  <2>4. CASE full[s][p] # 0 /\ b[s][p] = 0
    <3>1. H \in SUBSET B
      BY <2>4 DEF TrimmedFrom, Held
    <3>2. Cardinality(H) >= Depth
      BY <2>4 DEF TrimmedFrom
    <3>3. Cardinality(H) <= Cardinality(B)
      BY <2>2, <3>1, FS_Subset
    <3>4. ~(Cardinality(B) < Depth)
      BY <2>1, <2>2, <3>2, <3>3, BookAssumption
    <3> QED BY <2>4, <3>4 DEF Window
  <2>5. CASE full[s][p] # 0 /\ b[s][p] # 0
    <3>1. b[s][p] = full[s][p] /\ p \in H
      BY <2>5 DEF TrimmedFrom, Held
    <3>2. B \in SUBSET (H \ {p})
      <4> SUFFICES ASSUME NEW q \in B PROVE q \in H /\ q # p
        OBVIOUS
      <4>1. q \in Nat /\ p \in Nat /\ q \in Price /\ full[s][q] # 0 /\ Better(s, q, p)
        BY DEF Price, Held
      <4>2. q # p /\ ~Better(s, p, q)
        BY <4>1 DEF Better
      <4>3. b[s][q] # 0
        BY <3>1, <4>1, <4>2 DEF TrimmedFrom
      <4> QED BY <4>1, <4>2, <4>3 DEF Held
    <3>3. Cardinality(H \ {p}) = Cardinality(H) - 1 /\ IsFiniteSet(H \ {p})
      BY <2>1, <3>1, FS_RemoveElement
    <3>4. Cardinality(B) <= Cardinality(H \ {p})
      BY <3>2, <3>3, FS_Subset
    <3>5. Cardinality(B) < Depth
      BY <2>1, <2>2, <3>3, <3>4, BookAssumption
    <3> QED BY <3>1, <3>5 DEF Window
  <2> QED BY <2>3, <2>4, <2>5
<1>2. b = [s \in Side |-> [p \in Price |-> b[s][p]]]
  BY DEF Book
<1>3. Window(full, Depth) = [s \in Side |-> [p \in Price |-> Window(full, Depth)[s][p]]]
  BY DEF Window
<1> QED BY <1>1, <1>2, <1>3
=============================================================================
