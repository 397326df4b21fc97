------------------------ MODULE DerivePipelineProofs ------------------------
(***************************************************************************)
(* What a SequenceTracker promises whoever calls it, and what the rows of  *)
(* iter_book_views, the owner that replays a capture, say of the venue:    *)
(* for every depth, number of levels under the checksum, set of            *)
(* quantities, and any number of calls, or of frames sent, lost or left    *)
(* without a checksum.                                                     *)
(***************************************************************************)
EXTENDS InspectVerify, TrackerCalls, BookOpsProofs

-----------------------------------------------------------------------------
(* A tracker in the hands of any owner.                                    *)

(* The history variable is the live book, or the book trust was lost with. *)
TrackerInv ==
    /\ state \in State
    /\ frozen = book
    /\ AnswersAreHonest

(* An update that on_update takes leaves the tracker where its answer says.*)
LEMMA UpdateAnswers ==
    ASSUME TrackerInv, NEW u, OnUpdate(u), Freeze
    PROVE  TrackerInv'
<1>1. CASE IgnoreUpdate(u)
  BY <1>1 DEF IgnoreUpdate, Freeze, Trusted, TrackerInv, AnswersAreHonest, Says
<1>2. CASE UpdateRaises(u)
  BY <1>2 DEF UpdateRaises, Freeze, Trusted, TrackerInv, AnswersAreHonest, Says
<1>3. CASE AcceptUnverified(u)
  <2>1. answer'.sum.kind # "crc"
    BY <1>3 DEF AcceptUnverified, Unverifiable, NoSum, ZeroSum, Says
  <2> QED BY <1>3, <2>1 DEF AcceptUnverified, ApplyUpdate, Freeze, Trusted, TrackerInv,
                            AnswersAreHonest, State
<1>4. CASE Verify(u)
  <2>1. state = "live" /\ frozen' = book'
    BY <1>4 DEF Verify, ApplyUpdate, Freeze, Trusted
  <2>2. \/ BookChecksum(book') = u.sum /\ state' = "live" /\ answer' = Says("true", u.sum)
        \/ state' = "disconnected" /\ answer' = Says("false", u.sum)
    BY <1>4 DEF Verify
  <2> QED BY <2>1, <2>2 DEF TrackerInv, AnswersAreHonest, Says, State, BookChecksum
<1> QED BY <1>1, <1>2, <1>3, <1>4 DEF OnUpdate

(* A call of any method keeps the invariant (sequence.py:163-251).         *)
THEOREM TrackerInvHolds == CallsSpec => []TrackerInv
<1> USE DEF TrackerInv
<1>1. CallsInit => TrackerInv
  BY DEF CallsInit, TrackerInit, State, AnswersAreHonest, Nothing, Says, NoSum
<1>2. TrackerInv /\ [CallsNext]_callsVars => TrackerInv'
  <2> SUFFICES ASSUME TrackerInv, [CallsNext]_callsVars
               PROVE  TrackerInv'
    OBVIOUS
  <2>1. CASE CallOnSnapshot
    <3>1. PICK f \in Frames : OnSnapshot(f) \/ SnapshotRaises(f)
      BY <2>1 DEF CallOnSnapshot
    <3>2. Freeze
      BY <2>1 DEF CallOnSnapshot
    <3> QED BY <3>1, <3>2 DEF OnSnapshot, SnapshotRaises, Freeze, Trusted, State,
                             AnswersAreHonest, Nothing, Says, NoSum
  <2>2. CASE CallOnUpdate
    BY <2>2, UpdateAnswers DEF CallOnUpdate
  <2>3. CASE CallOnDisconnect
    BY <2>3 DEF CallOnDisconnect, OnDisconnect, Freeze, Trusted, State, AnswersAreHonest,
                Nothing, Says, NoSum
  <2>4. CASE CallBuffer
    BY <2>4 DEF CallBuffer, Buffer, Freeze, Trusted, State, AnswersAreHonest, Nothing, Says, NoSum
  <2>5. CASE CallDrain
    BY <2>5 DEF CallDrain, Drain, Freeze, Trusted, State, AnswersAreHonest, Nothing, Says, NoSum
  <2>6. CASE UNCHANGED callsVars
    BY <2>6 DEF callsVars, trackerVars, AnswersAreHonest, BookChecksum
  <2> QED BY <2>1, <2>2, <2>3, <2>4, <2>5, <2>6 DEF CallsNext
<1> QED BY <1>1, <1>2, PTL DEF CallsSpec

(* A book that is not trusted stays as it was when trust was lost, under   *)
(* any sequence of calls without a snapshot (sequence.py:186-188, 214-251).*)
THEOREM FrozenWhileDistrusted == CallsSpec => []DistrustedBookIsFrozen
<1>1. TrackerInv => DistrustedBookIsFrozen
  BY DEF TrackerInv, DistrustedBookIsFrozen
<1> QED BY <1>1, TrackerInvHolds, PTL

(* The tracker vouches only for a book that matches the checksum it        *)
(* compared, and distrusts what it denies (sequence.py:195-212).           *)
THEOREM HonestAnswers == CallsSpec => []AnswersAreHonest
<1>1. TrackerInv => AnswersAreHonest
  BY DEF TrackerInv
<1> QED BY <1>1, TrackerInvHolds, PTL

-----------------------------------------------------------------------------
(* The replay of a capture.                                                *)

UpdateTells(f) ==
    \E b : f.truth = Window(b, Depth) /\ f.sum \in {NoSum, BookChecksum(b)}

Confirmed == LET true == Window(row.truth, ChecksumLevels)
             IN  Window(book, ChecksumLevels) = true \/ true \in ZeroTops

(* The tracker lost its trust when a view said false, and only then; no    *)
(* view has said true since.                                               *)
Distrust ==
    /\ denied \in BOOLEAN
    /\ denied => ready /\ row.ok # "true"
    /\ ready => (denied <=> state # "live")

(* A frame on the wire tells the venue's book; the last row tells ours,    *)
(* and a false one has cost the tracker its trust.                         *)
RowInv ==
    /\ seq \in Nat /\ row.seq \in Nat /\ row.seq <= seq
    /\ wire # << >> /\ Head1.type = "update" => UpdateTells(Head1)
    /\ row.ok = "false" => state # "live"
    /\ row.ok = "true" => Confirmed
    /\ Distrust


-----------------------------------------------------------------------------
(* The top of a window is the top of the book: a level among the best few  *)
(* has the same better levels in both.                                     *)
LEMMA TopOfWindow ==
    ASSUME NEW b, NEW n \in Nat, NEW m \in Nat, n <= m
    PROVE  Window(Window(b, m), n) = Window(b, n)
<1> DEFINE w == Window(b, m)
           Ahead(x, s, p) == {q \in Held(x[s]) : Better(s, q, p)}
<1>1. ASSUME NEW s \in Side, NEW p \in Price
      PROVE  Window(w, n)[s][p] = Window(b, n)[s][p]
  <2> DEFINE rank == [q \in Price |-> Cardinality(Ahead(b, s, q))]
  <2>1. ASSUME NEW q \in Price
        PROVE  IsFiniteSet(Ahead(b, s, q)) /\ rank[q] \in Nat
    <3>1. Ahead(b, s, q) \in SUBSET Held(b[s])
      OBVIOUS
    <3>2. IsFiniteSet(Ahead(b, s, q))
      BY <3>1, HeldFinite, FS_Subset
    <3> QED BY <3>2, FS_CardinalityType
  <2>2. ASSUME NEW q \in Price, Better(s, q, p)
        PROVE  rank[q] <= rank[p]
    <3>1. Held(b[s]) \subseteq Nat /\ p \in Nat /\ q \in Nat
      BY HeldFinite DEF Price
    <3>2. Ahead(b, s, q) \in SUBSET Ahead(b, s, p)
      BY <2>2, <3>1 DEF Better
    <3>3. Cardinality(Ahead(b, s, q)) <= Cardinality(Ahead(b, s, p))
      BY <2>1, <3>2, FS_Subset
    <3> QED BY <3>3
  <2>3. \A q \in Price : w[s][q] = IF rank[q] < m THEN b[s][q] ELSE 0
    BY DEF Window
  <2>4. Window(b, n)[s][p] = IF rank[p] < n THEN b[s][p] ELSE 0
    BY DEF Window
  <2>5. Window(w, n)[s][p] = IF Cardinality(Ahead(w, s, p)) < n THEN w[s][p] ELSE 0
    BY DEF Window
  <2>6. CASE rank[p] < m
    <3>1. Held(b[s]) \subseteq Price /\ Held(w[s]) \subseteq Price
      BY HeldFinite
    <3>2. \A q \in Price : q \in Held(w[s]) <=> q \in Held(b[s]) /\ rank[q] < m
      BY <2>3 DEF Held
    <3>3. \A q \in Price : Better(s, q, p) => rank[q] < m
      <4> TAKE q \in Price
      <4> HAVE Better(s, q, p)
      <4>1. rank[q] <= rank[p] /\ rank[q] \in Nat /\ rank[p] \in Nat
        BY <2>1, <2>2
      <4> HIDE DEF rank
      <4> QED BY <2>6, <4>1
    <3> HIDE DEF rank, w
    <3>4. Ahead(w, s, p) = Ahead(b, s, p)
      BY <3>1, <3>2, <3>3
    <3>5. Cardinality(Ahead(w, s, p)) = rank[p]
      BY <3>4 DEF rank
    <3> QED BY <2>3, <2>4, <2>5, <2>6, <3>5
  <2>7. CASE ~(rank[p] < m)
    <3>1. rank[p] \in Nat
      BY <2>1
    <3> HIDE DEF rank, w
    <3>2. ~(rank[p] < n) /\ w[s][p] = 0
      BY <2>3, <2>7, <3>1
    <3> QED BY <2>4, <2>5, <3>2
  <2> QED BY <2>6, <2>7
<1>2. \A x : Window(x, n) = [s \in Side |-> [p \in Price |-> Window(x, n)[s][p]]]
  BY DEF Window
<1> HIDE DEF w
<1>3. Window(w, n) = Window(b, n)
  BY <1>1, <1>2
<1> QED BY <1>3 DEF w

-----------------------------------------------------------------------------
(* How many levels of a side are nearer the touch than a price.            *)
Rank(b, s, p) == Cardinality({q \in Held(b[s]) : Better(s, q, p)})

LEMMA Ranks ==
    ASSUME NEW b, NEW s \in Side
    PROVE  \A p, q \in Price :
             /\ Rank(b, s, p) \in Nat
             /\ Better(s, q, p) => Rank(b, s, q) <= Rank(b, s, p)
             /\ p = q \/ Better(s, p, q) \/ Better(s, q, p)
<1> SUFFICES ASSUME NEW p \in Price, NEW q \in Price
             PROVE  /\ Rank(b, s, p) \in Nat
                    /\ Better(s, q, p) => Rank(b, s, q) <= Rank(b, s, p)
                    /\ p = q \/ Better(s, p, q) \/ Better(s, q, p)
  OBVIOUS
<1> DEFINE Ahead(x) == {y \in Held(b[s]) : Better(s, y, x)}
<1>1. \A x : IsFiniteSet(Ahead(x))
  <2> TAKE x
  <2>1. Ahead(x) \in SUBSET Held(b[s])
    OBVIOUS
  <2> QED BY <2>1, HeldFinite, FS_Subset
<1>2. p \in Nat /\ q \in Nat /\ Held(b[s]) \in SUBSET Nat
  BY HeldFinite, BookAssumption DEF Price
<1>3. ASSUME Better(s, q, p) PROVE Cardinality(Ahead(q)) <= Cardinality(Ahead(p))
  <2>1. Ahead(q) \in SUBSET Ahead(p)
    BY <1>2, <1>3 DEF Better
  <2> QED BY <1>1, <2>1, FS_Subset
<1>4. p = q \/ Better(s, p, q) \/ Better(s, q, p)
  BY <1>2 DEF Better
<1> QED BY <1>1, <1>3, <1>4, FS_CardinalityType DEF Rank

LEMMA WindowByRank ==
    ASSUME NEW b, NEW n, NEW s \in Side, NEW p \in Price
    PROVE  Window(b, n)[s][p] = IF Rank(b, s, p) < n THEN b[s][p] ELSE 0
BY DEF Window, Rank

(* A window holds no more than its depth.                                  *)
LEMMA WindowIsNarrow ==
    ASSUME NEW b, NEW s \in Side
    PROVE  Cardinality(Held(Window(b, Depth)[s])) <= Depth
<1> DEFINE w == Window(b, Depth)
           H == Held(w[s])
<1>1. Depth \in Nat \ {0} /\ IsFiniteSet(H) /\ Cardinality(H) \in Nat
  BY BookAssumption, HeldFinite
<1>2. CASE H = {}
  BY <1>1, <1>2, FS_EmptySet
<1>3. CASE H # {}
  <2> DEFINE x == Worst(w, s)
             A == {q \in Held(b[s]) : Better(s, q, x)}
  <2>1. x \in H /\ \A q \in H \ {x} : Better(s, q, x)
    BY <1>3, WorstIsWorst
  <2>2. x \in Price /\ \A q \in H : q \in Price
    BY <2>1, HeldFinite
  <2>3. \A q \in H : Rank(b, s, q) < Depth /\ q \in Held(b[s])
    BY <2>2, WindowByRank DEF Held
  <2>4. IsFiniteSet(A) /\ Cardinality(A) < Depth
    <3>1. A \in SUBSET Held(b[s])
      OBVIOUS
    <3>2. IsFiniteSet(A)
      BY <3>1, HeldFinite, FS_Subset
    <3> QED BY <2>1, <2>3, <3>2 DEF Rank
  <2>5. H \ {x} \in SUBSET A
    BY <2>1, <2>3
  <2> HIDE DEF H, A, x, w
  <2>6. /\ Cardinality(H \ {x}) = Cardinality(H) - 1
        /\ Cardinality(H \ {x}) <= Cardinality(A) /\ Cardinality(A) \in Nat
    BY <1>1, <2>1, <2>4, <2>5, FS_RemoveElement, FS_Subset, FS_CardinalityType
  <2>7. \A k, m, d \in Int : k - 1 <= m /\ m < d => k <= d
    OBVIOUS
  <2>8. Cardinality(H) <= Depth
    BY <1>1, <2>4, <2>6, <2>7
  <2> QED BY <2>8 DEF H, w
<1> QED BY <1>2, <1>3

(* A level outside the window is worse than every level in it, and then    *)
(* the window is full.                                                     *)
LEMMA WindowIsTrimmed ==
    ASSUME NEW b
    PROVE  TrimmedFrom(Window(b, Depth), b)
<1> DEFINE w == Window(b, Depth)
<1> SUFFICES ASSUME NEW s \in Side, NEW p \in Price
             PROVE  /\ w[s][p] \in {b[s][p], 0}
                    /\ b[s][p] # 0 /\ w[s][p] = 0 =>
                          /\ \A q \in Held(w[s]) : Better(s, q, p)
                          /\ Cardinality(Held(w[s])) >= Depth
  BY DEF TrimmedFrom
<1>1. \A q \in Price : /\ w[s][q] = IF Rank(b, s, q) < Depth THEN b[s][q] ELSE 0
                       /\ Rank(b, s, q) \in Nat
  BY WindowByRank, Ranks
<1>2. Depth \in Nat \ {0}
  BY BookAssumption
<1> HIDE DEF w
<1>3. ASSUME b[s][p] # 0, w[s][p] = 0, NEW q \in Held(w[s])
      PROVE  Better(s, q, p)
  <2>1. q \in Price /\ w[s][q] # 0
    BY DEF Held
  <2>2. Rank(b, s, q) < Depth /\ ~(Rank(b, s, p) < Depth)
    BY <1>1, <1>3, <2>1
  <2>3. q # p /\ ~(Rank(b, s, p) <= Rank(b, s, q))
    BY <1>1, <1>2, <2>1, <2>2
  <2> QED BY <2>1, <2>3, Ranks
<1>4. ASSUME b[s][p] # 0, w[s][p] = 0
      PROVE  Cardinality(Held(w[s])) >= Depth
  <2> DEFINE out == [x \in Side |-> [q \in Price |-> IF w[x][q] = 0 THEN b[x][q] ELSE 0]]
             o == Best(out, s)
             A == {q \in Held(b[s]) : Better(s, q, o)}
  <2>1. \A q : q \in Held(out[s]) <=> q \in Price /\ b[s][q] # 0 /\ w[s][q] = 0
    BY DEF Held
  <2>2. /\ o \in Held(out[s])
        /\ \A q \in Held(out[s]) \ {o} : Better(s, o, q)
    <3>1. Held(out[s]) # {}
      BY <1>4, <2>1
    <3> HIDE DEF out
    <3> QED BY <3>1, BestIsBest
  <2>3. o \in Price /\ b[s][o] # 0 /\ w[s][o] = 0
    BY <2>1, <2>2
  <2>4. ~(Rank(b, s, o) < Depth)
    BY <1>1, <2>3
  <2> HIDE DEF o, out
  <2>5. A \in SUBSET Held(w[s])
    <3> SUFFICES ASSUME NEW q \in Held(b[s]), Better(s, q, o)
                 PROVE  q \in Held(w[s])
      OBVIOUS
    <3>1. q \in Price /\ b[s][q] # 0 /\ q \in Nat /\ o \in Nat
      BY <2>3, BookAssumption DEF Held, Price
    <3>2. q # o /\ ~Better(s, o, q)
      BY <3>1 DEF Better
    <3> QED BY <2>1, <2>2, <3>1, <3>2 DEF Held
  <2>6. /\ Cardinality(A) <= Cardinality(Held(w[s]))
        /\ Cardinality(A) \in Nat /\ Cardinality(Held(w[s])) \in Nat
    <3>1. IsFiniteSet(Held(w[s])) /\ Cardinality(Held(w[s])) \in Nat
      BY HeldFinite
    <3> HIDE DEF A
    <3> QED BY <2>5, <3>1, FS_Subset, FS_CardinalityType
  <2>7. Cardinality(A) = Rank(b, s, o)
    BY DEF Rank
  <2> HIDE DEF A
  <2> QED BY <1>2, <2>4, <2>6, <2>7
<1> QED BY <1>1, <1>3, <1>4

-----------------------------------------------------------------------------
(* A finite set taken as a sequence is all there, each element once.       *)
LEMMA SetToSeqLists ==
    ASSUME NEW S, IsFiniteSet(S), NEW q, q = SetToSeq(S)
    PROVE  /\ q \in Seq(S) /\ Len(q) \in Nat
           /\ \A x \in S : \E i \in 1 .. Len(q) : q[i] = x
<1> DEFINE n == Cardinality(S)
<1>1. n \in Nat /\ ExistsBijection(1 .. n, S)
  BY FS_CardinalityType
<1>2. \E f \in [1 .. n -> S] : IsInjective(f)
  BY <1>1 DEF ExistsBijection, Bijection, Injection
<1>3. q \in Injection(1 .. n, S)
  BY <1>2 DEF SetToSeq, Injection
<1> HIDE DEF n
<1>4. IsFiniteSet(1 .. n) /\ Cardinality(1 .. n) = n
  <2>1. Cardinality(1 .. n) = IF 1 > n THEN 0 ELSE n - 1 + 1
    BY <1>1, FS_Interval
  <2> QED BY <1>1, <2>1, FS_Interval
<1>5. q \in Surjection(1 .. n, S)
  BY <1>3, <1>4, FS_Injection DEF n
<1>6. q \in [1 .. n -> S] /\ \A x \in S : \E i \in 1 .. n : q[i] = x
  BY <1>5 DEF Surjection
<1>7. Len(q) = n
  BY <1>1, <1>6
<1> QED BY <1>1, <1>6, <1>7

(* A frame that names no price twice sets each level it names to the       *)
(* quantity it gives, in whatever order, and leaves the others.            *)
NamesEachOnce(F) ==
    \A d, e \in F : d.side = e.side /\ d.price = e.price => d = e

LEMMA MergedBySet ==
    ASSUME NEW F, IsFiniteSet(F), NamesEachOnce(F), NEW f, f = SetToSeq(F),
           NEW b, NEW s \in Side, NEW p \in Price
    PROVE  /\ \A e \in F : e.side = s /\ e.price = p => Merged(b, f, Len(f))[s][p] = e.qty
           /\ (\A e \in F : ~(e.side = s /\ e.price = p)) => Merged(b, f, Len(f))[s][p] = b[s][p]
<1> DEFINE n == Len(f)
           T == Touches(f, n, s, p)
<1>1. n \in Nat /\ (\A i \in 1 .. n : f[i] \in F) /\ \A x \in F : \E i \in 1 .. n : f[i] = x
  <2>1. f \in Seq(F) /\ n \in Nat /\ \A x \in F : \E i \in 1 .. n : f[i] = x
    BY SetToSeqLists
  <2> QED BY <2>1
<1>2. Merged(b, f, n)[s][p] = IF T = {} THEN b[s][p] ELSE f[LastOf(T)].qty
  BY DEF Merged
<1>3. \A i : i \in T <=> i \in 1 .. n /\ f[i].side = s /\ f[i].price = p
  BY DEF Touches
<1> HIDE DEF T
<1>4. ASSUME NEW e \in F, e.side = s, e.price = p
      PROVE  Merged(b, f, n)[s][p] = e.qty
  <2>1. T # {} /\ T \in SUBSET (1 .. n)
    BY <1>1, <1>3, <1>4
  <2>2. LastOf(T) \in T
    BY <1>1, <2>1, LastOfIsLast
  <2>3. f[LastOf(T)] = e
    BY <1>1, <1>3, <1>4, <2>2 DEF NamesEachOnce
  <2> QED BY <1>2, <2>1, <2>3
<1>5. ASSUME \A e \in F : ~(e.side = s /\ e.price = p)
      PROVE  Merged(b, f, n)[s][p] = b[s][p]
  BY <1>1, <1>2, <1>3, <1>5
<1> QED BY <1>4, <1>5

LEMMA EntriesOfABook ==
    ASSUME NEW b
    PROVE  /\ NamesEachOnce(Entries(b))
           /\ IsFiniteSet(Entries(b))
           /\ \A e : e \in Entries(b) <=>
                \E s \in Side, p \in Price : e = [side |-> s, price |-> p, qty |-> b[s][p]]
<1>1. \A e : e \in Entries(b) <=>
        \E s \in Side, p \in Price : e = [side |-> s, price |-> p, qty |-> b[s][p]]
  BY DEF Entries
<1>2. NamesEachOnce(Entries(b))
  BY <1>1 DEF NamesEachOnce
<1>3. IsFiniteSet(Entries(b))
  <2> DEFINE g == [x \in Side \X Price |-> [side |-> x[1], price |-> x[2], qty |-> b[x[1]][x[2]]]]
  <2>1. IsFiniteSet(Side \X Price)
    <3>1. IsFiniteSet(Side)
      <4>1. IsFiniteSet({"bid"} \cup {"ask"})
        BY FS_AddElement, FS_Singleton
      <4>2. Side = {"bid"} \cup {"ask"}
        BY DEF Side
      <4> QED BY <4>1, <4>2
    <3>2. IsFiniteSet(Price)
      BY BookAssumption, FS_Interval DEF Price
    <3> QED BY <3>1, <3>2, FS_Product
  <2>2. g \in Surjection(Side \X Price, Entries(b))
    <3>1. \A x \in Side \X Price : g[x] \in Entries(b)
      BY <1>1
    <3>2. \A e \in Entries(b) : \E x \in Side \X Price : g[x] = e
      <4> TAKE e \in Entries(b)
      <4>1. PICK s \in Side, p \in Price : e = [side |-> s, price |-> p, qty |-> b[s][p]]
        BY <1>1
      <4>2. <<s, p>> \in Side \X Price /\ g[<<s, p>>] = e
        BY <4>1
      <4> QED BY <4>2
    <3> QED BY <3>1, <3>2 DEF Surjection
  <2> QED BY <2>1, <2>2, FS_Surjection
<1> QED BY <1>1, <1>2, <1>3

-----------------------------------------------------------------------------
LEMMA BooksAreNat ==
    ASSUME NEW b \in Book, NEW s \in Side, NEW p \in Price
    PROVE  b[s][p] \in Qty \cup {0} /\ b[s][p] \in Nat
<1>1. b[s][p] \in Qty \cup {0}
  BY DEF Book
<1>2. Qty \cup {0} \in SUBSET Nat
  BY BookAssumption
<1> QED BY <1>1, <1>2

(* What the venue announces turns the window of its old book into that of  *)
(* its new one: a level it says nothing of has not changed, or was pushed  *)
(* out, and the follower's own trim drops it.                              *)
LEMMA DeltaCarriesOver ==
    ASSUME NEW old \in Book, NEW new \in Book, ~Crossed(new)
    PROVE  /\ Applied(Window(old, Depth), DeltaOf(old, new)) = Window(new, Depth)
           /\ UpdateFits(Window(old, Depth), DeltaOf(old, new))
<1> DEFINE was == Window(old, Depth)
           is  == Window(new, Depth)
           F   == {e \in Entries(is) : /\ was[e.side][e.price] # e.qty
                                       /\ e.qty = 0 => new[e.side][e.price] = 0}
           f   == DeltaOf(old, new)
           M   == Merged(was, f, Len(f))
<1>1. f = SetToSeq(F)
  BY DEF DeltaOf
<1>2. was \in Book /\ is \in Book
  BY WindowIsBook
<1>3. TrimmedFrom(is, new) /\ \A s \in Side : Cardinality(Held(is[s])) <= Depth
  BY WindowIsTrimmed, WindowIsNarrow
<1>4. \A s \in Side, p \in Price : is[s][p] \in {new[s][p], 0}
  BY <1>3 DEF TrimmedFrom
<1> HIDE DEF was, is, f
<1>5. /\ F \in SUBSET Entries(is) /\ IsFiniteSet(F) /\ NamesEachOnce(F)
  <2>1. F \in SUBSET Entries(is) /\ IsFiniteSet(Entries(is)) /\ NamesEachOnce(Entries(is))
    BY EntriesOfABook
  <2> HIDE DEF F
  <2>2. IsFiniteSet(F)
    BY <2>1, FS_Subset
  <2> QED BY <2>1, <2>2 DEF NamesEachOnce
<1>6. ASSUME NEW e \in F
      PROVE  e.side \in Side /\ e.price \in Price /\ e.qty = is[e.side][e.price]
  <2>1. \E s \in Side, p \in Price : e = [side |-> s, price |-> p, qty |-> is[s][p]]
    BY <1>5, EntriesOfABook
  <2> QED BY <2>1
<1>7. ASSUME NEW s \in Side, NEW p \in Price
      PROVE  \/ M[s][p] = is[s][p]
             \/ is[s][p] = 0 /\ new[s][p] # 0 /\ M[s][p] = was[s][p]
  <2> DEFINE e == [side |-> s, price |-> p, qty |-> is[s][p]]
  <2>1. e \in Entries(is)
    BY EntriesOfABook
  <2>2. CASE e \in F
    <3>1. e.side = s /\ e.price = p /\ e.qty = is[s][p]
      OBVIOUS
    <3> HIDE DEF F, M, e
    <3>2. Merged(was, f, Len(f))[s][p] = e.qty
      BY <1>1, <1>5, <2>2, <3>1, MergedBySet
    <3> QED BY <3>1, <3>2 DEF M
  <2>3. CASE e \notin F
    <3>1. was[s][p] = is[s][p] \/ (is[s][p] = 0 /\ new[s][p] # 0)
      BY <2>1, <2>3
    <3>2. \A d \in F : ~(d.side = s /\ d.price = p)
      <4> SUFFICES ASSUME NEW d \in F, d.side = s, d.price = p PROVE FALSE
        OBVIOUS
      <4>1. \E x \in Side, y \in Price : d = [side |-> x, price |-> y, qty |-> is[x][y]]
        BY <1>5, EntriesOfABook
      <4>2. d = e
        BY <4>1
      <4> QED BY <2>3, <4>2
    <3> HIDE DEF F, M, e
    <3>3. Merged(was, f, Len(f))[s][p] = was[s][p]
      BY <1>1, <1>5, <3>2, MergedBySet
    <3> QED BY <3>1, <3>3 DEF M
  <2> QED BY <2>2, <2>3
<1> HIDE DEF F
<1>8. M \in Book
  <2>1. \A s \in Side, p \in Price : M[s][p] \in Qty \cup {0}
    <3> TAKE s \in Side, p \in Price
    <3>1. is[s][p] \in Qty \cup {0} /\ was[s][p] \in Qty \cup {0}
      BY <1>2 DEF Book
    <3> HIDE DEF M
    <3> QED BY <1>7, <3>1
  <2>2. M = [s \in Side |-> [p \in Price |-> M[s][p]]]
    BY DEF Merged
  <2> HIDE DEF M
  <2> QED BY <2>1, <2>2 DEF Book
<1> HIDE DEF M
<1>9. TrimmedFrom(is, M)
  <2> SUFFICES ASSUME NEW s \in Side, NEW p \in Price
               PROVE  /\ is[s][p] \in {M[s][p], 0}
                      /\ M[s][p] # 0 /\ is[s][p] = 0 =>
                            /\ \A q \in Held(is[s]) : Better(s, q, p)
                            /\ Cardinality(Held(is[s])) >= Depth
    BY DEF TrimmedFrom
  <2>1. M[s][p] # 0 /\ is[s][p] = 0 => new[s][p] # 0
    BY <1>7
  <2> QED BY <1>3, <1>7, <2>1 DEF TrimmedFrom
<1>10. is = Window(M, Depth)
  BY <1>2, <1>3, <1>8, <1>9, TrimReachesWindow
<1>11. Applied(was, f) = is
  BY <1>10 DEF Applied, M
<1>12. ~Crossed(is)
  <2>1. \A s \in Side : Held(is[s]) \in SUBSET Held(new[s])
    BY <1>4 DEF Held
  <2> QED BY <2>1 DEF Crossed, Side
<1>13. \A i \in 1 .. Len(f) : f[i].qty >= 0
  <2> TAKE i \in 1 .. Len(f)
  <2>1. f[i] \in F
    <3>1. f \in Seq(F)
      BY <1>1, <1>5, SetToSeqLists
    <3> QED BY <3>1
  <2>2. f[i].qty \in Nat
    BY <1>2, <1>6, <2>1, BooksAreNat
  <2> QED BY <2>2
<1>14. UpdateFits(was, f)
  BY <1>11, <1>12, <1>13 DEF UpdateFits
<1> QED BY <1>11, <1>14 DEF was, is, f

(* A snapshot loads the window it was taken of.                            *)
LEMMA SnapshotCarriesOver ==
    ASSUME NEW v \in Book
    PROVE  Loaded(SnapshotOf(v)) = Window(v, Depth)
<1> DEFINE w == Window(v, Depth)
           F == {e \in Entries(w) : e.qty # 0}
           f == SnapshotOf(v)
           M == Merged(EmptyBook, f, Len(f))
<1>1. f = SetToSeq(F)
  BY DEF SnapshotOf
<1>2. w \in Book
  BY WindowIsBook
<1> HIDE DEF w, f
<1>3. /\ F \in SUBSET Entries(w) /\ IsFiniteSet(F) /\ NamesEachOnce(F)
  <2>1. F \in SUBSET Entries(w) /\ IsFiniteSet(Entries(w)) /\ NamesEachOnce(Entries(w))
    BY EntriesOfABook
  <2> HIDE DEF F
  <2>2. IsFiniteSet(F)
    BY <2>1, FS_Subset
  <2> QED BY <2>1, <2>2 DEF NamesEachOnce
<1>4. ASSUME NEW s \in Side, NEW p \in Price
      PROVE  M[s][p] = w[s][p]
  <2> DEFINE e == [side |-> s, price |-> p, qty |-> w[s][p]]
  <2>1. e \in Entries(w)
    BY EntriesOfABook
  <2>2. CASE e \in F
    <3>1. e.side = s /\ e.price = p /\ e.qty = w[s][p]
      OBVIOUS
    <3> HIDE DEF F, M, e
    <3>2. Merged(EmptyBook, f, Len(f))[s][p] = e.qty
      BY <1>1, <1>3, <2>2, <3>1, MergedBySet
    <3> QED BY <3>1, <3>2 DEF M
  <2>3. CASE e \notin F
    <3>1. w[s][p] = 0 /\ EmptyBook[s][p] = 0
      BY <2>1, <2>3 DEF EmptyBook
    <3>2. \A d \in F : ~(d.side = s /\ d.price = p)
      <4> SUFFICES ASSUME NEW d \in F, d.side = s, d.price = p PROVE FALSE
        OBVIOUS
      <4>1. \E x \in Side, y \in Price : d = [side |-> x, price |-> y, qty |-> w[x][y]]
        BY <1>3, EntriesOfABook
      <4>2. d = e
        BY <4>1
      <4> QED BY <2>3, <4>2
    <3> HIDE DEF F, M, e
    <3>3. Merged(EmptyBook, f, Len(f))[s][p] = EmptyBook[s][p]
      BY <1>1, <1>3, <3>2, MergedBySet
    <3> QED BY <3>1, <3>3 DEF M
  <2> QED BY <2>2, <2>3
<1>5. M = [s \in Side |-> [p \in Price |-> M[s][p]]]
  BY DEF Merged
<1> HIDE DEF M
<1>6. w = [s \in Side |-> [p \in Price |-> w[s][p]]]
  BY <1>2 DEF Book
<1>7. M = w
  BY <1>4, <1>5, <1>6
<1> QED BY <1>7 DEF M, w, f, Loaded

-----------------------------------------------------------------------------
(* Two books with one checksum that is not 0 have one top.                 *)
LEMMA SumNamesTop ==
    ASSUME NEW a, NEW b, BookChecksum(a) = BookChecksum(b)
    PROVE  \/ Window(a, ChecksumLevels) = Window(b, ChecksumLevels)
           \/ Window(b, ChecksumLevels) \in ZeroTops
BY DEF BookChecksum, ZeroSum

LEMMA SumIsNoMissingSum ==
    ASSUME NEW b
    PROVE  /\ BookChecksum(b) # NoSum
           /\ BookChecksum(b) = ZeroSum => Window(b, ChecksumLevels) \in ZeroTops
BY DEF BookChecksum, ZeroSum, NoSum

-----------------------------------------------------------------------------
(* What the replay does in either specification: with the verifier beside  *)
(* it, the frames after its last are still read.                           *)
Moves == Next \/ ReplayIsOver
Replaying == Init /\ [][Moves]_vars

LEMMA BothReplay == Spec \/ InspectSpec => Replaying
<1>1. InspectInit => Init
  BY DEF InspectInit
<1>2. [Next]_vars => [Moves]_vars
  BY DEF Moves
<1>3. [InspectNext]_inspectVars => [Moves]_vars
  BY DEF InspectNext, inspectVars, Next, Moves
<1> QED BY <1>1, <1>2, <1>3, PTL DEF Spec, InspectSpec, Replaying

(* A step of the tracker counts what it applies.                           *)
LEMMA UpdateCounts ==
    ASSUME NEW u, OnUpdate(u), seq \in Nat
    PROVE  seq' \in Nat /\ seq' >= seq /\ (seq' = seq => book' = book)
BY DEF OnUpdate, IgnoreUpdate, UpdateRaises, AcceptUnverified, Verify, ApplyUpdate

LEMMA CheckedKeeps ==
    ASSUME RowInv, ReplayChecked
    PROVE  RowInv'
<1> DEFINE f == Head1
<1>0. /\ f.type = "update" /\ wire # << >> /\ wire' = << >> /\ f.sum # NoSum /\ OnUpdate(f)
      /\ raised' = (answer'.said = "raised")
      /\ IF raised' THEN UNCHANGED row ELSE Emit(answer'.said)
      /\ ready /\ ready' = ready
      /\ denied' = (denied \/ answer'.said = "false")
  BY DEF ReplayChecked, Consume
<1>1. PICK b : f.truth = Window(b, Depth) /\ f.sum = BookChecksum(b)
  BY <1>0 DEF RowInv, UpdateTells
<1>2. Window(f.truth, ChecksumLevels) = Window(b, ChecksumLevels)
  BY <1>1, TopOfWindow, BookAssumption, TrackerAssumption, PipelineAssumption
<1> HIDE DEF f
<1>3. seq' \in Nat /\ seq' >= seq
  BY <1>0, UpdateCounts DEF RowInv
<1>4. ASSUME Emit(answer'.said), Distrust',
             answer'.said = "false" => state' # "live",
             answer'.said = "true" => \/ Window(book', ChecksumLevels) = Window(b, ChecksumLevels)
                                     \/ Window(b, ChecksumLevels) \in ZeroTops
      PROVE  RowInv'
  <2>1. /\ row'.seq = seq' /\ row'.ok = answer'.said /\ row'.truth = f.truth
    BY <1>4 DEF Emit, f
  <2> QED BY <1>0, <1>2, <1>3, <1>4, <2>1 DEF RowInv, Confirmed
<1>5. CASE IgnoreUpdate(f)
  <2>1. answer'.said = "false" /\ state' # "live"
    BY <1>5 DEF IgnoreUpdate, Says
  <2>2. Emit(answer'.said)
    BY <1>0, <2>1
  <2>3. row'.ok = "false" /\ denied' = TRUE
    BY <1>0, <2>1, <2>2 DEF Emit
  <2>4. Distrust'
    BY <1>0, <2>1, <2>3 DEF Distrust
  <2> QED BY <1>4, <2>1, <2>2, <2>4
<1>6. CASE UpdateRaises(f)
  <2>1. answer'.said = "raised" /\ UNCHANGED <<book, seq, state>>
    BY <1>6 DEF UpdateRaises, Says
  <2>2. UNCHANGED row /\ denied' = denied
    BY <1>0, <2>1 DEF RowInv, Distrust
  <2>3. Distrust'
    BY <1>0, <2>1, <2>2 DEF RowInv, Distrust
  <2> QED BY <1>0, <2>1, <2>2, <2>3 DEF RowInv, Confirmed
<1>7. CASE AcceptUnverified(f)
  <2>1. answer'.said = "true" /\ f.sum = ZeroSum
    BY <1>0, <1>7 DEF AcceptUnverified, Unverifiable, Says
  <2>2. Window(b, ChecksumLevels) \in ZeroTops
    BY <1>1, <2>1, SumIsNoMissingSum
  <2>3. Emit(answer'.said) /\ denied' = denied
    BY <1>0, <2>1 DEF RowInv, Distrust
  <2>4. state = "live" /\ state' = "live" /\ ~denied
    BY <1>0, <1>7 DEF AcceptUnverified, ApplyUpdate, RowInv, Distrust
  <2>5. Distrust'
    BY <1>0, <2>3, <2>4 DEF RowInv, Distrust
  <2> QED BY <1>4, <2>1, <2>2, <2>3, <2>5
<1>8. CASE Verify(f)
  <2>1. \/ BookChecksum(book') = f.sum /\ state' = "live" /\ answer' = Says("true", f.sum)
        \/ state' = "disconnected" /\ answer' = Says("false", f.sum)
    BY <1>8 DEF Verify
  <2>2. \/ answer'.said = "true" /\ BookChecksum(book') = BookChecksum(b)
        \/ answer'.said = "false" /\ state' # "live"
    BY <1>1, <2>1 DEF Says
  <2>3. BookChecksum(book') = BookChecksum(b) =>
          \/ Window(book', ChecksumLevels) = Window(b, ChecksumLevels)
          \/ Window(b, ChecksumLevels) \in ZeroTops
    BY SumNamesTop
  <2>4. Emit(answer'.said) /\ ~denied
    BY <1>0, <1>8, <2>2 DEF Verify, ApplyUpdate, RowInv, Distrust
  <2>5. \/ answer'.said = "true" /\ state' = "live"
        \/ answer'.said = "false" /\ state' # "live"
    BY <2>1 DEF Says
  <2>6. Distrust'
    BY <1>0, <2>4, <2>5 DEF Emit, Distrust
  <2> QED BY <1>4, <2>2, <2>3, <2>4, <2>6
<1> QED BY <1>0, <1>5, <1>6, <1>7, <1>8 DEF OnUpdate

(* The inductive invariant of the pipeline, from the venue's frame to the  *)
(* row written (derive.py:66-93, sequence.py:163-212).                     *)
THEOREM RowInvHolds == Spec \/ InspectSpec => []RowInv
<1>1. Init => RowInv
  <2> SUFFICES ASSUME Init
               PROVE  RowInv
    OBVIOUS
  <2>1. Distrust
    BY Zenon DEF Init, Distrust
  <2> QED BY <2>1 DEF Init, TrackerInit, NoRow, RowInv
<1>2. RowInv /\ [Moves]_vars => RowInv'
  <2> SUFFICES ASSUME RowInv, [Moves]_vars
               PROVE  RowInv'
    OBVIOUS
  <2>1. ASSUME NEW frame, Send(frame), frame.type = "update" => UpdateTells(frame)
        PROVE  RowInv'
    <3>1. wire' = <<frame>> /\ Head1' = frame /\ UNCHANGED <<book, seq, state, row, ready, denied>>
      BY <2>1 DEF Send, Head1, trackerVars
    <3> QED BY <2>1, <3>1 DEF RowInv, Confirmed, UpdateTells, Distrust
  <2>2. CASE VenueSnapshot
    BY <2>1, <2>2 DEF VenueSnapshot
  <2>3. CASE VenueUpdate
    <3>1. PICK b \in NextBooks, carries \in Carries :
            Send([type |-> "update", levels |-> DeltaOf(venue, b), truth |-> Window(b, Depth),
                  sum |-> IF carries THEN BookChecksum(b) ELSE NoSum])
      BY <2>3 DEF VenueUpdate
    <3> QED BY <2>1, <3>1 DEF UpdateTells
  <2>4. CASE LoseFrame \/ SkipUntilReady \/ ReplayIsOver
    <3>1. wire' = << >> /\ UNCHANGED <<book, seq, state, row, ready, denied>>
      BY <2>4 DEF LoseFrame, SkipUntilReady, ReplayIsOver, Consume, trackerVars
    <3> QED BY <3>1 DEF RowInv, Confirmed, Distrust
  <2>5. CASE ReplaySnapshot
    <3>1. /\ wire' = << >> /\ seq' = seq + 1
          /\ row' = [seq |-> seq', ok |-> "none", truth |-> Head1.truth]
      BY <2>5 DEF ReplaySnapshot, Consume, OnSnapshot, Emit
    <3>2. /\ ready' = TRUE /\ denied' = FALSE /\ state' = "live"
          /\ row'.ok = "none"
      BY <2>5, <3>1 DEF ReplaySnapshot, OnSnapshot
    <3>3. Distrust'
      BY Zenon, <3>2 DEF Distrust
    <3> QED BY <3>1, <3>3 DEF RowInv
  <2>6. CASE ReplayUnchecked
    <3>1. /\ wire' = << >> /\ seq' = seq
          /\ row' = [seq |-> seq', ok |-> "none", truth |-> Head1.truth]
          /\ UNCHANGED <<state, ready, denied>>
      BY <2>6 DEF ReplayUnchecked, Consume, trackerVars, Emit
    <3> QED BY <3>1 DEF RowInv, Distrust
  <2>7. CASE ReplayChecked
    BY <2>7, CheckedKeeps
  <2>8. CASE UNCHANGED vars
    BY <2>8 DEF vars, trackerVars, RowInv, Confirmed, Head1, UpdateTells, Distrust
  <2> QED BY <2>2, <2>3, <2>4, <2>5, <2>6, <2>7, <2>8 DEF Moves, Next, Replay
<1> QED BY <1>1, <1>2, BothReplay, PTL DEF Replaying

(* A row that says true shows the venue's top of book, whatever was lost   *)
(* or left unapplied before it, unless that top's CRC32 is 0               *)
(* (sequence.py:195-212, types.py:63).                                     *)
THEOREM TrueRowsTellTheTruth == Spec \/ InspectSpec => []TrueRowsAreTrue
<1>1. RowInv => TrueRowsAreTrue
  BY DEF RowInv, Confirmed, TrueRowsAreTrue
<1> QED BY <1>1, RowInvHolds, PTL

(* Between two snapshots no row says true after one that said false,       *)
(* whatever frames come between, and the tracker keeps its trust until a   *)
(* row says false (sequence.py:163-212, derive.py:79-93).                  *)
THEOREM NoTruthWithoutTrust == Spec \/ InspectSpec => []FalseUntilSnapshot
<1>1. RowInv => FalseUntilSnapshot
  BY DEF RowInv, Distrust, FalseUntilSnapshot
<1> QED BY <1>1, RowInvHolds, PTL

(* book_seq orders the rows of a derivation and names the book each shows, *)
(* frames that are ignored, refused or left out included (derive.py:84-93).*)
THEOREM SeqOrdersRows == Spec => BookSeqOrdersRows
<1>1. RowInv /\ [Next]_vars =>
         [row' # row => /\ row'.seq >= row.seq
                        /\ row'.seq = row.seq => book' = book]_vars
  <2> SUFFICES ASSUME RowInv, Next, row' # row
               PROVE  row'.seq >= row.seq /\ (row'.seq = row.seq => book' = book)
    OBVIOUS
  <2>0. seq \in Nat /\ row.seq \in Nat /\ row.seq <= seq
    BY DEF RowInv
  <2>1. ReplaySnapshot \/ ReplayUnchecked \/ ReplayChecked
    BY DEF Next, Replay, VenueSnapshot, VenueUpdate, Send, LoseFrame, SkipUntilReady
  <2>2. /\ seq' \in Nat /\ seq' >= seq /\ (seq' = seq => book' = book)
        /\ row'.seq = seq'
    <3>1. CASE ReplaySnapshot
      BY <2>0, <3>1 DEF ReplaySnapshot, OnSnapshot, Emit
    <3>2. CASE ReplayUnchecked
      BY <2>0, <3>2 DEF ReplayUnchecked, trackerVars, Emit
    <3>3. CASE ReplayChecked
      <4>1. OnUpdate(Head1) /\ row'.seq = seq'
        BY <3>3 DEF ReplayChecked, Emit
      <4> QED BY <2>0, <4>1, UpdateCounts
    <3> QED BY <2>1, <3>1, <3>2, <3>3
  <2> QED BY <2>0, <2>2
<1> QED BY <1>1, RowInvHolds, PTL DEF Spec, BookSeqOrdersRows

-----------------------------------------------------------------------------
(* Whoever holds b is up to date with the venue, once the frame on the     *)
(* wire has been applied.                                                  *)
Follows(b) ==
    IF wire = << >> THEN b = Window(venue, Depth)
    ELSE Head1.type = "update" =>
            \E old \in Uncrossed : b = Window(old, Depth) /\ Head1.levels = DeltaOf(old, venue)

(* The frame on the wire is the venue's last.                              *)
WireTellsVenue ==
    wire # << >> =>
        /\ Head1.truth = Window(venue, Depth)
        /\ Head1.type = "snapshot" => Head1.levels = SnapshotOf(venue)
        /\ Head1.type = "update" => Head1.sum \in {NoSum, BookChecksum(venue)}

KeptUp == Follows(book) /\ state = "live" /\ ~raised /\ row.ok # "false" /\ book = row.truth

FollowInv ==
    /\ venue \in Uncrossed /\ gap \in Nat /\ bare \in Nat
    /\ WireTellsVenue
    /\ ready /\ gap = 0 /\ bare = 0 => KeptUp

LEMMA WindowsAreBooks ==
    ASSUME NEW v \in Uncrossed
    PROVE  v \in Book /\ ~Crossed(v) /\ BookChecksum(Window(v, Depth)) = BookChecksum(v)
<1>1. v \in Book /\ ~Crossed(v)
  BY DEF Uncrossed
<1>2. Window(Window(v, Depth), ChecksumLevels) = Window(v, ChecksumLevels)
  BY TopOfWindow, BookAssumption, TrackerAssumption, PipelineAssumption
<1> QED BY <1>1, <1>2 DEF BookChecksum

(* The frame on the wire brings a book that follows up to date, and it     *)
(* fits.                                                                   *)
LEMMA FrameBringsUpToDate ==
    ASSUME NEW b, Follows(b), venue \in Uncrossed, wire # << >>, Head1.type = "update"
    PROVE  /\ UpdateFits(b, Head1.levels)
           /\ Applied(b, Head1.levels) = Window(venue, Depth)
<1>1. PICK old \in Uncrossed : b = Window(old, Depth) /\ Head1.levels = DeltaOf(old, venue)
  BY DEF Follows
<1>2. old \in Book /\ venue \in Book /\ ~Crossed(venue)
  BY DEF Uncrossed
<1> QED BY <1>1, <1>2, DeltaCarriesOver

LEMMA SnapshotBringsUpToDate ==
    ASSUME WireTellsVenue, venue \in Uncrossed, wire # << >>, Head1.type = "snapshot"
    PROVE  Loaded(Head1.levels) = Window(venue, Depth)
BY SnapshotCarriesOver DEF WireTellsVenue, Uncrossed

(* A frame sent leaves whoever was up to date one frame behind.            *)
LEMMA SendKeepsFollowing ==
    ASSUME VenueSnapshot \/ VenueUpdate, venue \in Uncrossed
    PROVE  /\ venue' \in Uncrossed /\ WireTellsVenue'
           /\ wire' # << >>
           /\ \A b : Follows(b) => Follows(b)'
<1>0. wire = << >>
  BY DEF VenueSnapshot, VenueUpdate, Send
<1>1. CASE VenueSnapshot
  <2> DEFINE frame == [type |-> "snapshot", levels |-> SnapshotOf(venue), truth |-> Window(venue, Depth)]
  <2>1. wire' = <<frame>> /\ venue' = venue
    BY <1>1 DEF VenueSnapshot, Send
  <2>2. Head1' = frame
    BY <2>1 DEF Head1
  <2>3. /\ Head1'.type = "snapshot" /\ Head1'.levels = SnapshotOf(venue')
        /\ Head1'.truth = Window(venue', Depth) /\ wire' # << >>
    BY <2>1, <2>2
  <2>4. WireTellsVenue'
    BY <2>3 DEF WireTellsVenue
  <2>5. \A b : Follows(b)'
    BY <2>3 DEF Follows
  <2> QED BY <2>1, <2>3, <2>4, <2>5
<1>2. CASE VenueUpdate
  <2>1. PICK n \in NextBooks, carries \in Carries :
          /\ Send([type |-> "update", levels |-> DeltaOf(venue, n), truth |-> Window(n, Depth),
                   sum |-> IF carries THEN BookChecksum(n) ELSE NoSum])
          /\ venue' = n
    BY <1>2 DEF VenueUpdate
  <2> DEFINE frame == [type |-> "update", levels |-> DeltaOf(venue, n), truth |-> Window(n, Depth),
                       sum |-> IF carries THEN BookChecksum(n) ELSE NoSum]
  <2>2. wire' = <<frame>> /\ venue' \in Uncrossed
    BY <2>1 DEF Send, NextBooks
  <2>3. Head1' = frame
    BY <2>2 DEF Head1
  <2>4. /\ Head1'.type = "update" /\ Head1'.levels = DeltaOf(venue, venue')
        /\ Head1'.truth = Window(venue', Depth) /\ wire' # << >>
        /\ Head1'.sum \in {NoSum, BookChecksum(venue')}
    BY <2>1, <2>2, <2>3
  <2>5. WireTellsVenue'
    BY <2>4 DEF WireTellsVenue
  <2>6. \A b : Follows(b) => Follows(b)'
    <3> TAKE b
    <3> HAVE Follows(b)
    <3>1. b = Window(venue, Depth)
      BY <1>0 DEF Follows
    <3>2. \E old \in Uncrossed : b = Window(old, Depth) /\ Head1'.levels = DeltaOf(old, venue')
      BY <2>4, <3>1
    <3> QED BY <2>4, <3>2 DEF Follows
  <2> QED BY <2>2, <2>4, <2>5, <2>6
<1> QED BY <1>1, <1>2

LEMMA CheckedFollows ==
    ASSUME FollowInv, RowInv, ReplayChecked, gap = 0, bare = 0
    PROVE  KeptUp'
<1>0. /\ ready /\ wire # << >> /\ wire' = << >> /\ venue' = venue
      /\ Head1.type = "update" /\ Head1.sum # NoSum /\ OnUpdate(Head1)
      /\ raised' = (answer'.said = "raised")
      /\ IF raised' THEN UNCHANGED row ELSE Emit(answer'.said)
  BY DEF ReplayChecked, Consume
<1>1. KeptUp /\ venue \in Uncrossed
  BY <1>0 DEF FollowInv
<1>2. UpdateFits(book, Head1.levels) /\ Applied(book, Head1.levels) = Window(venue, Depth)
  BY <1>0, <1>1, FrameBringsUpToDate DEF KeptUp
<1>3. Head1.sum = BookChecksum(venue) /\ Head1.truth = Window(venue, Depth)
  BY <1>0 DEF FollowInv, WireTellsVenue
<1>4. AcceptUnverified(Head1) \/ Verify(Head1)
  BY <1>0, <1>1, <1>2 DEF KeptUp, OnUpdate, IgnoreUpdate, UpdateRaises
<1>5. book' = Window(venue, Depth)
  BY <1>2, <1>4 DEF AcceptUnverified, Verify, ApplyUpdate
<1>6. state' = "live" /\ answer'.said = "true"
  <2>1. CASE AcceptUnverified(Head1)
    <3>1. state = "live" /\ state' = state /\ answer' = Says("true", Head1.sum)
      BY <2>1 DEF AcceptUnverified, ApplyUpdate
    <3> QED BY <3>1 DEF Says
  <2>2. CASE Verify(Head1)
    <3>1. BookChecksum(book') = Head1.sum
      BY <1>1, <1>3, <1>5, WindowsAreBooks
    <3> QED BY <2>2, <3>1 DEF Verify, Says
  <2> QED BY <1>4, <2>1, <2>2
<1>7. ~raised' /\ row'.ok = "true" /\ row'.truth = Window(venue, Depth)
  <2>1. ~raised'
    <3>1. answer'.said # "raised"
      BY <1>6
    <3> QED BY <1>0, <3>1
  <2>2. Emit("true")
    BY <1>0, <1>6, <2>1
  <2> QED BY <1>3, <2>1, <2>2 DEF Emit
<1> QED BY <1>0, <1>5, <1>6, <1>7 DEF KeptUp, Follows

(* The frames that arrive whole keep the replay up to date                 *)
(* (derive.py:66-93, order_book.py:136-145, sequence.py:190-204).          *)
LEMMA FollowInductive ==
    ASSUME FollowInv, RowInv, [Moves]_vars
    PROVE  FollowInv'
<1>0. venue \in Uncrossed /\ gap \in Nat /\ bare \in Nat
  BY DEF FollowInv
<1>1. CASE VenueSnapshot \/ VenueUpdate
  <2>1. /\ venue' \in Uncrossed /\ WireTellsVenue' /\ wire' # << >>
        /\ \A b : Follows(b) => Follows(b)'
    BY <1>0, <1>1, SendKeepsFollowing
  <2>2. UNCHANGED <<book, state, ready, row, raised, gap, bare>>
    BY <1>1 DEF VenueSnapshot, VenueUpdate, Send, trackerVars
  <2>3. Follows(book) => Follows(book)'
    <3>1. \A b : b = book /\ Follows(b) => Follows(b)'
      BY <2>1
    <3> QED BY <2>2, <3>1 DEF Follows
  <2> QED BY <1>0, <2>1, <2>2, <2>3 DEF FollowInv, KeptUp
<1>2. CASE LoseFrame
  <2>1. wire' = << >> /\ venue' = venue /\ gap' = gap + 1 /\ bare' = bare
    BY <1>2 DEF LoseFrame
  <2>2. gap' \in Nat /\ gap' # 0
    BY <1>0, <2>1
  <2> QED BY <1>0, <2>1, <2>2 DEF FollowInv, WireTellsVenue
<1>3. CASE ReplayIsOver
  <2>1. /\ raised' /\ ready' = ready /\ gap' = gap /\ bare' = bare /\ raised
        /\ wire' = << >> /\ venue' = venue
    BY <1>3 DEF ReplayIsOver
  <2>2. ~(ready /\ gap = 0 /\ bare = 0)
    BY <2>1 DEF FollowInv, KeptUp
  <2> QED BY <1>0, <2>1, <2>2 DEF FollowInv, WireTellsVenue
<1>4. CASE ReplaySnapshot
  <2>1. /\ wire' = << >> /\ venue' = venue /\ gap' = 0 /\ bare' = 0
        /\ wire # << >> /\ Head1.type = "snapshot" /\ ~raised /\ raised' = raised
        /\ book' = Loaded(Head1.levels) /\ state' = "live"
        /\ row' = [seq |-> seq', ok |-> "none", truth |-> Head1.truth]
    BY <1>4 DEF ReplaySnapshot, Consume, OnSnapshot, Emit
  <2>2. book' = Window(venue, Depth) /\ Head1.truth = Window(venue, Depth)
    BY <2>1, SnapshotBringsUpToDate DEF FollowInv, WireTellsVenue
  <2>3. row'.ok = "none" /\ row'.truth = Head1.truth
    BY <2>1
  <2>4. KeptUp'
    BY <2>1, <2>2, <2>3 DEF KeptUp, Follows
  <2> QED BY <1>0, <2>1, <2>4 DEF FollowInv, WireTellsVenue
<1>5. CASE SkipUntilReady
  <2>1. wire' = << >> /\ venue' = venue /\ gap' = gap /\ bare' = bare /\ ~ready'
    BY <1>5 DEF SkipUntilReady, Consume
  <2> QED BY <1>0, <2>1 DEF FollowInv, WireTellsVenue
<1>6. CASE ReplayUnchecked
  <2>1. wire' = << >> /\ venue' = venue /\ gap' = gap /\ bare' = bare + 1
    BY <1>6 DEF ReplayUnchecked, Consume
  <2>2. bare' \in Nat /\ bare' # 0
    BY <1>0, <2>1
  <2> QED BY <1>0, <2>1, <2>2 DEF FollowInv, WireTellsVenue
<1>7. CASE ReplayChecked
  <2>1. wire' = << >> /\ venue' = venue /\ gap' = gap /\ bare' = bare
    BY <1>7 DEF ReplayChecked, Consume
  <2> QED BY <1>0, <1>7, <2>1, CheckedFollows DEF FollowInv, WireTellsVenue
<1>8. CASE UNCHANGED vars
  BY <1>8 DEF vars, trackerVars, FollowInv, KeptUp, Follows, WireTellsVenue, Head1
<1> QED BY <1>1, <1>2, <1>3, <1>4, <1>5, <1>6, <1>7, <1>8 DEF Moves, Next, Replay

THEOREM FollowInvHolds == Spec \/ InspectSpec => []FollowInv
<1>1. Init => FollowInv
  BY DEF Init, FollowInv, WireTellsVenue
<1>2. FollowInv /\ RowInv /\ [Moves]_vars => FollowInv'
  BY FollowInductive
<1> QED BY <1>1, <1>2, RowInvHolds, BothReplay, PTL DEF Replaying

(* While every frame since the last snapshot arrived and carried a         *)
(* checksum, the book of the replay is the venue's window, no frame is     *)
(* refused and no checksum fails, for every depth and any number of        *)
(* changes (order_book.py:136-145, derive.py:66-93).                       *)
THEOREM ReplayFollowsVenue == Spec \/ InspectSpec => []WindowFollowsVenue
<1>1. FollowInv => WindowFollowsVenue
  BY DEF FollowInv, KeptUp, WindowFollowsVenue
<1> QED BY <1>1, FollowInvHolds, PTL

-----------------------------------------------------------------------------
(* The verifier beside the replay: it follows the venue too, and the two   *)
(* hold one book for as long as both can judge it.                         *)
VerifierInv ==
    /\ vready /\ gap = 0 /\ ~vraised => Follows(vbook)
    /\ ready /\ bare = 0 /\ state = "live" /\ ~raised /\ ~vraised =>
          vready /\ vbook = book
    /\ ready /\ bare = 0 /\ state # "live" => disagreed \/ vraised
    /\ row.ok = "false" => ready

InspectInv == FollowInv /\ RowInv /\ VerifierInv

(* What feed does with the frame of a step: a verifier that follows the    *)
(* venue does not raise.                                                   *)
LEMMA FeedFollows ==
    ASSUME InspectInv, Feed(Head1), wire # << >>, ~vraised, vready', gap = 0 \/ Head1.type = "snapshot"
    PROVE  vbook' = Window(venue, Depth) /\ ~vraised'
<1>1. venue \in Uncrossed /\ WireTellsVenue
  BY DEF InspectInv, FollowInv
<1>2. CASE FeedSnapshot(Head1)
  BY <1>1, <1>2, SnapshotBringsUpToDate DEF FeedSnapshot
<1>3. CASE FeedEarly(Head1)
  BY <1>3 DEF FeedEarly, verifierVars
<1>4. CASE FeedRaises(Head1) \/ FeedUpdate(Head1)
  <2>1. /\ Head1.type = "update" /\ vready
    BY <1>4 DEF FeedRaises, FeedUpdate
  <2>2. Follows(vbook)
    BY <2>1 DEF InspectInv, VerifierInv
  <2>3. UpdateFits(vbook, Head1.levels) /\ Applied(vbook, Head1.levels) = Window(venue, Depth)
    BY <1>1, <2>1, <2>2, FrameBringsUpToDate
  <2> QED BY <1>4, <2>3 DEF FeedRaises, FeedUpdate
<1> QED BY <1>2, <1>3, <1>4 DEF Feed, Over

LEMMA FeedOnlyAdds ==
    ASSUME NEW f, Feed(f)
    PROVE  /\ (disagreed => disagreed') /\ (vraised => vraised') /\ (vready => vready')
<1>1. CASE Over \/ FeedEarly(f)
  BY <1>1 DEF Over, FeedEarly, verifierVars
<1>2. CASE FeedSnapshot(f) \/ FeedRaises(f)
  BY <1>2 DEF FeedSnapshot, FeedRaises
<1>3. CASE FeedUpdate(f)
  <2>1. /\ UNCHANGED <<vready, vraised>>
        /\ disagreed' = (disagreed \/ (f.sum # NoSum /\ BookChecksum(vbook') # f.sum))
    BY <1>3 DEF FeedUpdate
  <2>2. disagreed => disagreed'
    BY <2>1, Zenon
  <2> QED BY <2>1, <2>2
<1> QED BY <1>1, <1>2, <1>3 DEF Feed

(* An update that the replay checks and the verifier takes at the same     *)
(* book is judged alike.                                                   *)
LEMMA JudgedAlike ==
    ASSUME InspectInv, ReplayChecked, Feed(Head1)
    PROVE  VerifierInv'
<1>0. /\ ready /\ ready' = ready /\ wire # << >> /\ wire' = << >> /\ venue' = venue
      /\ Head1.type = "update" /\ Head1.sum # NoSum /\ OnUpdate(Head1)
      /\ gap' = gap /\ bare' = bare /\ ~raised
      /\ raised' = (answer'.said = "raised")
  BY DEF ReplayChecked, Consume
<1>1. (disagreed => disagreed') /\ (vraised => vraised')
  BY FeedOnlyAdds
<1>2. vready' /\ gap' = 0 /\ ~vraised' => Follows(vbook)'
  <2> HAVE vready' /\ gap' = 0 /\ ~vraised'
  <2>1. vbook' = Window(venue, Depth)
    BY <1>0, <1>1, FeedFollows
  <2> QED BY <1>0, <2>1 DEF Follows
<1>3. ASSUME bare = 0
      PROVE  /\ state' = "live" /\ ~raised' /\ ~vraised' => vready' /\ vbook' = book'
             /\ state' # "live" => disagreed' \/ vraised'
  <2>1. CASE state # "live"
    <3>1. state' = state
      BY <1>0, <2>1 DEF OnUpdate, IgnoreUpdate, UpdateRaises, AcceptUnverified, Verify, ApplyUpdate
    <3>2. disagreed \/ vraised
      BY <1>0, <1>3, <2>1 DEF InspectInv, VerifierInv
    <3> QED BY <1>1, <2>1, <3>1, <3>2
  <2>2. CASE vraised
    BY <1>1, <2>2
  <2>3. CASE state = "live" /\ ~vraised
    <3>1. vready /\ vbook = book
      BY <1>0, <1>3, <2>3 DEF InspectInv, VerifierInv
    <3>2. CASE UpdateFits(book, Head1.levels)
      <4>1. /\ vbook' = Applied(book, Head1.levels) /\ vready' /\ ~vraised'
            /\ BookChecksum(vbook') # Head1.sum => disagreed'
        <5>1. FeedUpdate(Head1)
          BY <1>0, <2>3, <3>1, <3>2 DEF Feed, Over, FeedSnapshot, FeedEarly, FeedRaises
        <5>2. /\ vbook' = Applied(vbook, Head1.levels) /\ UNCHANGED <<vready, vraised>>
              /\ disagreed' = (disagreed \/ (Head1.sum # NoSum /\ BookChecksum(vbook') # Head1.sum))
          BY <5>1 DEF FeedUpdate
        <5>3. BookChecksum(vbook') # Head1.sum => disagreed'
          BY <1>0, <5>2, Zenon
        <5> QED BY <2>3, <3>1, <5>2, <5>3
      <4>2. book' = Applied(book, Head1.levels)
        BY <1>0, <2>3, <3>2
           DEF OnUpdate, IgnoreUpdate, UpdateRaises, AcceptUnverified, Verify, ApplyUpdate
      <4>3. state' = "live" \/ BookChecksum(book') # Head1.sum
        BY <1>0, <2>3, <3>2
           DEF OnUpdate, IgnoreUpdate, UpdateRaises, AcceptUnverified, Verify, ApplyUpdate
      <4>4. book' = vbook'
        BY <4>1, <4>2
      <4> QED BY <4>1, <4>3, <4>4
    <3>3. CASE ~UpdateFits(book, Head1.levels)
      <4>1. vraised'
        BY <1>0, <2>3, <3>1, <3>3
           DEF Feed, Over, FeedSnapshot, FeedEarly, FeedRaises, FeedUpdate
      <4> QED BY <4>1
    <3> QED BY <3>2, <3>3
  <2> QED BY <2>1, <2>2, <2>3
<1> QED BY <1>0, <1>2, <1>3 DEF VerifierInv

LEMMA VerifierInductive ==
    ASSUME InspectInv, [InspectNext]_inspectVars
    PROVE  VerifierInv'
<1>0. venue \in Uncrossed /\ gap \in Nat /\ bare \in Nat
  BY DEF InspectInv, FollowInv
<1>1. CASE (VenueSnapshot \/ VenueUpdate) /\ UNCHANGED verifierVars
  <2>1. \A b : Follows(b) => Follows(b)'
    BY <1>0, <1>1, SendKeepsFollowing
  <2>2. /\ UNCHANGED <<book, state, ready, row, raised, gap, bare>>
        /\ UNCHANGED <<vbook, vready, disagreed, vraised>>
    BY <1>1 DEF VenueSnapshot, VenueUpdate, Send, trackerVars, verifierVars
  <2>3. Follows(vbook) => Follows(vbook)'
    <3>1. \A b : b = vbook /\ Follows(b) => Follows(b)'
      BY <2>1
    <3> QED BY <2>2, <3>1 DEF Follows
  <2> QED BY <2>2, <2>3 DEF InspectInv, VerifierInv
<1>2. CASE LoseFrame /\ UNCHANGED verifierVars
  <2>1. /\ gap' = gap + 1 /\ UNCHANGED <<book, state, ready, row, raised, bare>>
        /\ UNCHANGED <<vbook, vready, disagreed, vraised>>
    BY <1>2 DEF LoseFrame, trackerVars, verifierVars
  <2>2. gap' # 0
    BY <1>0, <2>1
  <2> QED BY <2>1, <2>2 DEF InspectInv, VerifierInv
<1>3. ASSUME wire # << >>, wire' = << >>, venue' = venue, gap' = gap, Feed(Head1)
      PROVE  vready' /\ gap' = 0 /\ ~vraised' => Follows(vbook)'
  <2> HAVE vready' /\ gap' = 0 /\ ~vraised'
  <2>1. vbook' = Window(venue, Depth)
    BY <1>3, FeedFollows, FeedOnlyAdds
  <2> QED BY <1>3, <2>1 DEF Follows
<1>4. CASE ReplayIsOver /\ Feed(Head1)
  <2>1. /\ raised /\ wire # << >> /\ wire' = << >>
        /\ UNCHANGED <<book, state, venue, ready, row, raised, gap, bare>>
    BY <1>4 DEF ReplayIsOver, trackerVars
  <2>2. (disagreed => disagreed') /\ (vraised => vraised')
    BY <1>4, FeedOnlyAdds
  <2>3. vready' /\ gap' = 0 /\ ~vraised' => Follows(vbook)'
    BY <1>3, <1>4, <2>1
  <2> QED BY <2>1, <2>2, <2>3 DEF InspectInv, VerifierInv
<1>5. CASE SkipUntilReady /\ Feed(Head1)
  <2>1. /\ ~ready /\ wire # << >> /\ wire' = << >>
        /\ UNCHANGED <<book, state, venue, ready, row, raised, gap, bare>>
    BY <1>5 DEF SkipUntilReady, Consume, trackerVars
  <2>2. vready' /\ gap' = 0 /\ ~vraised' => Follows(vbook)'
    BY <1>3, <1>5, <2>1
  <2> QED BY <2>1, <2>2 DEF InspectInv, VerifierInv
<1>6. CASE ReplayUnchecked /\ Feed(Head1)
  <2>1. /\ ready' /\ wire # << >> /\ wire' = << >> /\ bare' = bare + 1
        /\ UNCHANGED <<venue, gap>>
    BY <1>6 DEF ReplayUnchecked, Consume
  <2>2. vready' /\ gap' = 0 /\ ~vraised' => Follows(vbook)'
    BY <1>3, <1>6, <2>1
  <2>3. bare' # 0
    BY <1>0, <2>1
  <2> QED BY <2>1, <2>2, <2>3 DEF VerifierInv
<1>7. CASE ReplaySnapshot /\ Feed(Head1)
  <2>1. /\ ready' /\ state' = "live" /\ wire # << >> /\ wire' = << >> /\ venue' = venue
        /\ book' = Loaded(Head1.levels) /\ Head1.type = "snapshot" /\ gap' = 0
    BY <1>7 DEF ReplaySnapshot, OnSnapshot, Consume
  <2>2. ~vraised' => vready' /\ vbook' = book'
    BY <1>7, <2>1 DEF Feed, Over, FeedSnapshot, FeedEarly, FeedRaises, FeedUpdate, verifierVars
  <2>3. book' = Window(venue, Depth)
    BY <2>1, SnapshotBringsUpToDate DEF InspectInv, FollowInv
  <2>4. ~vraised' => Follows(vbook)'
    BY <2>1, <2>2, <2>3 DEF Follows
  <2> QED BY <2>1, <2>2, <2>4 DEF VerifierInv
<1>8. CASE ReplayChecked /\ Feed(Head1)
  BY <1>8, JudgedAlike
<1>9. CASE UNCHANGED inspectVars
  BY <1>9 DEF inspectVars, verifierVars, vars, trackerVars, InspectInv, VerifierInv,
              Follows, Head1
<1> QED BY <1>1, <1>2, <1>4, <1>5, <1>6, <1>7, <1>8, <1>9 DEF InspectNext, Replay

THEOREM InspectInductive == InspectSpec => []InspectInv
<1>1. InspectInit => VerifierInv
  BY DEF InspectInit, Init, NoRow, VerifierInv
<1>2. InspectInv /\ [InspectNext]_inspectVars => VerifierInv'
  BY VerifierInductive
<1>3. InspectSpec => []FollowInv /\ []RowInv
  BY FollowInvHolds, RowInvHolds, PTL
<1>4. InspectInv <=> FollowInv /\ RowInv /\ VerifierInv
  BY DEF InspectInv
<1> QED BY <1>1, <1>2, <1>3, <1>4, PTL DEF InspectSpec

(* A verifier that has a book and has not raised keeps the venue's window  *)
(* while no frame is lost, frames without a checksum included, and never   *)
(* raises then (inspect.py:38-49).                                         *)
THEOREM VerifierKeepsUp == InspectSpec => VerifierFollowsVenue
<1>1. InspectInv /\ [InspectNext]_inspectVars =>
        [(~vraised /\ vready' /\ gap' = 0 /\ wire' = << >>)
            => vbook' = Window(venue', Depth) /\ ~vraised']_inspectVars
  <2> SUFFICES ASSUME InspectInv, InspectNext,
                      ~vraised, vready', gap' = 0, wire' = << >>
               PROVE  vbook' = Window(venue', Depth) /\ ~vraised'
    OBVIOUS
  <2>0. venue \in Uncrossed /\ gap \in Nat
    BY DEF InspectInv, FollowInv
  <2>1. CASE (VenueSnapshot \/ VenueUpdate \/ LoseFrame) /\ UNCHANGED verifierVars
    <3>1. CASE VenueSnapshot \/ VenueUpdate
      BY <2>0, <3>1, SendKeepsFollowing
    <3>2. CASE LoseFrame
      <4>1. gap' = gap + 1
        BY <3>2 DEF LoseFrame
      <4> QED BY <2>0, <4>1
    <3> QED BY <2>1, <3>1, <3>2
  <2>2. CASE (Replay \/ ReplayIsOver) /\ Feed(Head1)
    <3>1. /\ wire # << >> /\ venue' = venue
          /\ gap' = gap \/ Head1.type = "snapshot"
      BY <2>2 DEF Replay, ReplaySnapshot, SkipUntilReady, ReplayUnchecked, ReplayChecked,
                  ReplayIsOver, Consume
    <3> QED BY <2>2, <3>1, FeedFollows
  <2> QED BY <2>1, <2>2 DEF InspectNext
<1> QED BY <1>1, InspectInductive, PTL DEF InspectSpec, VerifierFollowsVenue

(* A row with checksum_ok false is in a capture that inspect --verify does *)
(* not call verified, when no frame since the last snapshot lacked its     *)
(* checksum, whatever was lost (inspect.py:48-49, sequence.py:186-212).    *)
THEOREM FalseRowsReachTheReport == InspectSpec => []FalseRowsAreReported
<1>1. InspectInv => FalseRowsAreReported
  BY DEF InspectInv, RowInv, VerifierInv, FalseRowsAreReported
<1> QED BY <1>1, InspectInductive, PTL
=============================================================================
