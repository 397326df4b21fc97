-------------------------- MODULE OrderBookProofs --------------------------
(***************************************************************************)
(* Theorems about OrderBook for every MaxTick, Qty, Depth, set of frames   *)
(* and bound.  The argument: the undo log always determines the book as it *)
(* was before the call (Before), no step inside apply_update changes       *)
(* Before, and IInv says how far the live book is from Before.             *)
(***************************************************************************)
EXTENDS OrderBook, BookOpsProofs, SequenceTheorems

-----------------------------------------------------------------------------
(* The undo log.                                                           *)

(* The first log entry of a price is its earliest.                         *)
LEMMA FirstOfIsFirst ==
    ASSUME NEW S \in SUBSET Nat, S # {}
    PROVE  FirstOf(S) \in S /\ \A j \in S : FirstOf(S) <= j
BY LeastExists DEF FirstOf

LEMMA FirstOfUnique ==
    ASSUME NEW S \in SUBSET Nat, NEW m \in S, \A j \in S : m <= j
    PROVE  FirstOf(S) = m
<1>1. FirstOf(S) \in S /\ \A j \in S : FirstOf(S) <= j
  BY FirstOfIsFirst
<1>2. FirstOf(S) <= m /\ m <= FirstOf(S) /\ FirstOf(S) \in Nat /\ m \in Nat
  BY <1>1
<1> QED BY <1>2

LEMMA BeforeIsBook ==
    ASSUME TypeOK
    PROVE  Before \in Book
<1> SUFFICES ASSUME NEW s \in Side, NEW p \in Price
             PROVE  Before[s][p] \in Qty \cup {0}
  BY DEF Before, Book
<1> DEFINE L == Logged(s, p)
<1>1. CASE L = {}
  BY <1>1 DEF Before, TypeOK, Book
<1>2. CASE L # {}
  <2>1. L \in SUBSET Nat /\ L \in SUBSET (1 .. Len(undo))
    BY DEF Logged, TypeOK
  <2>2. FirstOf(L) \in 1 .. Len(undo)
    BY <1>2, <2>1, FirstOfIsFirst
  <2>3. undo[FirstOf(L)] \in UndoEntry
    BY <2>2 DEF TypeOK
  <2>4. Before[s][p] = undo[FirstOf(L)].previous
    BY <1>2 DEF Before
  <2> QED BY <2>3, <2>4 DEF UndoEntry
<1> QED BY <1>1, <1>2

(* Outside a call the log is empty and Before is the book itself, in the   *)
(* present state and in the next.                                          *)
LEMMA BeforeAtRest ==
    /\ book \in Book /\ undo = << >> => Before = book
    /\ book' \in Book /\ undo' = << >> => Before' = book'
<1>1. ASSUME book \in Book, undo = << >> PROVE Before = book
  <2>1. \A s \in Side, p \in Price : Logged(s, p) = {}
    BY <1>1 DEF Logged
  <2>2. Before = [s \in Side |-> [p \in Price |-> book[s][p]]]
    BY <2>1 DEF Before
  <2> QED BY <1>1, <2>2 DEF Book
<1>2. ASSUME book' \in Book, undo' = << >> PROVE Before' = book'
  <2>1. \A s \in Side, p \in Price : Logged(s, p)' = {}
    BY <1>2 DEF Logged
  <2>2. Before' = [s \in Side |-> [p \in Price |-> book'[s][p]]]
    BY <2>1 DEF Before
  <2> QED BY <1>2, <2>2 DEF Book
<1> QED BY <1>1, <1>2

(* A step that changes neither the book nor the log leaves Before alone.   *)
LEMMA BeforeUnchanged == UNCHANGED <<book, undo>> => Before' = Before
BY DEF Before, Logged

(* Logging what a price holds and then overwriting it keeps the types and  *)
(* leaves Before alone: the heart of the rollback.                         *)
LEMMA WriteKeepsBefore ==
    ASSUME TypeOK, NEW s \in Side, NEW p \in Price, NEW q \in Qty \cup {0},
           Write(s, p, q)
    PROVE  /\ book' \in Book
           /\ undo' \in Seq(UndoEntry)
           /\ Before' = Before
<1> DEFINE e == [side |-> s, price |-> p, previous |-> book[s][p]]
           n == Len(undo)
<1>1. book' \in Book
  BY DEF Write, TypeOK, Book
<1>2. e \in UndoEntry
  BY DEF TypeOK, Book, UndoEntry
<1>3. /\ undo' \in Seq(UndoEntry)
      /\ Len(undo') = n + 1
      /\ \A i \in 1 .. n : undo'[i] = undo[i]
      /\ undo'[n + 1] = e
      /\ n \in Nat
  BY <1>2, AppendProperties, LenProperties DEF Write, TypeOK
<1>4. ASSUME NEW x \in Side, NEW y \in Price
      PROVE  Before'[x][y] = Before[x][y]
  <2> DEFINE L == Logged(x, y)
  <2>1. L \in SUBSET Nat /\ L \in SUBSET (1 .. n)
    BY <1>3 DEF Logged
  <2>2. CASE x # s \/ y # p
    <3>1. L' = L
      BY <1>2, <1>3, <2>2 DEF Logged
    <3>2. book'[x][y] = book[x][y]
      BY <2>2 DEF Write, TypeOK, Book
    <3>3. CASE L = {}
      BY <3>1, <3>2, <3>3 DEF Before
    <3>4. CASE L # {}
      <4>1. FirstOf(L) \in 1 .. n
        BY <2>1, <3>4, FirstOfIsFirst
      <4> QED BY <1>3, <3>1, <3>4, <4>1 DEF Before
    <3> QED BY <3>3, <3>4
  <2>3. CASE x = s /\ y = p
    <3>1. L' = L \cup {n + 1}
      BY <1>3, <2>3 DEF Logged
    <3>2. CASE L = {}
      <4>1. FirstOf(L') = n + 1
        BY <1>3, <3>1, <3>2, FirstOfUnique
      <4>2. Before'[x][y] = undo'[n + 1].previous
        BY <3>1, <4>1 DEF Before
      <4>3. Before[x][y] = book[s][p]
        BY <2>3, <3>2 DEF Before
      <4> QED BY <1>3, <4>2, <4>3
    <3>3. CASE L # {}
      <4>1. FirstOf(L) \in L /\ \A j \in L : FirstOf(L) <= j
        BY <2>1, <3>3, FirstOfIsFirst
      <4>2. FirstOf(L) \in 1 .. n
        BY <2>1, <4>1
      <4>3. FirstOf(L') = FirstOf(L)
        <5>1. \A j \in L' : FirstOf(L) <= j
          BY <1>3, <3>1, <4>1, <4>2
        <5>2. L' \in SUBSET Nat /\ FirstOf(L) \in L'
          BY <1>3, <2>1, <3>1, <4>1
        <5> HIDE DEF L
        <5> QED BY <5>1, <5>2, FirstOfUnique
      <4>4. Before'[x][y] = undo'[FirstOf(L')].previous
        BY <3>1 DEF Before
      <4>5. Before[x][y] = undo[FirstOf(L)].previous
        BY <3>3 DEF Before
      <4> QED BY <1>3, <4>2, <4>3, <4>4, <4>5
    <3> QED BY <3>2, <3>3
  <2> QED BY <2>2, <2>3
<1>5. Before' = Before
  BY <1>4 DEF Before
<1> QED BY <1>1, <1>3, <1>5

(* Undoing the last log entry leaves Before alone as well.                 *)
LEMMA UndoKeepsBefore ==
    ASSUME TypeOK, UndoLast
    PROVE  /\ book' \in Book
           /\ undo' \in Seq(UndoEntry)
           /\ Before' = Before
<1> DEFINE n == Len(undo)
           e == undo[n]
<1>1. n \in Nat \ {0} /\ e \in UndoEntry
  BY EmptySeq, LenProperties DEF TypeOK, UndoLast
<1>2. book' \in Book
  BY <1>1 DEF UndoLast, TypeOK, Book, UndoEntry
<1>3. /\ undo' \in Seq(UndoEntry)
      /\ Len(undo') = n - 1
      /\ \A i \in 1 .. n - 1 : undo'[i] = undo[i]
  <2>1. \A i \in 1 .. n - 1 : undo[i] \in UndoEntry
    BY <1>1 DEF TypeOK
  <2>2. undo' = SubSeq(undo, 1, n - 1)
    BY DEF UndoLast
  <2>3. n - 1 \in Int
    BY <1>1
  <2> HIDE DEF n
  <2>4. /\ SubSeq(undo, 1, n - 1) \in Seq(UndoEntry)
        /\ Len(SubSeq(undo, 1, n - 1)) = IF 1 <= n - 1 THEN n - 1 - 1 + 1 ELSE 0
        /\ \A i \in 1 .. n - 1 - 1 + 1 : SubSeq(undo, 1, n - 1)[i] = undo[1 + i - 1]
    BY <2>1, <2>3, SubSeqProperties
  <2> QED BY <1>1, <2>2, <2>4
<1>4. ASSUME NEW x \in Side, NEW y \in Price
      PROVE  Before'[x][y] = Before[x][y]
  <2> DEFINE L == Logged(x, y)
  <2>1. L \in SUBSET Nat /\ L \in SUBSET (1 .. n) /\ L' \in SUBSET (1 .. n - 1)
                         /\ L' \in SUBSET Nat
    BY <1>1, <1>3 DEF Logged
  <2>2. CASE x # e.side \/ y # e.price
    <3>1. L' = L
      BY <1>1, <1>3, <2>2 DEF Logged
    <3>2. book'[x][y] = book[x][y]
      BY <2>2 DEF UndoLast, TypeOK, Book
    <3>3. CASE L = {}
      BY <3>1, <3>2, <3>3 DEF Before
    <3>4. CASE L # {}
      <4>1. FirstOf(L) \in 1 .. n - 1
        BY <2>1, <3>1, <3>4, FirstOfIsFirst
      <4> QED BY <1>3, <3>1, <3>4, <4>1 DEF Before
    <3> QED BY <3>3, <3>4
  <2>3. CASE x = e.side /\ y = e.price
    <3>1. L = L' \cup {n}
      BY <1>1, <1>3, <2>3 DEF Logged
    <3>2. CASE L' = {}
      <4>1. FirstOf(L) = n
        BY <1>1, <3>1, <3>2, FirstOfUnique
      <4>2. Before[x][y] = e.previous
        BY <3>1, <4>1 DEF Before
      <4>3. Before'[x][y] = book'[x][y]
        BY <3>2 DEF Before
      <4>4. book'[x][y] = e.previous
        BY <2>3 DEF UndoLast, TypeOK, Book
      <4> QED BY <4>2, <4>3, <4>4
    <3>3. CASE L' # {}
      <4> DEFINE m == FirstOf(L')
      <4>1. m \in L' /\ \A j \in L' : m <= j
        <5> HIDE DEF L
        <5> QED BY <2>1, <3>3, FirstOfIsFirst
      <4>2. m \in 1 .. n - 1
        BY <2>1, <4>1
      <4>3. FirstOf(L) = m
        <5>1. \A j \in L : m <= j
          BY <1>1, <3>1, <4>1, <4>2
        <5>2. m \in L
          BY <3>1, <4>1
        <5> HIDE DEF L, m
        <5> QED BY <2>1, <5>1, <5>2, FirstOfUnique
      <4>4. Before'[x][y] = undo'[m].previous
        BY <3>3 DEF Before
      <4>5. Before[x][y] = undo[m].previous
        BY <3>1, <4>3 DEF Before
      <4> QED BY <1>3, <4>2, <4>4, <4>5
    <3> QED BY <3>2, <3>3
  <2> QED BY <2>2, <2>3
<1>5. Before' = Before
  BY <1>4 DEF Before
<1> QED BY <1>2, <1>3, <1>5

-----------------------------------------------------------------------------
(* The inductive invariant.                                                *)

LEMMA InitIInv == Init => IInv
<1> SUFFICES ASSUME Init PROVE IInv
  OBVIOUS
<1>1. TypeOK
  BY EmptyIsBook, EmptySeq DEF Init, TypeOK
<1>2. Before = EmptyBook
  BY <1>1, BeforeAtRest DEF Init, TypeOK
<1>3. ~Crossed(EmptyBook)
  BY DEF Crossed, Held, EmptyBook, Side
<1> QED BY <1>1, <1>2, <1>3 DEF Init, IInv, Progress

(* The steps between two calls: the book they leave is a book, uncrossed.  *)
LEMMA SnapshotKeepsIInv == IInv /\ ApplySnapshot => IInv'
<1> SUFFICES ASSUME IInv, ApplySnapshot PROVE IInv'
  OBVIOUS
<1>1. PICK f \in Frames : SnapshotFits(f) /\ book' = Loaded(f)
  BY DEF ApplySnapshot
<1>2. book' \in Book
  BY <1>1, FramesAssumption, LoadedIsBook
<1>3. TypeOK'
  BY <1>2 DEF IInv, TypeOK, ApplySnapshot
<1>4. Before' = book'
  BY <1>2, BeforeAtRest DEF ApplySnapshot, IInv, Progress
<1>5. ~Crossed(Before')
  BY <1>1, <1>4 DEF SnapshotFits
<1>6. pc' = "idle" /\ undo' = << >>
  BY DEF ApplySnapshot, IInv, Progress
<1> QED BY <1>3, <1>5, <1>6 DEF IInv, Progress

LEMMA ClearKeepsIInv == IInv /\ Clear => IInv'
<1> SUFFICES ASSUME IInv, Clear PROVE IInv'
  OBVIOUS
<1>1. book' \in Book /\ TypeOK'
  BY EmptyIsBook DEF IInv, TypeOK, Clear
<1>2. pc' = "idle" /\ undo' = << >>
  BY DEF Clear, IInv, Progress
<1>3. Before' = EmptyBook
  BY <1>1, <1>2, BeforeAtRest DEF Clear
<1>4. ~Crossed(EmptyBook)
  BY DEF Crossed, Held, EmptyBook, Side
<1> QED BY <1>1, <1>2, <1>3, <1>4 DEF IInv, Progress

LEMMA BeginKeepsIInv == IInv /\ BeginUpdate => IInv' /\ Before' = Before
<1> SUFFICES ASSUME IInv, BeginUpdate PROVE IInv' /\ Before' = Before
  OBVIOUS
<1>1. /\ frame' \in Frames /\ frame' \in Seq(Entry)
      /\ at' = 1 /\ undo' = << >> /\ undo = << >> /\ pc' = "levels"
      /\ book' = book /\ seq' = seq /\ book \in Book /\ seq \in Nat
  BY FramesAssumption DEF BeginUpdate, IInv, TypeOK, Progress
<1>2. TypeOK'
  BY <1>1, EmptySeq, LenProperties DEF TypeOK
<1>3. Before' = book /\ Before = book
  BY <1>1, BeforeAtRest
<1>4. book' = Merged(Before', frame', at' - 1)
  BY <1>1, <1>3, MergedOfNone
<1>5. \A i \in 1 .. at' - 1 : frame'[i].qty >= 0
  BY <1>1
<1> QED BY <1>1, <1>2, <1>3, <1>4, <1>5 DEF IInv, Progress

(* The steps of apply_update: each keeps IInv, and each but the last keeps *)
(* Before.                                                                 *)
LEMMA TouchKeepsIInv == IInv /\ TouchLevel => IInv' /\ Before' = Before
<1> SUFFICES ASSUME IInv, TouchLevel PROVE IInv' /\ Before' = Before
  OBVIOUS
<1> DEFINE e == frame[at]
           n == at - 1
<1>1. /\ frame \in Seq(Entry) /\ Len(frame) \in Nat
      /\ at \in 1 .. Len(frame) /\ n \in Nat /\ n + 1 = at
  BY LenProperties DEF IInv, TypeOK, TouchLevel
<1>2. e \in Entry /\ e.qty >= 0
  BY <1>1 DEF TouchLevel
<1>3. e.side \in Side /\ e.price \in Price /\ e.qty \in Qty \cup {0}
  BY <1>2 DEF Entry
<1>4. TypeOK /\ Write(e.side, e.price, e.qty)
  BY DEF IInv, TouchLevel
<1>5. book' \in Book /\ undo' \in Seq(UndoEntry) /\ Before' = Before
  BY <1>3, <1>4, WriteKeepsBefore
<1>6. TypeOK'
  BY <1>1, <1>5 DEF TouchLevel, IInv, TypeOK
<1>7. /\ Before \in Book /\ book = Merged(Before, frame, n)
      /\ \A i \in 1 .. n : frame[i].qty >= 0
  BY <1>4, BeforeIsBook DEF IInv, Progress, TouchLevel
<1>8. book' = Merged(Before, frame, n + 1)
  <2>1. book' = [book EXCEPT ![e.side][e.price] = e.qty]
    BY <1>4 DEF Write
  <2>2. n + 1 \in 1 .. Len(frame) /\ frame[n + 1] = e
    BY <1>1
  <2> HIDE DEF n, e
  <2>3. Before \in Book /\ frame \in Seq(Entry) /\ n \in Nat
    BY <1>1, <1>7
  <2>4. Merged(Before, frame, n + 1) = Stored(book, e)
    BY <1>7, <2>2, <2>3, MergedStep
  <2> QED BY <2>1, <2>4 DEF Stored
<1>9. at' - 1 = n + 1 /\ frame' = frame /\ pc' = "levels"
  BY <1>1 DEF TouchLevel
<1>10. book' = Merged(Before', frame', at' - 1)
  BY <1>5, <1>8, <1>9
<1>11. \A i \in 1 .. at' - 1 : frame'[i].qty >= 0
  BY <1>1, <1>2, <1>7, <1>9
<1>12. Progress'
  BY <1>9, <1>10, <1>11 DEF Progress
<1>13. frame' \in Frames
  BY DEF IInv, TouchLevel
<1> QED BY <1>5, <1>6, <1>12, <1>13 DEF IInv

LEMMA RejectKeepsIInv == IInv /\ (RejectLevel \/ RejectCrossed) => IInv' /\ Before' = Before
<1> SUFFICES ASSUME IInv, RejectLevel \/ RejectCrossed PROVE IInv' /\ Before' = Before
  OBVIOUS
<1>1. /\ UNCHANGED <<book, seq, frame, at, undo>>
      /\ pc' = "undo"
  BY DEF RejectLevel, RejectCrossed
<1>2. Before' = Before
  BY <1>1, BeforeUnchanged
<1> QED BY <1>1, <1>2 DEF IInv, TypeOK, Progress

LEMMA LevelsDoneKeepsIInv == IInv /\ LevelsDone => IInv' /\ Before' = Before
<1> SUFFICES ASSUME IInv, LevelsDone PROVE IInv' /\ Before' = Before
  OBVIOUS
<1>1. /\ UNCHANGED <<book, seq, frame, at, undo>> /\ pc = "levels" /\ pc' = "trim"
      /\ at - 1 = Len(frame) /\ frame \in Frames
  BY LenProperties DEF LevelsDone, IInv, TypeOK
<1>2. Before' = Before
  BY <1>1, BeforeUnchanged
<1>3. /\ book = Merged(Before, frame, Len(frame))
      /\ \A i \in 1 .. Len(frame) : frame[i].qty >= 0
  BY <1>1 DEF IInv, Progress
<1>4. TrimmedFrom(book, Merged(Before, frame, Len(frame)))
  BY <1>3 DEF TrimmedFrom
<1>5. Progress'
  BY <1>1, <1>2, <1>3, <1>4 DEF Progress
<1> QED BY <1>1, <1>2, <1>5 DEF IInv, TypeOK

LEMMA TrimKeepsIInv == IInv /\ (TrimBid \/ TrimAsk) => IInv' /\ Before' = Before
<1> SUFFICES ASSUME IInv, TrimBid \/ TrimAsk PROVE IInv' /\ Before' = Before
  OBVIOUS
<1>1. PICK s \in Side : TooDeep(s) /\ Write(s, Worst(book, s), 0)
  BY DEF TrimBid, TrimAsk, Side
<1>2. UNCHANGED <<seq, pc, frame, at>> /\ pc = "trim" /\ frame \in Frames
  BY DEF TrimBid, TrimAsk, IInv
<1> DEFINE full == Merged(Before, frame, Len(frame))
<1>3. /\ TypeOK /\ book \in Book /\ TrimmedFrom(book, full)
      /\ \A i \in 1 .. Len(frame) : frame[i].qty >= 0
  BY <1>2 DEF IInv, TypeOK, Progress
<1>4. Cardinality(Held(book[s])) > Depth
  BY <1>1 DEF TooDeep
<1>5. /\ Worst(book, s) \in Price
      /\ TrimmedFrom([book EXCEPT ![s][Worst(book, s)] = 0], full)
  BY <1>3, <1>4, TrimStep
<1>6. book' \in Book /\ undo' \in Seq(UndoEntry) /\ Before' = Before
  BY <1>1, <1>3, <1>5, WriteKeepsBefore
<1>7. TrimmedFrom(book', Merged(Before', frame', Len(frame')))
  BY <1>1, <1>2, <1>5, <1>6 DEF Write
<1>8. TypeOK'
  BY <1>2, <1>3, <1>6 DEF TypeOK
<1>9. Progress'
  BY <1>2, <1>3, <1>7 DEF Progress
<1> QED BY <1>2, <1>6, <1>8, <1>9 DEF IInv

LEMMA TrimDoneKeepsIInv == IInv /\ TrimDone => IInv' /\ Before' = Before
<1> SUFFICES ASSUME IInv, TrimDone PROVE IInv' /\ Before' = Before
  OBVIOUS
<1>1. /\ UNCHANGED <<book, seq, frame, at, undo>> /\ pc = "trim" /\ pc' = "check"
      /\ \A s \in Side : ~TooDeep(s)
  BY DEF TrimDone, Side
<1>2. Before' = Before
  BY <1>1, BeforeUnchanged
<1>3. \A s \in Side : ~TooDeep(s)'
  BY <1>1 DEF TooDeep
<1>4. Progress'
  BY <1>1, <1>2, <1>3 DEF IInv, Progress
<1> QED BY <1>1, <1>2, <1>4 DEF IInv, TypeOK

LEMMA AcceptKeepsIInv == IInv /\ Accept => IInv' /\ Before' = book
<1> SUFFICES ASSUME IInv, Accept PROVE IInv' /\ Before' = book
  OBVIOUS
<1>1. /\ book \in Book /\ book' = book /\ seq' = seq + 1
      /\ pc' = "idle" /\ frame' = << >> /\ at' = 1 /\ undo' = << >>
  BY DEF IInv, TypeOK, Accept, Return
<1>2. TypeOK'
  BY <1>1, EmptySeq DEF IInv, TypeOK
<1>3. Before' = book
  BY <1>1, BeforeAtRest
<1>4. ~Crossed(book)
  BY TouchDecidesCrossed DEF Accept
<1> QED BY <1>1, <1>2, <1>3, <1>4 DEF IInv, Progress

LEMMA UndoKeepsIInv == IInv /\ UndoLast => IInv' /\ Before' = Before
<1> SUFFICES ASSUME IInv, UndoLast PROVE IInv' /\ Before' = Before
  OBVIOUS
<1>1. TypeOK /\ pc' = "undo" /\ UNCHANGED <<seq, frame, at>>
  BY DEF IInv, UndoLast
<1>2. book' \in Book /\ undo' \in Seq(UndoEntry) /\ Before' = Before
  BY <1>1, UndoKeepsBefore
<1>3. TypeOK'
  BY <1>1, <1>2 DEF TypeOK
<1> QED BY <1>1, <1>2, <1>3 DEF IInv, Progress

LEMMA ReraiseKeepsIInv == IInv /\ Reraise => IInv' /\ Before' = Before
<1> SUFFICES ASSUME IInv, Reraise PROVE IInv' /\ Before' = Before
  OBVIOUS
<1>1. /\ undo = << >> /\ UNCHANGED <<book, seq>> /\ book \in Book
      /\ pc' = "idle" /\ frame' = << >> /\ at' = 1 /\ undo' = << >>
  BY DEF IInv, TypeOK, Reraise, Return
<1>2. Before' = Before
  BY <1>1, BeforeUnchanged
<1>3. TypeOK'
  BY <1>1, EmptySeq DEF IInv, TypeOK
<1> QED BY <1>1, <1>2, <1>3 DEF IInv, Progress

-----------------------------------------------------------------------------
(* Theorems of the specification.                                          *)

LEMMA NextKeepsIInv == IInv /\ [Next]_vars => IInv'
<1> SUFFICES ASSUME IInv, [Next]_vars PROVE IInv'
  OBVIOUS
<1>1. CASE ApplySnapshot
  BY <1>1, SnapshotKeepsIInv
<1>2. CASE Clear
  BY <1>2, ClearKeepsIInv
<1>3. CASE BeginUpdate
  BY <1>3, BeginKeepsIInv
<1>4. CASE TouchLevel
  BY <1>4, TouchKeepsIInv
<1>5. CASE RejectLevel \/ RejectCrossed
  BY <1>5, RejectKeepsIInv
<1>6. CASE LevelsDone
  BY <1>6, LevelsDoneKeepsIInv
<1>7. CASE TrimBid \/ TrimAsk
  BY <1>7, TrimKeepsIInv
<1>8. CASE TrimDone
  BY <1>8, TrimDoneKeepsIInv
<1>9. CASE Accept
  BY <1>9, AcceptKeepsIInv
<1>10. CASE UndoLast
  BY <1>10, UndoKeepsIInv
<1>11. CASE Reraise
  BY <1>11, ReraiseKeepsIInv
<1>12. CASE UNCHANGED vars
  <2>1. Before' = Before
    BY <1>12, BeforeUnchanged DEF vars
  <2> QED BY <1>12, <2>1 DEF IInv, TypeOK, Progress, vars, TooDeep
<1> QED BY <1>1, <1>2, <1>3, <1>4, <1>5, <1>6, <1>7, <1>8, <1>9, <1>10, <1>11, <1>12
        DEF Next

(* The inductive invariant holds in every reachable state.                 *)
THEOREM IInvHolds == Spec => []IInv
<1>1. Init => IInv
  BY InitIInv
<1>2. IInv /\ [Next]_vars => IInv'
  BY NextKeepsIInv
<1> QED BY <1>1, <1>2, PTL DEF Spec

(* The book, the log and the program counter keep their types.             *)
THEOREM TypeCorrect == Spec => []TypeOK
<1>1. IInv => TypeOK
  BY DEF IInv
<1> QED BY <1>1, IInvHolds, PTL

(* No frame, applied, refused or rolled back, leaves a crossed book behind *)
(* (order_book.py:94-95 and 150-153).                                      *)
THEOREM NeverCrossed == Spec => []NeverCrossedAtRest
<1>1. IInv => NeverCrossedAtRest
  <2> SUFFICES ASSUME IInv, pc = "idle" PROVE ~Crossed(book)
    BY DEF NeverCrossedAtRest
  <2>1. Before = book
    BY BeforeAtRest DEF IInv, TypeOK, Progress
  <2> QED BY <2>1 DEF IInv
<1> QED BY <1>1, IInvHolds, PTL

(* The book accepted after the trim is the window of the whole frame's     *)
(* merge into the book the call found.                                     *)
LEMMA AcceptTakesWhole ==
    ASSUME IInv, Accept
    PROVE  /\ frame \in Frames
           /\ UpdateFits(Before, frame)
           /\ Before' = Applied(Before, frame)
<1> DEFINE full == Merged(Before, frame, Len(frame))
<1>1. /\ frame \in Frames /\ frame \in Seq(Entry) /\ TypeOK /\ book \in Book
      /\ \A i \in 1 .. Len(frame) : frame[i].qty >= 0
      /\ TrimmedFrom(book, full)
      /\ \A s \in Side : ~TooDeep(s)
  BY DEF IInv, TypeOK, Progress, Accept
<1>2. Before \in Book
  BY <1>1, BeforeIsBook
<1>3. Len(frame) \in 0 .. Len(frame)
  BY <1>1, LenProperties
<1>4. full \in Book
  BY <1>1, <1>2, <1>3, MergedIsBook
<1>5. \A s \in Side : Cardinality(Held(book[s])) <= Depth
  BY <1>1, HeldFinite, BookAssumption DEF TooDeep
<1>6. book = Window(full, Depth)
  <2> HIDE DEF full
  <2> QED BY <1>1, <1>4, <1>5, TrimReachesWindow
<1>7. book = Applied(Before, frame)
  BY <1>6 DEF Applied
<1>8. ~Crossed(book)
  BY TouchDecidesCrossed DEF Accept
<1>9. Before' = book
  BY AcceptKeepsIInv
<1> QED BY <1>1, <1>7, <1>8, <1>9 DEF UpdateFits

(* Every step of the methods is one step of AtomicBook or none: an update  *)
(* is taken whole or leaves no trace, whatever line of it failed.          *)
THEOREM Transactional == Spec => TakesFramesWhole
<1>1. Init => Abstract!Init
  <2> SUFFICES ASSUME Init PROVE Abstract!Init
    OBVIOUS
  <2>1. Before = EmptyBook
    BY EmptyIsBook, BeforeAtRest DEF Init
  <2> QED BY <2>1 DEF Init, Abstract!Init
<1>2. IInv /\ [Next]_vars => [Abstract!Next]_<<Before, seq>>
  <2> SUFFICES ASSUME IInv, [Next]_vars PROVE [Abstract!Next]_<<Before, seq>>
    OBVIOUS
  <2>1. CASE ApplySnapshot
    <3>1. PICK f \in Frames : SnapshotFits(f) /\ book' = Loaded(f)
      BY <2>1 DEF ApplySnapshot
    <3>2. Before' = Loaded(f) /\ seq' = seq + 1
      <4>1. book' \in Book
        BY <3>1, FramesAssumption, LoadedIsBook
      <4> QED BY <2>1, <3>1, <4>1, BeforeAtRest DEF ApplySnapshot, IInv, Progress
    <3> QED BY <3>1, <3>2
            DEF Abstract!Next, Abstract!Take, Abstract!TakeSnapshot
  <2>2. CASE Clear
    <3>1. Before' = EmptyBook /\ seq' = seq
      BY <2>2, EmptyIsBook, BeforeAtRest DEF Clear, IInv, Progress
    <3> QED BY <3>1 DEF Abstract!Next, Abstract!Drop
  <2>3. CASE Accept
    <3>1. /\ frame \in Frames
          /\ UpdateFits(Before, frame)
          /\ Before' = Applied(Before, frame)
      BY <2>3, AcceptTakesWhole
    <3>2. seq' = seq + 1
      BY <2>3 DEF Accept
    <3> QED BY <3>1, <3>2
            DEF Abstract!Next, Abstract!Take, Abstract!TakeUpdate
  <2>4. CASE \/ BeginUpdate \/ TouchLevel \/ RejectLevel \/ LevelsDone
             \/ TrimBid \/ TrimAsk \/ TrimDone \/ RejectCrossed \/ UndoLast \/ Reraise
    <3>1. Before' = Before
      BY <2>4, BeginKeepsIInv, TouchKeepsIInv, RejectKeepsIInv, LevelsDoneKeepsIInv,
         TrimKeepsIInv, TrimDoneKeepsIInv, UndoKeepsIInv, ReraiseKeepsIInv
    <3>2. seq' = seq
      BY <2>4 DEF BeginUpdate, TouchLevel, RejectLevel, LevelsDone, TrimBid, TrimAsk,
                  TrimDone, RejectCrossed, UndoLast, Reraise
    <3> QED BY <3>1, <3>2
  <2>5. CASE UNCHANGED vars
    BY <2>5, BeforeUnchanged DEF vars
  <2> QED BY <2>1, <2>2, <2>3, <2>4, <2>5 DEF Next
<1> QED BY <1>1, <1>2, IInvHolds, PTL DEF Spec, TakesFramesWhole, Abstract!Spec

-----------------------------------------------------------------------------
(* Dropping the worst level of a side that holds more than one level       *)
(* leaves its best price where it is.                                      *)
LEMMA TrimLeavesBest ==
    ASSUME book \in Book, NEW s \in Side, TooDeep(s), Write(s, Worst(book, s), 0),
           NEW x \in Side, Held(book[x]) # {}
    PROVE  Held(book'[x]) # {} /\ Best(book', x) = Best(book, x)
<1> DEFINE w == Worst(book, s)
           b == Best(book, s)
           H == Held(book[s])
<1>1. book' = [book EXCEPT ![s][w] = 0]
  BY DEF Write
<1>2. CASE x # s
  <2>1. book'[x] = book[x]
    BY <1>1, <1>2 DEF Book
  <2> QED BY <2>1 DEF Best
<1>3. CASE x = s
  <2>1. /\ H \in SUBSET Price /\ w \in H /\ b \in H
        /\ \A q \in H \ {w} : Better(s, q, w)
        /\ \A q \in H \ {b} : Better(s, b, q)
    BY <1>3, HeldFinite, BestIsBest, WorstIsWorst
  <2>2. Held(book'[s]) = H \ {w}
    BY <1>1, <2>1 DEF Held, Book
  <2>3. b # w
    <3>1. H # {w}
      <4>1. Cardinality({w}) = 1
        BY FS_Singleton
      <4> QED BY <4>1, BookAssumption DEF TooDeep
    <3>2. PICK q \in H : q # w
      BY <2>1, <3>1
    <3>3. Better(s, q, w) /\ q \in Nat /\ w \in Nat
      BY <2>1, <3>2 DEF Price
    <3>4. ~Better(s, w, q)
      BY <3>3 DEF Better
    <3> QED BY <2>1, <3>2, <3>4
  <2>4. b \in Held(book'[s]) /\ \A q \in Held(book'[s]) \ {b} : Better(s, b, q)
    BY <2>1, <2>2, <2>3
  <2>5. /\ Best(book', s) \in Held(book'[s])
        /\ \A q \in Held(book'[s]) \ {Best(book', s)} : Better(s, Best(book', s), q)
    BY <2>4, BestIsBest
  <2>6. ASSUME Best(book', s) # b PROVE FALSE
    <3> DEFINE c == Best(book', s)
    <3>1. Better(s, b, c) /\ Better(s, c, b) /\ b \in Nat /\ c \in Nat
      BY <2>1, <2>2, <2>4, <2>5, <2>6 DEF Price
    <3> HIDE DEF b, c
    <3> QED BY <3>1 DEF Better
  <2> QED BY <1>3, <2>4, <2>6
<1> QED BY <1>2, <1>3

(* Trimming and the final check leave the touch where the merged frame put *)
(* it, at any depth (order_book.py:136-153).                               *)
THEOREM TouchIsKept == Spec => TrimKeepsTouch
<1>1. IInv /\ [Next]_vars =>
         [pc = "trim" => \A s \in Side :
             Held(book[s]) # {} => /\ Held(book'[s]) # {}
                                   /\ Best(book', s) = Best(book, s)]_vars
  <2> SUFFICES ASSUME IInv, [Next]_vars, pc = "trim", NEW x \in Side, Held(book[x]) # {}
               PROVE  Held(book'[x]) # {} /\ Best(book', x) = Best(book, x)
    OBVIOUS
  <2>1. CASE TrimBid \/ TrimAsk
    <3>1. PICK s \in Side : TooDeep(s) /\ Write(s, Worst(book, s), 0)
      BY <2>1 DEF TrimBid, TrimAsk, Side
    <3> QED BY <3>1, TrimLeavesBest DEF IInv, TypeOK
  <2>2. CASE UNCHANGED book
    BY <2>2
  <2>3. TrimBid \/ TrimAsk \/ UNCHANGED book
    BY DEF Next, vars, ApplySnapshot, Clear, BeginUpdate, TouchLevel, RejectLevel, LevelsDone,
           TrimDone, Accept, RejectCrossed, UndoLast, Reraise
  <2> QED BY <2>1, <2>2, <2>3
<1> QED BY <1>1, IInvHolds, PTL DEF Spec, TrimKeepsTouch

(* A book at rest that differs from the one before the call, and is not    *)
(* the cleared one, carries a seq no earlier book had (order_book.py:100,  *)
(* 164).                                                                   *)
THEOREM SeqIsAnIdentity == Spec => SeqNamesTheBook
<1>1. IInv /\ [Next]_vars =>
         [/\ seq' >= seq
          /\ (pc' = "idle" /\ book' # Before /\ book' # EmptyBook) => seq' > seq]_vars
  <2> SUFFICES ASSUME IInv, Next
               PROVE  /\ seq' >= seq
                      /\ (pc' = "idle" /\ book' # Before /\ book' # EmptyBook) => seq' > seq
    OBVIOUS
  <2>0. seq \in Nat /\ book \in Book
    BY DEF IInv, TypeOK
  <2>1. CASE ApplySnapshot \/ Accept
    BY <2>0, <2>1 DEF ApplySnapshot, Accept
  <2>2. CASE Clear
    BY <2>0, <2>2 DEF Clear
  <2>3. CASE Reraise
    <3>1. book' = Before
      BY <2>0, <2>3, BeforeAtRest DEF Reraise
    <3> QED BY <2>0, <2>3, <3>1 DEF Reraise
  <2>4. CASE \/ BeginUpdate \/ TouchLevel \/ RejectLevel \/ LevelsDone \/ TrimBid \/ TrimAsk
             \/ TrimDone \/ RejectCrossed \/ UndoLast
    <3>1. pc' # "idle" /\ seq' = seq
      BY <2>4 DEF BeginUpdate, TouchLevel, RejectLevel, LevelsDone, TrimBid, TrimAsk,
                  TrimDone, RejectCrossed, UndoLast
    <3> QED BY <2>0, <3>1
  <2> QED BY <2>1, <2>2, <2>3, <2>4 DEF Next
<1> QED BY <1>1, IInvHolds, PTL DEF Spec, SeqNamesTheBook
=============================================================================
