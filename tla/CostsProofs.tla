---------------------------- MODULE CostsProofs ----------------------------
(***************************************************************************)
(* What the joins of l2tca.research.execution and evaluate return, for     *)
(* every capture: any touches, prints, arrival times, horizons and bucket  *)
(* counts.                                                                 *)
(***************************************************************************)
EXTENDS Costs, FiniteSetTheorems, NaturalsInduction, SequenceTheorems, TLAPS

View == [at : Nat, touch : Nat \X Nat]
Row == [at : Nat, mid2 : Nat, quoted : Int]
Trade == [at : Nat, type : {"snapshot", "update"}, side : {"buy", "sell"}, price : Nat]

RowOf(view) ==
    [at |-> view.at, mid2 |-> Mid2(view.touch), quoted |-> QuotedSpread(view.touch)]

CostsTypes ==
    /\ now \in Nat /\ frames \in Nat /\ horizon \in Nat
    /\ views \in Seq(View) /\ book \in Seq(Row) /\ trades \in Seq(Trade)

(* Every frame is stamped later than the ones before it.                   *)
StampsRise(table, t) ==
    /\ \A i \in DOMAIN table : table[i].at <= t
    /\ \A i, j \in DOMAIN table : i < j => table[i].at < table[j].at

(* The signal table holds the two-sided views and nothing else.            *)
RowsAreViews(table, seen) ==
    /\ \A i \in DOMAIN seen :
          TwoSided(seen[i].touch) => \E j \in DOMAIN table : table[j] = RowOf(seen[i])
    /\ \A j \in DOMAIN table :
          \E i \in DOMAIN seen : TwoSided(seen[i].touch) /\ table[j] = RowOf(seen[i])

(* What was measured is what the tables give.                              *)
MeasuredOnce ==
    /\ horizon = 0 => costs = << >>
    /\ horizon > 0 => costs = ExecutionCosts(horizon)

CostsInv ==
    /\ CostsTypes
    /\ StampsRise(views, now) /\ StampsRise(book, now) /\ RowsAreViews(book, views)
    /\ MeasuredOnce

-----------------------------------------------------------------------------
(* One row more at the end of a table, stamped later than all before.      *)
LEMMA Lengthened ==
    ASSUME NEW S, NEW s \in Seq(S), NEW e \in S
    PROVE  /\ Append(s, e) \in Seq(S)
           /\ Len(s) \in Nat /\ DOMAIN s = 1 .. Len(s)
           /\ DOMAIN Append(s, e) = 1 .. Len(s) + 1
           /\ \A i \in DOMAIN s : Append(s, e)[i] = s[i]
           /\ Append(s, e)[Len(s) + 1] = e
BY AppendProperties, LenProperties

LEMMA RowsJoin ==
    ASSUME NEW S, NEW s \in Seq(S), NEW view, RowOf(view) \in S
    PROVE  s \o SignalRows(view) = IF TwoSided(view.touch) THEN Append(s, RowOf(view)) ELSE s
<1>1. CASE TwoSided(view.touch)
  <2>1. SignalRows(view) = <<RowOf(view)>>
    BY <1>1 DEF SignalRows, RowOf
  <2>2. s \o <<RowOf(view)>> = Append(s, RowOf(view))
    BY AppendIsConcat
  <2> QED BY <1>1, <2>1, <2>2
<1>2. CASE ~TwoSided(view.touch)
  <2>1. SignalRows(view) = << >>
    BY <1>2 DEF SignalRows
  <2> QED BY <1>2, <2>1, ConcatEmptySeq
<1> QED BY <1>1, <1>2

LEMMA TwoSidedRow ==
    ASSUME NEW view \in View
    PROVE  RowOf(view) \in Row
BY DEF View, Row, RowOf, Mid2, QuotedSpread

LEMMA StampsGoOn ==
    ASSUME NEW S, NEW s \in Seq(S), NEW e \in S, \A x \in S : x.at \in Nat,
           NEW t \in Nat, t < e.at, StampsRise(s, t)
    PROVE  StampsRise(Append(s, e), e.at)
<1> DEFINE u == Append(s, e)
           N == Len(s)
<1>1. /\ N \in Nat /\ DOMAIN s = 1 .. N /\ DOMAIN u = 1 .. N + 1
      /\ \A i \in DOMAIN s : u[i] = s[i]
      /\ u[N + 1] = e
  BY Lengthened
<1>2. \A i \in DOMAIN s : s[i].at \in Nat /\ s[i].at <= t
  BY <1>1 DEF StampsRise
<1> HIDE DEF u, N
<1>3. \A i \in DOMAIN u : u[i].at <= e.at
  <2> TAKE i \in DOMAIN u
  <2>1. CASE i = N + 1
    BY <1>1, <2>1
  <2>2. CASE i # N + 1
    <3>1. i \in DOMAIN s
      BY <1>1, <2>2
    <3> QED BY <1>1, <1>2, <3>1
  <2> QED BY <2>1, <2>2
<1>4. ASSUME NEW i \in DOMAIN u, NEW j \in DOMAIN u, i < j
      PROVE  u[i].at < u[j].at
  <2>1. i \in DOMAIN s
    BY <1>1, <1>4
  <2>2. CASE j = N + 1
    BY <1>1, <1>2, <2>1, <2>2
  <2>3. CASE j # N + 1
    <3>1. j \in DOMAIN s
      BY <1>1, <2>3
    <3> QED BY <1>1, <1>4, <2>1, <3>1 DEF StampsRise
  <2> QED BY <2>2, <2>3
<1>5. StampsRise(u, e.at)
  BY <1>3, <1>4 DEF StampsRise
<1> QED BY <1>5 DEF u

LEMMA StampsWait ==
    ASSUME NEW S, NEW s \in Seq(S), \A x \in S : x.at \in Nat,
           NEW t \in Nat, NEW u \in Nat, t <= u, StampsRise(s, t)
    PROVE  StampsRise(s, u)
<1>1. \A i \in DOMAIN s : s[i].at \in Nat
  BY LenProperties
<1> QED BY <1>1 DEF StampsRise

(* A view more, and its row if it has one.                                 *)
LEMMA ViewsGoOn ==
    ASSUME NEW table \in Seq(Row), NEW seen \in Seq(View), NEW view \in View,
           RowsAreViews(table, seen)
    PROVE  RowsAreViews(table \o SignalRows(view), Append(seen, view))
<1> DEFINE u == Append(seen, view)
           M == Len(seen)
           N == Len(table)
<1>1. /\ M \in Nat /\ DOMAIN seen = 1 .. M /\ DOMAIN u = 1 .. M + 1
      /\ \A i \in DOMAIN seen : u[i] = seen[i]
      /\ u[M + 1] = view
  BY Lengthened
<1>2. RowOf(view) \in Row
  BY TwoSidedRow
<1>3. CASE TwoSided(view.touch)
  <2> DEFINE b == Append(table, RowOf(view))
  <2>1. table \o SignalRows(view) = b
    BY <1>2, <1>3, RowsJoin
  <2>2. /\ N \in Nat /\ DOMAIN table = 1 .. N /\ DOMAIN b = 1 .. N + 1
        /\ \A i \in DOMAIN table : b[i] = table[i]
        /\ b[N + 1] = RowOf(view)
    BY <1>2, Lengthened
  <2> HIDE DEF b, u, M, N
  <2>3. \A i \in DOMAIN u : TwoSided(u[i].touch) => \E j \in DOMAIN b : b[j] = RowOf(u[i])
    <3> SUFFICES ASSUME NEW i \in DOMAIN u, TwoSided(u[i].touch)
                 PROVE  \E j \in DOMAIN b : b[j] = RowOf(u[i])
      OBVIOUS
    <3>1. CASE i = M + 1
      <4>1. N + 1 \in DOMAIN b
        BY <2>2
      <4> QED BY <1>1, <2>2, <3>1, <4>1
    <3>2. CASE i # M + 1
      <4>1. i \in DOMAIN seen /\ u[i] = seen[i]
        BY <1>1, <3>2
      <4>2. PICK j \in DOMAIN table : table[j] = RowOf(seen[i])
        BY <4>1 DEF RowsAreViews
      <4>3. j \in DOMAIN b /\ b[j] = table[j]
        BY <2>2
      <4> QED BY <4>1, <4>2, <4>3
    <3> QED BY <3>1, <3>2
  <2>4. \A j \in DOMAIN b : \E i \in DOMAIN u : TwoSided(u[i].touch) /\ b[j] = RowOf(u[i])
    <3> TAKE j \in DOMAIN b
    <3>1. CASE j = N + 1
      <4>1. M + 1 \in DOMAIN u
        BY <1>1
      <4> QED BY <1>1, <1>3, <2>2, <3>1, <4>1
    <3>2. CASE j # N + 1
      <4>1. j \in DOMAIN table /\ b[j] = table[j]
        BY <2>2, <3>2
      <4>2. PICK i \in DOMAIN seen : TwoSided(seen[i].touch) /\ table[j] = RowOf(seen[i])
        BY <4>1 DEF RowsAreViews
      <4>3. i \in DOMAIN u /\ u[i] = seen[i]
        BY <1>1
      <4> QED BY <4>1, <4>2, <4>3
    <3> QED BY <3>1, <3>2
  <2>5. RowsAreViews(b, u)
    BY <2>3, <2>4 DEF RowsAreViews
  <2> QED BY <2>1, <2>5 DEF u
<1>4. CASE ~TwoSided(view.touch)
  <2>1. table \o SignalRows(view) = table
    BY <1>2, <1>4, RowsJoin
  <2> HIDE DEF u, M, N
  <2>2. \A i \in DOMAIN u : TwoSided(u[i].touch) => \E j \in DOMAIN table : table[j] = RowOf(u[i])
    <3> SUFFICES ASSUME NEW i \in DOMAIN u, TwoSided(u[i].touch)
                 PROVE  \E j \in DOMAIN table : table[j] = RowOf(u[i])
      OBVIOUS
    <3>1. i # M + 1
      BY <1>1, <1>4
    <3>2. i \in DOMAIN seen /\ u[i] = seen[i]
      BY <1>1, <3>1
    <3> QED BY <3>2 DEF RowsAreViews
  <2>3. \A j \in DOMAIN table : \E i \in DOMAIN u : TwoSided(u[i].touch) /\ table[j] = RowOf(u[i])
    <3> TAKE j \in DOMAIN table
    <3>1. PICK i \in DOMAIN seen : TwoSided(seen[i].touch) /\ table[j] = RowOf(seen[i])
      BY DEF RowsAreViews
    <3>2. i \in DOMAIN u /\ u[i] = seen[i]
      BY <1>1
    <3> QED BY <3>1, <3>2
  <2>4. RowsAreViews(table, u)
    BY <2>2, <2>3 DEF RowsAreViews
  <2> QED BY <2>1, <2>4 DEF u
<1> QED BY <1>3, <1>4

LEMMA TradesTyped ==
    ASSUME NEW at \in Nat, NEW type \in {"snapshot", "update"}, NEW side \in {"buy", "sell"},
           NEW prices \in Seq(Nat)
    PROVE  TradeRows(at, type, side, prices) \in Seq(Trade)
<1>1. prices \in [1 .. Len(prices) -> Nat] /\ Len(prices) \in Nat
  BY LenProperties
<1>2. TradeRows(at, type, side, prices) \in [1 .. Len(prices) -> Trade]
  BY <1>1 DEF TradeRows, Trade
<1> QED BY <1>1, <1>2

-----------------------------------------------------------------------------
LEMMA CaptureKeeps == ASSUME CostsInv, Capture PROVE CostsInv'
<1>1. PICK at \in now + 1 .. MaxTick :
        /\ now' = at
        /\ \/ \E touch \in Touches : BookView(at, touch)
           \/ \E type \in {"snapshot", "update"}, side \in {"buy", "sell"}, prices \in PrintPrices :
                TradeFrame(at, type, side, prices)
  BY DEF Capture
<1>2. horizon = 0 /\ horizon' = 0 /\ costs' = costs
  BY DEF Capture
<1>3. MeasuredOnce'
  BY <1>2 DEF CostsInv, MeasuredOnce
<1>4. /\ now \in Nat /\ frames \in Nat /\ views \in Seq(View) /\ book \in Seq(Row) /\ trades \in Seq(Trade)
      /\ StampsRise(views, now) /\ StampsRise(book, now) /\ RowsAreViews(book, views)
  BY DEF CostsInv, CostsTypes
<1>5. at \in Nat /\ now < at /\ now <= at
  BY <1>4, CostsAssumption
<1>6. /\ \A x \in View : x.at \in Nat
      /\ \A x \in Row : x.at \in Nat
  BY DEF View, Row
<1>7. ASSUME NEW touch \in Touches, BookView(at, touch)
      PROVE  CostsInv'
  <2> DEFINE view == [at |-> at, touch |-> touch]
  <2>1. /\ views' = Append(views, view) /\ book' = book \o SignalRows(view)
        /\ frames' = frames /\ trades' = trades
    BY <1>7 DEF BookView
  <2>2. view \in View /\ view.at = at
    BY <1>5, CostsAssumption DEF View
  <2> HIDE DEF view
  <2>3. RowOf(view) \in Row /\ RowOf(view).at = at
    BY <2>2, TwoSidedRow DEF RowOf
  <2>4. views' \in Seq(View) /\ StampsRise(views', now')
    BY <1>1, <1>4, <1>5, <1>6, <2>1, <2>2, StampsGoOn, AppendProperties
  <2>5. book' = IF TwoSided(view.touch) THEN Append(book, RowOf(view)) ELSE book
    BY <1>4, <2>1, <2>3, RowsJoin
  <2>6. book' \in Seq(Row) /\ StampsRise(book', now')
    <3>1. CASE TwoSided(view.touch)
      BY <1>1, <1>4, <1>5, <1>6, <2>3, <2>5, <3>1, StampsGoOn, AppendProperties
    <3>2. CASE ~TwoSided(view.touch)
      BY <1>1, <1>4, <1>5, <1>6, <2>5, <3>2, StampsWait
    <3> QED BY <3>1, <3>2
  <2>7. RowsAreViews(book', views')
    BY <1>4, <2>1, <2>2, ViewsGoOn
  <2> QED BY <1>1, <1>2, <1>3, <1>4, <1>5, <2>1, <2>4, <2>6, <2>7 DEF CostsInv, CostsTypes
<1>8. ASSUME NEW type \in {"snapshot", "update"}, NEW side \in {"buy", "sell"},
             NEW prices \in PrintPrices, TradeFrame(at, type, side, prices)
      PROVE  CostsInv'
  <2>1. /\ views' = views /\ book' = book /\ frames' = frames + 1
        /\ trades' = trades \o TradeRows(at, type, side, prices)
    BY <1>8 DEF TradeFrame
  <2>2. TradeRows(at, type, side, prices) \in Seq(Trade)
    BY <1>5, TradesTyped, CostsAssumption
  <2>3. trades' \in Seq(Trade)
    BY <1>4, <2>1, <2>2, ConcatProperties
  <2>4. StampsRise(views', now') /\ StampsRise(book', now') /\ RowsAreViews(book', views')
    BY <1>1, <1>4, <1>5, <1>6, <2>1, StampsWait
  <2> QED BY <1>1, <1>2, <1>3, <1>4, <1>5, <2>1, <2>3, <2>4 DEF CostsInv, CostsTypes
<1> QED BY <1>1, <1>7, <1>8

LEMMA MeasureKeeps == ASSUME CostsInv, Measure PROVE CostsInv'
<1>1. PICK h \in Horizons : horizon' = h /\ costs' = ExecutionCosts(h)
  BY DEF Measure
<1>2. UNCHANGED <<now, views, book, frames, trades>>
  BY DEF Measure
<1>3. h \in Nat /\ h > 0
  BY CostsAssumption
<1>4. MeasuredOnce'
  BY <1>1, <1>2, <1>3 DEF MeasuredOnce, ExecutionCosts, Matched, Live, MidAfter, LastAt, Shifted
<1> QED BY <1>1, <1>2, <1>3, <1>4 DEF CostsInv, CostsTypes

(* The inductive invariant of the tables (derive.py:113-149,               *)
(* evaluate.py:29-47): arrival stamps rise along every table, the rows of  *)
(* the signal table are the two-sided views, one for one, and what was     *)
(* measured is what the join of the finished tables gives.                 *)
THEOREM CostsInvHolds == Spec => []CostsInv
<1>1. Init => CostsInv
  <2> SUFFICES ASSUME Init PROVE CostsInv
    OBVIOUS
  <2>1. << >> \in Seq(View) /\ << >> \in Seq(Row) /\ << >> \in Seq(Trade)
    BY EmptySeq
  <2> QED BY <2>1 DEF Init, CostsInv, CostsTypes, StampsRise, RowsAreViews, MeasuredOnce
<1>2. CostsInv /\ [Next]_vars => CostsInv'
  <2> SUFFICES ASSUME CostsInv, [Next]_vars
               PROVE  CostsInv'
    OBVIOUS
  <2>1. CASE Capture
    BY <2>1, CaptureKeeps
  <2>2. CASE Measure
    BY <2>2, MeasureKeeps
  <2>3. CASE UNCHANGED vars
    <3>1. UNCHANGED <<now, views, book, frames, trades, horizon, costs>>
      BY <2>3 DEF vars
    <3>2. ExecutionCosts(horizon)' = ExecutionCosts(horizon)
      BY <3>1 DEF ExecutionCosts, Matched, Live, MidAfter, LastAt, Shifted
    <3>3. MeasuredOnce'
      BY <3>1, <3>2 DEF CostsInv, MeasuredOnce
    <3> QED BY <3>1, <3>3 DEF CostsInv, CostsTypes
  <2> QED BY <2>1, <2>2, <2>3 DEF Next
<1> QED BY <1>1, <1>2, PTL DEF Spec

-----------------------------------------------------------------------------
(* What a backward join finds.                                             *)

LEMMA MaxIsGreatest ==
    ASSUME NEW N \in Nat, NEW T \in SUBSET (1 .. N), T # {}
    PROVE  Max(T) \in T /\ \A t \in T : t <= Max(T)
<1> DEFINE R == OpToRel(<, Nat)
           U == {u \in 0 .. N : N - u \in T}
<1>1. \E u \in U : TRUE
  <2>1. PICK t \in T : TRUE
    OBVIOUS
  <2>2. N - t \in 0 .. N /\ N - (N - t) = t
    OBVIOUS
  <2> QED BY <2>1, <2>2
<1>2. IsWellFoundedOn(R, Nat)
  BY NatLessThanWellFounded
<1>3. U \subseteq Nat /\ U # {}
  BY <1>1
<1> HIDE DEF R, U
<1>4. PICK u \in U : \A v \in U : ~(<<v, u>> \in R)
  BY <1>2, <1>3, WFMin
<1>5. \A v \in U : ~(v < u)
  BY <1>3, <1>4 DEF R, OpToRel
<1>6. \A t \in T : t <= N - u
  <2> TAKE t \in T
  <2>1. N - t \in U
    BY DEF U
  <2>2. u \in Nat /\ N - t \in Nat /\ ~(N - t < u)
    BY <1>3, <1>5, <2>1
  <2> QED BY <2>2
<1>7. N - u \in T
  BY <1>4 DEF U
<1>8. \E x \in T : \A y \in T : x >= y
  BY <1>3, <1>6, <1>7
<1>9. Max(T) \in T /\ \A y \in T : Max(T) >= y
  BY <1>8 DEF Max
<1> QED BY <1>9

(* Of a table whose stamps rise, the join at t takes the row no later one  *)
(* at or before t follows.                                                 *)
LEMMA LastOf ==
    ASSUME NEW S, NEW s \in Seq(S), NEW T \in SUBSET DOMAIN s, T # {}
    PROVE  Max(T) \in T /\ Max(T) \in DOMAIN s /\ Max(T) \in Nat /\ \A i \in T : i <= Max(T)
<1>1. DOMAIN s = 1 .. Len(s) /\ Len(s) \in Nat
  BY LenProperties
<1> QED BY <1>1, MaxIsGreatest

LEMMA EntriesOf ==
    ASSUME NEW S, NEW s \in Seq(S)
    PROVE  \A i \in DOMAIN s : s[i] \in S /\ i \in Nat
<1>1. DOMAIN s = 1 .. Len(s) /\ s \in [1 .. Len(s) -> S] /\ Len(s) \in Nat
  BY LenProperties
<1> QED BY <1>1

(* The row a join finds at t is the row of the view that stood at t, and   *)
(* it finds none exactly when no usable view had arrived.                  *)
LEMMA JoinFindsStanding ==
    ASSUME CostsInv, NEW t \in Int
    PROVE  /\ UpTo(book, t) # {} <=> Usable(t) # {}
           /\ UpTo(book, t) # {} =>
                /\ Max(UpTo(book, t)) \in DOMAIN book
                /\ book[Max(UpTo(book, t))] = RowOf(Standing(t))
                /\ book[Max(UpTo(book, t))].at <= t
                /\ Standing(t) \in View
                /\ TwoSided(Standing(t).touch)
<1>1. /\ views \in Seq(View) /\ book \in Seq(Row)
      /\ StampsRise(views, now) /\ StampsRise(book, now) /\ RowsAreViews(book, views)
  BY DEF CostsInv, CostsTypes
<1>2. /\ \A i \in DOMAIN views : views[i] \in View /\ views[i].at \in Nat /\ i \in Nat
      /\ \A j \in DOMAIN book : book[j] \in Row /\ book[j].at \in Nat /\ j \in Nat
  <2>1. /\ \A i \in DOMAIN views : views[i] \in View /\ i \in Nat
        /\ \A j \in DOMAIN book : book[j] \in Row /\ j \in Nat
    BY <1>1, EntriesOf
  <2> QED BY <2>1 DEF View, Row
<1>3. \A view \in View : RowOf(view).at = view.at
  BY DEF RowOf
<1>4. ASSUME NEW i \in Usable(t)
      PROVE  \E j \in UpTo(book, t) : book[j] = RowOf(views[i])
  <2>1. i \in DOMAIN views /\ views[i].at <= t /\ TwoSided(views[i].touch)
    BY <1>4 DEF Usable
  <2>2. PICK j \in DOMAIN book : book[j] = RowOf(views[i])
    BY <1>1, <2>1 DEF RowsAreViews
  <2>3. book[j].at <= t
    BY <1>2, <1>3, <2>1, <2>2
  <2> QED BY <2>2, <2>3 DEF UpTo
<1>5. ASSUME NEW j \in UpTo(book, t)
      PROVE  \E i \in Usable(t) : book[j] = RowOf(views[i])
  <2>1. j \in DOMAIN book /\ book[j].at <= t
    BY <1>5 DEF UpTo
  <2>2. PICK i \in DOMAIN views : TwoSided(views[i].touch) /\ book[j] = RowOf(views[i])
    BY <1>1, <2>1 DEF RowsAreViews
  <2>3. views[i].at <= t
    BY <1>2, <1>3, <2>1, <2>2
  <2> QED BY <2>2, <2>3 DEF Usable
<1>6. UpTo(book, t) # {} <=> Usable(t) # {}
  BY <1>4, <1>5
<1>7. ASSUME UpTo(book, t) # {}
      PROVE  /\ Max(UpTo(book, t)) \in DOMAIN book
             /\ book[Max(UpTo(book, t))] = RowOf(Standing(t))
             /\ book[Max(UpTo(book, t))].at <= t
             /\ Standing(t) \in View
             /\ TwoSided(Standing(t).touch)
  <2> DEFINE k == Max(UpTo(book, t))
             m == Max(Usable(t))
  <2>1. UpTo(book, t) \in SUBSET DOMAIN book /\ Usable(t) \in SUBSET DOMAIN views
    BY DEF UpTo, Usable
  <2>2. k \in UpTo(book, t) /\ k \in DOMAIN book /\ \A j \in UpTo(book, t) : j <= k
    BY <1>1, <1>7, <2>1, LastOf
  <2>3. m \in Usable(t) /\ m \in DOMAIN views /\ \A i \in Usable(t) : i <= m
    BY <1>1, <1>6, <1>7, <2>1, LastOf
  <2>4. Standing(t) = views[m]
    BY DEF Standing
  <2> HIDE DEF k, m
  <2>5. PICK j \in UpTo(book, t) : book[j] = RowOf(views[m])
    BY <1>4, <2>3
  <2>6. PICK i \in Usable(t) : book[k] = RowOf(views[i])
    BY <1>5, <2>2
  <2>7. i \in DOMAIN views /\ j \in DOMAIN book /\ i \in Nat /\ m \in Nat /\ j \in Nat /\ k \in Nat
    BY <1>2, <2>1, <2>2, <2>3
  <2>8. views[i].at <= views[m].at
    <3>1. CASE i = m
      BY <1>2, <2>7, <3>1
    <3>2. CASE i # m
      <4>1. i < m
        BY <2>3, <2>7, <3>2
      <4>2. views[i].at < views[m].at
        BY <1>1, <2>3, <2>7, <4>1 DEF StampsRise
      <4> QED BY <1>2, <2>3, <2>7, <4>2
    <3> QED BY <3>1, <3>2
  <2>9. book[k].at <= book[j].at
    BY <1>2, <1>3, <2>3, <2>5, <2>6, <2>7, <2>8
  <2>10. j = k
    <3>1. j <= k
      BY <2>2
    <3>2. ~(j < k)
      <4> SUFFICES ASSUME j < k PROVE FALSE
        OBVIOUS
      <4>1. book[j].at < book[k].at
        BY <1>1, <2>2, <2>7 DEF StampsRise
      <4> QED BY <1>2, <2>2, <2>7, <2>9, <4>1
    <3> QED BY <2>7, <3>1, <3>2
  <2>11. book[k] = RowOf(Standing(t))
    BY <2>4, <2>5, <2>10
  <2>12. book[k].at <= t
    BY <2>2 DEF UpTo
  <2>13. Standing(t) \in View /\ TwoSided(Standing(t).touch)
    BY <1>2, <2>3, <2>4 DEF Usable
  <2> QED BY <2>2, <2>11, <2>12, <2>13 DEF k
<1> QED BY <1>6, <1>7

-----------------------------------------------------------------------------
(* The rows of the costs.                                                  *)

LEMMA RowMeasured ==
    ASSUME CostsInv, NEW i \in DOMAIN costs
    PROVE  LET k == Max(UpTo(book, trades[i].at))
           IN  /\ horizon \in Nat \ {0} /\ trades[i] \in Trade
               /\ UpTo(book, trades[i].at) # {} /\ k \in DOMAIN book
               /\ costs[i] = Cost(trades[i], book[k], MidAfter(horizon)[k])
<1>1. horizon \in Nat /\ (horizon = 0 => costs = << >>)
  BY DEF CostsInv, CostsTypes, MeasuredOnce
<1>2. horizon > 0
  BY <1>1
<1>3. costs = ExecutionCosts(horizon)
  BY <1>2 DEF CostsInv, MeasuredOnce
<1>4. i \in Matched
  BY <1>3 DEF ExecutionCosts
<1>5. i \in DOMAIN trades /\ UpTo(book, trades[i].at) # {}
  BY <1>4 DEF Matched, Live
<1>6. trades[i] \in Trade
  BY <1>5, EntriesOf DEF CostsInv, CostsTypes
<1>7. trades[i].at \in Int
  BY <1>6 DEF Trade
<1>8. Max(UpTo(book, trades[i].at)) \in DOMAIN book
  BY <1>5, <1>7, JoinFindsStanding
<1>9. costs[i] = Cost(trades[i], book[Max(UpTo(book, trades[i].at))],
                      MidAfter(horizon)[Max(UpTo(book, trades[i].at))])
  BY <1>3, <1>4 DEF ExecutionCosts
<1> QED BY <1>1, <1>2, <1>5, <1>6, <1>8, <1>9

(* The row of a print is measured against the view that stood.             *)
LEMMA MeasuredAgainst ==
    ASSUME CostsInv, NEW i \in DOMAIN costs
    PROVE  LET p == trades[i]
               view == Standing(p.at)
           IN  /\ p \in Trade /\ view \in View /\ Usable(p.at) # {}
               /\ costs[i].print = p
               /\ costs[i].quoted = QuotedSpread(view.touch)
               /\ costs[i].effective = EffectiveSpread(view.touch, p.price, p.side)
<1> DEFINE p == trades[i]
           k == Max(UpTo(book, p.at))
<1>1. /\ p \in Trade /\ UpTo(book, p.at) # {}
      /\ costs[i] = Cost(p, book[k], MidAfter(horizon)[k])
  BY RowMeasured
<1>2. p.at \in Int
  BY <1>1 DEF Trade
<1>3. /\ Usable(p.at) # {} /\ book[k] = RowOf(Standing(p.at)) /\ Standing(p.at) \in View
  BY <1>1, <1>2, JoinFindsStanding
<1> HIDE DEF p, k
<1>4. /\ costs[i].print = p /\ costs[i].quoted = book[k].quoted
      /\ costs[i].effective = Direction(p.side) * (2 * p.price - book[k].mid2)
  BY <1>1 DEF Cost
<1>5. book[k].quoted = QuotedSpread(Standing(p.at).touch) /\ book[k].mid2 = Mid2(Standing(p.at).touch)
  BY <1>3 DEF RowOf
<1> QED BY <1>1, <1>3, <1>4, <1>5 DEF EffectiveSpread, p

(* Every live print that had a usable view is measured, against that view  *)
(* (execution.py:86-119).                                                  *)
LEMMA MeasuredWereSeen == CostsInv => BooksWereSeen
<1> SUFFICES ASSUME CostsInv, horizon > 0 PROVE BooksWereSeen
  BY DEF BooksWereSeen
<1>1. costs = ExecutionCosts(horizon)
  BY DEF CostsInv, MeasuredOnce
<1>2. DOMAIN costs = Matched
  BY <1>1 DEF ExecutionCosts
<1>3. \A i \in DOMAIN trades : UpTo(book, trades[i].at) # {} <=> Usable(trades[i].at) # {}
  <2> TAKE i \in DOMAIN trades
  <2>1. trades[i] \in Trade
    BY EntriesOf DEF CostsInv, CostsTypes
  <2>2. trades[i].at \in Int
    BY <2>1 DEF Trade
  <2> QED BY <2>2, JoinFindsStanding
<1>4. DOMAIN costs = {i \in DOMAIN trades : trades[i].type = "update" /\ Usable(trades[i].at) # {}}
  BY <1>2, <1>3 DEF Matched, Live
<1> QED BY <1>4, MeasuredAgainst DEF BooksWereSeen

THEOREM MeasuredAgainstSeen == Spec => []BooksWereSeen
BY CostsInvHolds, MeasuredWereSeen, PTL

LEMMA SharesAreSides == CostsInv => SharesNameTheTouch
<1> SUFFICES ASSUME CostsInv, NEW i \in DOMAIN costs
             PROVE  LET touch == Standing(costs[i].print.at).touch
                        price == costs[i].print.price
                        buys == costs[i].print.side = "buy"
                    IN  /\ Usable(costs[i].print.at) # {}
                        /\ i \in AtTouch <=> price = IF buys THEN touch[2] ELSE touch[1]
                        /\ i \in Improved <=> IF buys THEN price < touch[2] ELSE price > touch[1]
                        /\ i \in Through <=> IF buys THEN price > touch[2] ELSE price < touch[1]
  BY DEF SharesNameTheTouch
<1> DEFINE p == costs[i].print
           touch == Standing(p.at).touch
<1>1. /\ p \in Trade /\ Standing(p.at) \in View /\ Usable(p.at) # {}
      /\ costs[i].quoted = QuotedSpread(touch)
      /\ costs[i].effective = EffectiveSpread(touch, p.price, p.side)
  BY MeasuredAgainst
<1> HIDE DEF p
<1>2. touch \in Nat \X Nat
  BY <1>1 DEF View
<1> HIDE DEF touch
<1>3. touch[1] \in Nat /\ touch[2] \in Nat
  BY <1>2
<1>4. p.price \in Nat /\ p.side \in {"buy", "sell"}
  BY <1>1 DEF Trade
<1>5. CASE p.side = "buy"
  <2>1. /\ costs[i].quoted = touch[2] - touch[1]
        /\ costs[i].effective = 2 * p.price - (touch[1] + touch[2])
    BY <1>1, <1>3, <1>4, <1>5 DEF QuotedSpread, EffectiveSpread, Direction, Mid2
  <2> DEFINE paid == costs[i].effective
             shown == costs[i].quoted
  <2>2. /\ paid = shown <=> p.price = touch[2]
        /\ paid < shown <=> p.price < touch[2]
        /\ paid > shown <=> p.price > touch[2]
    BY <1>3, <1>4, <2>1
  <2>3. /\ i \in AtTouch <=> p.price = touch[2]
        /\ i \in Improved <=> p.price < touch[2]
        /\ i \in Through <=> p.price > touch[2]
    BY <2>2 DEF AtTouch, Improved, Through
  <2> QED BY <1>1, <1>5, <2>3 DEF p, touch
<1>6. CASE p.side = "sell"
  <2>1. /\ costs[i].quoted = touch[2] - touch[1]
        /\ costs[i].effective = (touch[1] + touch[2]) - 2 * p.price
    BY <1>1, <1>3, <1>4, <1>6 DEF QuotedSpread, EffectiveSpread, Direction, Mid2
  <2> DEFINE paid == costs[i].effective
             shown == costs[i].quoted
  <2>2. /\ paid = shown <=> p.price = touch[1]
        /\ paid < shown <=> p.price > touch[1]
        /\ paid > shown <=> p.price < touch[1]
    BY <1>3, <1>4, <2>1
  <2>3. /\ i \in AtTouch <=> p.price = touch[1]
        /\ i \in Improved <=> p.price > touch[1]
        /\ i \in Through <=> p.price < touch[1]
    BY <2>2 DEF AtTouch, Improved, Through
  <2> QED BY <1>1, <1>6, <2>3 DEF p, touch
<1> QED BY <1>4, <1>5, <1>6

(* The three shares of summarise_costs say on which side of the touch it   *)
(* took a print was made, on every book, a crossed one included            *)
(* (execution.py:122-181).                                                 *)
THEOREM SharesTell == Spec => []SharesNameTheTouch
BY CostsInvHolds, SharesAreSides, PTL

-----------------------------------------------------------------------------
(* The mid a horizon later.                                                *)

Covered(end) == \E j \in DOMAIN views : views[j].at >= end /\ TwoSided(views[j].touch)

(* The sample covers an instant when its last row is not before it.        *)
LEMMA LastCovers ==
    ASSUME CostsInv, NEW k \in DOMAIN book, NEW end \in Int
    PROVE  LastAt \in Nat /\ (Covered(end) <=> ~(end > LastAt))
<1>1. /\ views \in Seq(View) /\ book \in Seq(Row)
      /\ StampsRise(book, now) /\ RowsAreViews(book, views)
  BY DEF CostsInv, CostsTypes
<1>2. DOMAIN book = 1 .. Len(book) /\ Len(book) \in Nat
  BY <1>1, LenProperties
<1>3. Len(book) \in DOMAIN book /\ LastAt = book[Len(book)].at
  BY <1>2 DEF LastAt, Last
<1>4. /\ \A i \in DOMAIN views : views[i] \in View
      /\ \A j \in DOMAIN book : book[j] \in Row
  BY <1>1, EntriesOf
<1>5. /\ \A i \in DOMAIN views : views[i].at \in Nat /\ RowOf(views[i]).at = views[i].at
      /\ \A j \in DOMAIN book : book[j].at \in Nat
  BY <1>4 DEF View, Row, RowOf
<1>6. \A j \in DOMAIN book : book[j].at <= LastAt
  <2> TAKE j \in DOMAIN book
  <2>1. CASE j = Len(book)
    BY <1>3, <1>5, <2>1
  <2>2. CASE j # Len(book)
    <3>1. j < Len(book)
      BY <1>2, <2>2
    <3>2. book[j].at < book[Len(book)].at
      BY <1>1, <1>3, <3>1 DEF StampsRise
    <3> QED BY <1>3, <1>5, <3>2
  <2> QED BY <2>1, <2>2
<1>7. LastAt \in Nat
  BY <1>3, <1>5
<1>8. ASSUME Covered(end) PROVE ~(end > LastAt)
  <2>1. PICK i \in DOMAIN views : views[i].at >= end /\ TwoSided(views[i].touch)
    BY <1>8 DEF Covered
  <2>2. PICK j \in DOMAIN book : book[j] = RowOf(views[i])
    BY <1>1, <2>1 DEF RowsAreViews
  <2>3. book[j].at = views[i].at
    BY <1>5, <2>2
  <2> QED BY <1>5, <1>6, <1>7, <2>1, <2>3
<1>9. ASSUME ~(end > LastAt) PROVE Covered(end)
  <2>1. PICK i \in DOMAIN views : TwoSided(views[i].touch) /\ book[Len(book)] = RowOf(views[i])
    BY <1>1, <1>3 DEF RowsAreViews
  <2>2. views[i].at = LastAt
    BY <1>3, <1>5, <2>1
  <2> QED BY <1>5, <1>7, <1>9, <2>1, <2>2 DEF Covered
<1> QED BY <1>7, <1>8, <1>9

(* The shifted join at a row finds what the join a horizon later finds.    *)
LEMMA ShiftedJoin ==
    ASSUME CostsInv, NEW k \in DOMAIN book, NEW h \in Nat
    PROVE  LET end == book[k].at + h
           IN  /\ book[k].at \in Nat /\ book[k].mid2 \in Nat
               /\ UpTo(Shifted(h), book[k].at) # {}
               /\ AsOf(Shifted(h), book[k].at).mid2 = Mid2(Standing(end).touch)
               /\ Standing(end) \in View
<1> DEFINE end == book[k].at + h
<1>1. book \in Seq(Row)
  BY DEF CostsInv, CostsTypes
<1>2. \A j \in DOMAIN book : book[j] \in Row
  BY <1>1, EntriesOf
<1>3. \A j \in DOMAIN book : book[j].at \in Nat /\ book[j].mid2 \in Nat
  BY <1>2 DEF Row
<1>4. end \in Int
  BY <1>3
<1>5. /\ DOMAIN Shifted(h) = DOMAIN book
      /\ \A j \in DOMAIN book : Shifted(h)[j].at = book[j].at - h /\ Shifted(h)[j].mid2 = book[j].mid2
  BY DEF Shifted
<1>6. \A j \in DOMAIN book : Shifted(h)[j].at <= book[k].at <=> book[j].at <= end
  BY <1>3, <1>5
<1>7. UpTo(Shifted(h), book[k].at) = UpTo(book, end)
  BY <1>5, <1>6 DEF UpTo
<1>8. k \in UpTo(book, end)
  BY <1>3 DEF UpTo
<1>9. /\ Max(UpTo(book, end)) \in DOMAIN book
      /\ book[Max(UpTo(book, end))] = RowOf(Standing(end))
      /\ Standing(end) \in View
  BY <1>4, <1>8, JoinFindsStanding
<1> HIDE DEF end
<1>10. AsOf(Shifted(h), book[k].at).mid2 = book[Max(UpTo(book, end))].mid2
  BY <1>5, <1>7, <1>9 DEF AsOf
<1>11. book[Max(UpTo(book, end))].mid2 = Mid2(Standing(end).touch)
  BY <1>9 DEF RowOf
<1> QED BY <1>3, <1>7, <1>8, <1>9, <1>10, <1>11 DEF end

(* _mid_after: the mid of the view that stands when the horizon ends, and  *)
(* none when the sample ends before.                                       *)
LEMMA FutureMid ==
    ASSUME CostsInv, NEW k \in DOMAIN book, NEW h \in Nat
    PROVE  LET end == book[k].at + h
           IN  MidAfter(h)[k] = IF Covered(end) THEN {Mid2(Standing(end).touch)} ELSE {}
<1> DEFINE end == book[k].at + h
<1>1. MidAfter(h)[k] = IF end > LastAt THEN {} ELSE {AsOf(Shifted(h), book[k].at).mid2}
  BY DEF MidAfter
<1>2. /\ end \in Int
      /\ AsOf(Shifted(h), book[k].at).mid2 = Mid2(Standing(end).touch)
  BY ShiftedJoin
<1>3. Covered(end) <=> ~(end > LastAt)
  BY <1>2, LastCovers
<1> QED BY <1>1, <1>2, <1>3

(* The two functions agree row by row.                                     *)
LEMMA SameRule ==
    ASSUME CostsInv, NEW k \in DOMAIN book, NEW h \in Nat
    PROVE  ForwardReturn(h)[k] = {mid2 - book[k].mid2 : mid2 \in MidAfter(h)[k]}
<1> DEFINE late == book[k].at + h > LastAt
           mid == AsOf(Shifted(h), book[k].at).mid2
<1>1. UpTo(Shifted(h), book[k].at) # {}
  BY ShiftedJoin
<1>2. MidAfter(h)[k] = IF late THEN {} ELSE {mid}
  BY DEF MidAfter
<1>3. ForwardReturn(h)[k] = IF late THEN {} ELSE {mid - book[k].mid2}
  BY <1>1 DEF ForwardReturn
<1> HIDE DEF late, mid
<1>4. {m - book[k].mid2 : m \in {mid}} = {mid - book[k].mid2}
  OBVIOUS
<1>5. {m - book[k].mid2 : m \in {}} = {}
  OBVIOUS
<1>6. CASE late
  BY <1>2, <1>3, <1>5, <1>6
<1>7. CASE ~late
  BY <1>2, <1>3, <1>4, <1>7
<1> QED BY <1>6, <1>7

LEMMA HorizonsAreWhole == CostsInv => HorizonIsWhole
<1> SUFFICES ASSUME CostsInv, NEW i \in DOMAIN costs
             PROVE  LET p == costs[i].print
                        end == Standing(p.at).at + horizon
                    IN  costs[i].realized = IF Covered(end)
                                            THEN {EffectiveSpread(Standing(end).touch, p.price, p.side)}
                                            ELSE {}
  BY DEF HorizonIsWhole, Covered
<1> DEFINE p == costs[i].print
           end == Standing(p.at).at + horizon
           k == Max(UpTo(book, p.at))
           future == MidAfter(horizon)[k]
<1>1. p = trades[i] /\ p \in Trade
  BY MeasuredAgainst
<1>2. /\ horizon \in Nat /\ UpTo(book, p.at) # {} /\ k \in DOMAIN book
      /\ costs[i] = Cost(p, book[k], future)
  BY <1>1, RowMeasured
<1>3. p.at \in Int
  BY <1>1 DEF Trade
<1>4. book[k].at = Standing(p.at).at
  <2>1. book[k] = RowOf(Standing(p.at))
    BY <1>2, <1>3, JoinFindsStanding
  <2> QED BY <2>1 DEF RowOf
<1>5. future = IF Covered(end) THEN {Mid2(Standing(end).touch)} ELSE {}
  BY <1>2, <1>4, FutureMid
<1>6. costs[i].realized = {Direction(p.side) * (2 * p.price - mid2) : mid2 \in future}
  BY <1>2 DEF Cost
<1> HIDE DEF p, end, k, future
<1>7. CASE Covered(end)
  <2> DEFINE mid == Mid2(Standing(end).touch)
  <2>1. costs[i].realized = {Direction(p.side) * (2 * p.price - m) : m \in {mid}}
    BY <1>5, <1>6, <1>7
  <2> HIDE DEF mid
  <2>2. costs[i].realized = {Direction(p.side) * (2 * p.price - mid)}
    BY <2>1
  <2> QED BY <1>7, <2>2 DEF EffectiveSpread, mid, p, end
<1>8. CASE ~Covered(end)
  <2>1. costs[i].realized = {}
    BY <1>5, <1>6, <1>8
  <2> QED BY <1>8, <2>1 DEF p, end
<1> QED BY <1>7, <1>8

(* The horizon of a print is counted from its book row, and its realized   *)
(* spread is reported exactly when the sample reaches its end, against the *)
(* view standing then (execution.py:45-57, 113-117).                       *)
THEOREM HorizonsReachTheirEnd == Spec => []HorizonIsWhole
BY CostsInvHolds, HorizonsAreWhole, PTL

LEMMA ImpactsAreReturns == CostsInv => ImpactIsForwardReturn
<1> SUFFICES ASSUME CostsInv, NEW i \in DOMAIN costs
             PROVE  LET p == costs[i].print
                        row == CHOOSE j \in DOMAIN book : book[j].at = Standing(p.at).at
                    IN  costs[i].impact = {Direction(p.side) * move : move \in ForwardReturn(horizon)[row]}
  BY DEF ImpactIsForwardReturn
<1> DEFINE p == costs[i].print
           k == Max(UpTo(book, p.at))
           row == CHOOSE j \in DOMAIN book : book[j].at = Standing(p.at).at
           future == MidAfter(horizon)[k]
<1>1. p = trades[i] /\ p \in Trade
  BY MeasuredAgainst
<1>2. /\ horizon \in Nat /\ UpTo(book, p.at) # {} /\ k \in DOMAIN book
      /\ costs[i] = Cost(p, book[k], future)
  BY <1>1, RowMeasured
<1>3. p.at \in Int
  BY <1>1 DEF Trade
<1>4. book[k].at = Standing(p.at).at
  <2>1. book[k] = RowOf(Standing(p.at))
    BY <1>2, <1>3, JoinFindsStanding
  <2> QED BY <2>1 DEF RowOf
<1>5. \A j \in DOMAIN book : book[j].at = book[k].at => j = k
  <2> SUFFICES ASSUME NEW j \in DOMAIN book, book[j].at = book[k].at, j # k PROVE FALSE
    OBVIOUS
  <2>1. book \in Seq(Row) /\ StampsRise(book, now)
    BY DEF CostsInv, CostsTypes
  <2>2. j \in Nat /\ k \in Nat /\ book[j] \in Row
    BY <1>2, <2>1, EntriesOf
  <2>3. book[j].at < book[k].at \/ book[k].at < book[j].at
    <3>1. j < k \/ k < j
      BY <2>2
    <3> QED BY <1>2, <2>1, <3>1 DEF StampsRise
  <2> QED BY <2>2, <2>3 DEF Row
<1>6. row = k
  BY <1>2, <1>4, <1>5
<1>7. ForwardReturn(horizon)[k] = {m - book[k].mid2 : m \in future}
  BY <1>2, SameRule
<1>8. costs[i].impact = {Direction(p.side) * (m - book[k].mid2) : m \in future}
  BY <1>2 DEF Cost
<1> HIDE DEF p, k, row, future
<1>9. costs[i].impact = {Direction(p.side) * move : move \in ForwardReturn(horizon)[k]}
  BY <1>7, <1>8
<1> QED BY <1>6, <1>9 DEF p, row

(* Price impact is the forward return of the row the print was matched     *)
(* with, although the two are computed by functions written apart          *)
(* (execution.py:45-57, evaluate.py:50-94).                                *)
THEOREM ImpactsAgree == Spec => []ImpactIsForwardReturn
BY CostsInvHolds, ImpactsAreReturns, PTL

-----------------------------------------------------------------------------
(* Quantile buckets.                                                       *)

LEMMA Quotient ==
    ASSUME NEW a \in Int, NEW b \in Nat \ {0}
    PROVE  a = b * (a \div b) + (a % b) /\ a % b \in 0 .. b - 1 /\ a \div b \in Int
OBVIOUS

LEMMA QuotientIs ==
    ASSUME NEW a \in Int, NEW b \in Nat \ {0}, NEW q \in Int, NEW r \in 0 .. b - 1, a = b * q + r
    PROVE  a \div b = q
OBVIOUS

LEMMA Multiplies ==
    ASSUME NEW b \in Nat, NEW x \in Int, NEW y \in Int, x <= y
    PROVE  b * x <= b * y
<1>1. b * (y - x) >= 0
  OBVIOUS
<1>2. b * (y - x) = b * y - b * x
  OBVIOUS
<1> QED BY <1>1, <1>2

(* An integer is at most a quotient when its product is at most the        *)
(* dividend.                                                               *)
LEMMA QuotientBounds ==
    ASSUME NEW a \in Int, NEW b \in Nat \ {0}, NEW r \in Int
    PROVE  r <= a \div b <=> b * r <= a
<1> DEFINE q == a \div b
           s == a % b
<1>1. a = b * q + s /\ s \in 0 .. b - 1 /\ q \in Int
  BY Quotient
<1> HIDE DEF q, s
<1>2. b * r \in Int /\ b * q \in Int
  BY <1>1
<1>3. CASE r <= q
  <2>1. b * r <= b * q
    BY <1>1, <1>3, Multiplies
  <2> QED BY <1>1, <1>2, <1>3, <2>1 DEF q
<1>4. CASE ~(r <= q)
  <2>1. b * (q + 1) <= b * r
    BY <1>1, <1>4, Multiplies
  <2>2. b * (q + 1) = b * q + b
    BY <1>1
  <2> QED BY <1>1, <1>2, <1>4, <2>1, <2>2 DEF q
<1> QED BY <1>3, <1>4

(* A bucket holds the ranks between two quotients.                         *)
LEMMA BucketHolds ==
    ASSUME NEW n \in Nat \ {0}, NEW buckets \in Nat \ {0}, NEW r \in 1 .. n, NEW b \in Nat \ {0}
    PROVE  /\ Bucket(r, n, buckets) \in Int
           /\ b <= Bucket(r, n, buckets) <=> (n * (b - 1)) \div buckets < r
<1> DEFINE x == r * buckets + n - 1
           y == n * (b - 1)
<1>1. /\ Bucket(r, n, buckets) = x \div n /\ x \in Int /\ y \in Int /\ r \in Int
      /\ n * b = y + n /\ r * buckets = buckets * r /\ buckets * r \in Int
  BY DEF Bucket
<1>2. x = buckets * r + n - 1
  BY <1>1
<1> HIDE DEF x, y
<1>3. b <= x \div n <=> n * b <= x
  BY <1>1, QuotientBounds
<1>4. n * b <= x <=> ~(buckets * r <= y)
  BY <1>1, <1>2
<1>5. r <= y \div buckets <=> buckets * r <= y
  BY <1>1, QuotientBounds
<1>6. y \div buckets \in Int /\ x \div n \in Int
  BY <1>1, Quotient
<1>7. b <= x \div n <=> y \div buckets < r
  BY <1>1, <1>3, <1>4, <1>5, <1>6
<1> QED BY <1>1, <1>6, <1>7 DEF y

LEMMA BucketSize ==
    ASSUME NEW n \in Nat \ {0}, NEW buckets \in Nat \ {0}, NEW b \in 1 .. buckets
    PROVE  Cardinality(Placed(b, n, buckets)) \in n \div buckets .. n \div buckets + 1
<1> DEFINE y == n * (b - 1)
           z == n * b
           f == y \div buckets
           g == z \div buckets
           q == n \div buckets
           s == y % buckets
           t == n % buckets
<1>1. y \in Nat /\ z \in Nat /\ z = y + n
  <2>1. n * (b - 1) >= 0
    OBVIOUS
  <2> QED BY <2>1
<1>2. /\ y = buckets * f + s /\ s \in 0 .. buckets - 1 /\ f \in Int
      /\ n = buckets * q + t /\ t \in 0 .. buckets - 1 /\ q \in Int
      /\ g \in Int
  <2> HIDE DEF y, z
  <2>1. y = buckets * f + s /\ s \in 0 .. buckets - 1 /\ f \in Int
    BY <1>1, Quotient
  <2>2. n = buckets * q + t /\ t \in 0 .. buckets - 1 /\ q \in Int
    BY Quotient
  <2>3. g \in Int
    BY <1>1, Quotient
  <2> QED BY <2>1, <2>2, <2>3
<1>3. 0 <= f /\ 0 <= q
  <2>1. 0 <= y \div buckets <=> buckets * 0 <= y
    BY <1>1, QuotientBounds
  <2>2. 0 <= n \div buckets <=> buckets * 0 <= n
    BY QuotientBounds
  <2>3. buckets * 0 = 0
    OBVIOUS
  <2> QED BY <1>1, <2>1, <2>2, <2>3
<1>4. g <= n
  <2>1. n + 1 <= z \div buckets <=> buckets * (n + 1) <= z
    BY <1>1, QuotientBounds
  <2>2. n * b <= n * buckets
    BY Multiplies
  <2>3. buckets * (n + 1) = n * buckets + buckets /\ n * buckets \in Int
    OBVIOUS
  <2>4. ~(buckets * (n + 1) <= z)
    BY <1>1, <2>2, <2>3
  <2> QED BY <1>2, <2>1, <2>4
<1>5. Placed(b, n, buckets) = f + 1 .. g
  <2>1. ASSUME NEW r \in 1 .. n
        PROVE  Bucket(r, n, buckets) = b <=> f < r /\ r <= g
    <3>1. b \in Nat \ {0} /\ b + 1 \in Nat \ {0} /\ (b + 1) - 1 = b
      OBVIOUS
    <3>2. /\ Bucket(r, n, buckets) \in Int
          /\ b <= Bucket(r, n, buckets) <=> f < r
      BY <3>1, BucketHolds
    <3>3. b + 1 <= Bucket(r, n, buckets) <=> (n * ((b + 1) - 1)) \div buckets < r
      BY <3>1, BucketHolds
    <3>4. b + 1 <= Bucket(r, n, buckets) <=> g < r
      BY <3>1, <3>3
    <3> DEFINE k == Bucket(r, n, buckets)
    <3>5. k \in Int /\ (b <= k <=> f < r) /\ (b + 1 <= k <=> g < r)
      BY <3>2, <3>4
    <3> HIDE DEF f, g, k, y, z
    <3>6. k = b <=> f < r /\ r <= g
      BY <1>2, <3>5
    <3> QED BY <3>6 DEF k
  <2> HIDE DEF f, g
  <2>2. \A r \in f + 1 .. g : r \in 1 .. n
    BY <1>2, <1>3, <1>4
  <2>3. \A r \in Int : r \in f + 1 .. g <=> f < r /\ r <= g
    BY <1>2
  <2> QED BY <2>1, <2>2, <2>3 DEF Placed
<1>6. g = f + q \/ g = f + q + 1
  <2> HIDE DEF y, z, f, q, s, t
  <2> buckets \in Nat \ {0} /\ z \in Int
    BY <1>1
  <2>1. z = buckets * f + buckets * q + s + t /\ buckets * f \in Int /\ buckets * q \in Int
    BY <1>1, <1>2
  <2>2. CASE s + t < buckets
    <3>1. z = buckets * (f + q) + (s + t) /\ s + t \in 0 .. buckets - 1 /\ f + q \in Int
      BY <1>2, <2>1, <2>2
    <3>2. z \div buckets = f + q
      BY <3>1, QuotientIs
    <3> QED BY <3>2
  <2>3. CASE ~(s + t < buckets)
    <3>1. buckets * (f + q + 1) = buckets * f + buckets * q + buckets
      BY <1>2
    <3>2. z = buckets * (f + q + 1) + (s + t - buckets) /\ s + t - buckets \in 0 .. buckets - 1
          /\ f + q + 1 \in Int
      BY <1>2, <2>1, <2>3, <3>1
    <3>3. z \div buckets = f + q + 1
      BY <3>2, QuotientIs
    <3> QED BY <3>3
  <2> QED BY <2>2, <2>3
<1> HIDE DEF f, g, q
<1>7. Cardinality(f + 1 .. g) = g - f
  <2>1. Cardinality(f + 1 .. g) = IF f + 1 > g THEN 0 ELSE g - (f + 1) + 1
    BY <1>2, FS_Interval
  <2> QED BY <1>2, <1>3, <1>6, <2>1
<1>8. Cardinality(Placed(b, n, buckets)) \in q .. q + 1
  BY <1>2, <1>5, <1>6, <1>7
<1> QED BY <1>8 DEF q

LEMMA EveryRankIsPlaced ==
    ASSUME NEW n \in Nat \ {0}, NEW buckets \in Nat \ {0}, NEW r \in 1 .. n
    PROVE  Bucket(r, n, buckets) \in 1 .. buckets
<1>1. /\ Bucket(r, n, buckets) \in Int
      /\ 1 <= Bucket(r, n, buckets) <=> (n * (1 - 1)) \div buckets < r
  BY BucketHolds
<1>2. (n * (1 - 1)) \div buckets = 0
  <2>1. n * (1 - 1) = 0 /\ 0 = buckets * 0 + 0 /\ 0 \in 0 .. buckets - 1
    OBVIOUS
  <2> QED BY <2>1, QuotientIs
<1>3. buckets + 1 <= Bucket(r, n, buckets) <=> (n * ((buckets + 1) - 1)) \div buckets < r
  <2>1. buckets + 1 \in Nat \ {0}
    OBVIOUS
  <2> QED BY <2>1, BucketHolds
<1>4. (n * ((buckets + 1) - 1)) \div buckets = n
  <2>1. /\ n * ((buckets + 1) - 1) = buckets * n + 0 /\ 0 \in 0 .. buckets - 1
        /\ n * ((buckets + 1) - 1) \in Int
    OBVIOUS
  <2> QED BY <2>1, QuotientIs
<1> QED BY <1>1, <1>2, <1>3, <1>4

LEMMA BucketsHoldAlike ==
    ASSUME NEW n \in Nat, NEW buckets \in Nat \ {0}, NEW b \in 1 .. buckets, NEW c \in 1 .. buckets
    PROVE  Cardinality(Placed(b, n, buckets)) - Cardinality(Placed(c, n, buckets)) \in -1 .. 1
<1>1. CASE n = 0
  <2>1. Placed(b, n, buckets) = {} /\ Placed(c, n, buckets) = {}
    BY <1>1 DEF Placed
  <2> QED BY <2>1, FS_EmptySet
<1>2. CASE n # 0
  <2> DEFINE q == n \div buckets
             x == Cardinality(Placed(b, n, buckets))
             y == Cardinality(Placed(c, n, buckets))
  <2>1. q \in Int
    BY Quotient
  <2>2. x \in q .. q + 1 /\ y \in q .. q + 1
    BY <1>2, BucketSize
  <2> HIDE DEF q, x, y
  <2>3. x - y \in -1 .. 1
    BY <2>1, <2>2
  <2> QED BY <2>3 DEF x, y
<1> QED BY <1>1, <1>2

LEMMA EvenBuckets == CostsInv => BucketsAreEven
<1> SUFFICES ASSUME CostsInv PROVE BucketsAreEven
  OBVIOUS
<1> DEFINE T == {j \in DOMAIN book : ForwardReturn(horizon)[j] # {}}
           n == Cardinality(T)
<1>1. n \in Nat
  <2>1. DOMAIN book = 1 .. Len(book) /\ Len(book) \in Nat
    BY LenProperties DEF CostsInv, CostsTypes
  <2>2. IsFiniteSet(DOMAIN book)
    BY <2>1, FS_Interval
  <2>3. IsFiniteSet(T)
    BY <2>2, FS_Subset
  <2> QED BY <2>3, FS_CardinalityType
<1> HIDE DEF n
<1>2. ASSUME NEW buckets \in Buckets
      PROVE  /\ \A r \in 1 .. n : Bucket(r, n, buckets) \in 1 .. buckets
             /\ \A b, c \in 1 .. buckets :
                 Cardinality(Placed(b, n, buckets)) - Cardinality(Placed(c, n, buckets)) \in -1 .. 1
  <2>1. buckets \in Nat \ {0}
    BY CostsAssumption
  <2>2. \A r \in 1 .. n : n # 0
    BY <1>1
  <2> QED BY <1>1, <2>1, <2>2, EveryRankIsPlaced, BucketsHoldAlike
<1> QED BY <1>2 DEF BucketsAreEven, n

(* The buckets of a quantile summary are of one size up to a row, for      *)
(* every number of rows and buckets, and the clip to 1..buckets is never   *)
(* needed (evaluate.py:104-131).                                           *)
THEOREM BucketsStayEven == Spec => []BucketsAreEven
BY CostsInvHolds, EvenBuckets, PTL
=============================================================================
