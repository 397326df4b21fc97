-------------------------------- MODULE Costs --------------------------------
(***************************************************************************)
(* What observed trades paid: the signal and trade tables a capture is     *)
(* flattened into (l2tca.io.derive, l2tca.io.convert), and the joins over  *)
(* them in l2tca.research.execution and l2tca.research.evaluate.           *)
(*                                                                         *)
(* A price is a whole number of ticks, so a mid is held doubled.  The      *)
(* measures in basis points are held as their numerators over the mid of   *)
(* the row they belong to; a null is the empty set.  Every print has       *)
(* quantity 1, and recv_ns grows with every frame.                         *)
(***************************************************************************)
EXTENDS Integers, FiniteSets, SequencesExt

CONSTANTS
    Touches,      \* the touches of the views: <<best bid, best ask>>, 0 for an empty side
    PrintPrices,  \* the prices of the prints of one trade frame, a sequence
    Horizons,     \* the values of horizon_ns
    Buckets,      \* the values of buckets
    MaxTick,      \* bound on recv_ns
    MaxFrames     \* bound on the trade frames

ASSUME CostsAssumption ==
    /\ Touches \subseteq Nat \X Nat /\ PrintPrices \subseteq Seq(Nat)
    /\ Horizons \subseteq Nat \ {0}
    /\ Buckets \subseteq Nat \ {0, 1}
    /\ MaxTick \in Nat /\ MaxFrames \in Nat

VARIABLES
    now,      \* recv_ns of the last frame
    views,    \* history: the views of the capture, [at, touch]
    book,     \* the signal table, one row per two-sided view
    frames,   \* history: the trade frames of the capture
    trades,   \* the trade table, one row per print
    horizon,  \* the horizon the costs were measured at; 0 before
    costs     \* the rows execution_costs returned, by row of the trade table

vars == <<now, views, book, frames, trades, horizon, costs>>

-----------------------------------------------------------------------------
(* Signals of a view, l2tca.signals.microstructure.                        *)
TwoSided(touch) == touch[1] > 0 /\ touch[2] > 0
Mid2(touch) == touch[1] + touch[2]
QuotedSpread(touch) == touch[2] - touch[1]
Direction(side) == IF side = "buy" THEN 1 ELSE -1
EffectiveSpread(touch, price, side) == Direction(side) * (2 * price - Mid2(touch))

-----------------------------------------------------------------------------
Init ==
    /\ now = 0
    /\ views = << >> /\ book = << >>
    /\ frames = 0 /\ trades = << >>
    /\ horizon = 0 /\ costs = << >>

(* Mutant of SignalRows: the touch of a one-sided view is written too.     *)
SignalRowsAlways(view) ==
    <<[at |-> view.at, mid2 |-> Mid2(view.touch), quoted |-> QuotedSpread(view.touch)]>>

(* signal_rows, pivoted by signals_wide: no row for a one-sided view.      *)
SignalRows(view) ==
    IF TwoSided(view.touch)
    THEN <<[at |-> view.at, mid2 |-> Mid2(view.touch), quoted |-> QuotedSpread(view.touch)]>>
    ELSE << >>

BookView(at, touch) ==
    LET view == [at |-> at, touch |-> touch]
    IN  /\ views' = Append(views, view)
        /\ book' = book \o SignalRows(view)
        /\ UNCHANGED <<frames, trades>>

(* trade_rows_from_frame: the prints of a frame share its stamp.           *)
TradeRows(at, type, side, prices) ==
    [i \in DOMAIN prices |-> [at |-> at, type |-> type, side |-> side, price |-> prices[i]]]

TradeFrame(at, type, side, prices) ==
    /\ frames < MaxFrames
    /\ frames' = frames + 1
    /\ trades' = trades \o TradeRows(at, type, side, prices)
    /\ UNCHANGED <<views, book>>

Capture ==
    /\ horizon = 0 /\ now < MaxTick
    /\ \E at \in now + 1 .. MaxTick :
        /\ now' = at
        /\ \/ \E touch \in Touches : BookView(at, touch)
           \/ \E type \in {"snapshot", "update"}, side \in {"buy", "sell"}, prices \in PrintPrices :
                TradeFrame(at, type, side, prices)
    /\ UNCHANGED <<horizon, costs>>

-----------------------------------------------------------------------------
(* join_asof(strategy="backward"): the last row stamped at or before t.    *)
UpTo(table, t) == {i \in DOMAIN table : table[i].at <= t}
AsOf(table, t) == table[Max(UpTo(table, t))]

LastAt == Last(book).at
Shifted(h) == [i \in DOMAIN book |-> [at |-> book[i].at - h, mid2 |-> book[i].mid2]]

(* Mutant of MidAfter: the last mid of the sample stands in for the mids   *)
(* past its end.                                                           *)
MidAfterClipped(h) == [i \in DOMAIN book |-> {AsOf(Shifted(h), book[i].at).mid2}]

(* _mid_after                                                              *)
MidAfter(h) ==
    [i \in DOMAIN book |->
        IF book[i].at + h > LastAt THEN {} ELSE {AsOf(Shifted(h), book[i].at).mid2}]

(* Mutant of ForwardReturn: the horizon must end before the sample does.   *)
ForwardReturnStrict(h) ==
    [i \in DOMAIN book |->
        IF book[i].at + h >= LastAt THEN {} ELSE {AsOf(Shifted(h), book[i].at).mid2 - book[i].mid2}]

(* forward_return_bps: the same rule in a function of its own.             *)
ForwardReturn(h) ==
    [i \in DOMAIN book |->
        IF UpTo(Shifted(h), book[i].at) = {} \/ book[i].at + h > LastAt
        THEN {}
        ELSE {AsOf(Shifted(h), book[i].at).mid2 - book[i].mid2}]

(* Mutant of Live: the backfill is kept.                                   *)
LiveAndBackfill == DOMAIN trades

Live == {i \in DOMAIN trades : trades[i].type = "update"}

Cost(print, row, future) ==
    [print |-> print, mid2 |-> row.mid2, quoted |-> row.quoted,
     effective |-> Direction(print.side) * (2 * print.price - row.mid2),
     realized |-> {Direction(print.side) * (2 * print.price - mid2) : mid2 \in future},
     impact |-> {Direction(print.side) * (mid2 - row.mid2) : mid2 \in future}]

(* The join of a live print with the book row before it, and drop_nulls.   *)
Matched == {i \in Live : UpTo(book, trades[i].at) # {}}
ExecutionCosts(h) ==
    [i \in Matched |->
        LET row == Max(UpTo(book, trades[i].at))
        IN  Cost(trades[i], book[row], MidAfter(h)[row])]

(* execution_costs; without a live trade it raises ValueError.             *)
Measure ==
    /\ horizon = 0
    /\ Live # {}
    /\ \E h \in Horizons :
        /\ horizon' = h
        /\ costs' = ExecutionCosts(h)
    /\ UNCHANGED <<now, views, book, frames, trades>>

Next == Capture \/ Measure

Spec == Init /\ [][Next]_vars

-----------------------------------------------------------------------------
(* summarise_costs: the rows that paid the quoted spread, less, and more.  *)
AtTouch == {i \in DOMAIN costs : costs[i].effective = costs[i].quoted}
Improved == {i \in DOMAIN costs : costs[i].effective < costs[i].quoted}
Through == {i \in DOMAIN costs : costs[i].effective > costs[i].quoted}

(* Mutant of Bucket: a rank counted from 0 is assumed, as for row numbers. *)
BucketFromZero(rank, n, buckets) == (rank * buckets) \div n + 1

(* bucket_summary: the bucket of the row with this ordinal rank among n.   *)
Bucket(rank, n, buckets) == (rank * buckets + n - 1) \div n

-----------------------------------------------------------------------------
(* The view a print at t is to be measured against: the last two-sided one *)
(* that had arrived.                                                       *)
Usable(t) == {i \in DOMAIN views : views[i].at <= t /\ TwoSided(views[i].touch)}
Standing(t) == views[Max(Usable(t))]

(* "A trade with no book state at or before it is dropped" and "the        *)
(* subscribe backfill is dropped" (execution.py:86-97): every live print   *)
(* that had a usable view gives one row, and no other does, with the       *)
(* spreads the view functions of l2tca.signals give for that view, never   *)
(* for a later.                                                            *)
BooksWereSeen ==
    horizon > 0 =>
        /\ DOMAIN costs = {i \in DOMAIN trades : trades[i].type = "update" /\ Usable(trades[i].at) # {}}
        /\ \A i \in DOMAIN costs :
            LET p == trades[i]
                touch == Standing(p.at).touch
            IN  /\ costs[i].print = p
                /\ costs[i].quoted = QuotedSpread(touch)
                /\ costs[i].effective = EffectiveSpread(touch, p.price, p.side)

(* "A trade at the touch pays exactly the quoted spread -- the algebra is  *)
(* an identity" (execution.py:123): the three shares of the summary say    *)
(* where the print was against the side of the book it took, and a print   *)
(* before the first two-sided book is in none of them.                     *)
SharesNameTheTouch ==
    \A i \in DOMAIN costs :
        LET touch == Standing(costs[i].print.at).touch
            price == costs[i].print.price
            buys == costs[i].print.side = "buy"
        IN  /\ Usable(costs[i].print.at) # {}
            /\ i \in AtTouch <=> price = IF buys THEN touch[2] ELSE touch[1]
            /\ i \in Improved <=> IF buys THEN price < touch[2] ELSE price > touch[1]
            /\ i \in Through <=> IF buys THEN price > touch[2] ELSE price < touch[1]

(* The split into realized spread and impact is reported exactly for the   *)
(* prints whose whole horizon, counted from the book row, lies inside the  *)
(* sample, and with the mid of the view standing when it ends              *)
(* (execution.py:45-57).                                                   *)
HorizonIsWhole ==
    \A i \in DOMAIN costs :
        LET p == costs[i].print
            end == Standing(p.at).at + horizon
            covered == \E j \in DOMAIN views : views[j].at >= end /\ TwoSided(views[j].touch)
        IN  IF covered
            THEN costs[i].realized = {EffectiveSpread(Standing(end).touch, p.price, p.side)}
            ELSE costs[i].realized = {}

(* Two functions written apart, _mid_after (execution.py:45) and           *)
(* forward_return_bps (evaluate.py:50), agree: the impact of a print is    *)
(* the forward return of its book row, signed by the taker, and both are   *)
(* null together.                                                          *)
ImpactIsForwardReturn ==
    \A i \in DOMAIN costs :
        LET p == costs[i].print
            row == CHOOSE j \in DOMAIN book : book[j].at = Standing(p.at).at
        IN  costs[i].impact = {Direction(p.side) * move : move \in ForwardReturn(horizon)[row]}

(* The ranks a bucket of the summary holds.                                *)
Placed(b, n, buckets) == {r \in 1 .. n : Bucket(r, n, buckets) = b}

(* Quantile buckets (evaluate.py:104-131): whatever the number of rows     *)
(* with a forward return, no bucket is more than one row fuller than       *)
(* another, and every one is a bucket of the summary.                      *)
BucketsAreEven ==
    horizon > 0 =>
        LET n == Cardinality({j \in DOMAIN book : ForwardReturn(horizon)[j] # {}})
        IN  \A buckets \in Buckets :
                /\ \A r \in 1 .. n : Bucket(r, n, buckets) \in 1 .. buckets
                /\ \A b, c \in 1 .. buckets :
                    Cardinality(Placed(b, n, buckets)) - Cardinality(Placed(c, n, buckets)) \in -1 .. 1
=============================================================================
