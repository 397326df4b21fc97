----------------------------- MODULE TwapWindow -----------------------------
(***************************************************************************)
(* l2tca.research.backtest.run_window with the functions of                *)
(* l2tca.tca.analysis it calls: a parent order is worked over one window   *)
(* on a TWAP schedule against the book views of that window, one action    *)
(* per slice, and then priced against the arrival mid, the volume-weighted *)
(* mid and the four attribution layers.                                    *)
(*                                                                         *)
(* Time is counted in slices: slice i is sent at instant i - 1 and the     *)
(* window ends at Slices.  A mid is kept as the sum of the two touches,    *)
(* twice its value, so that it stays an integer.                           *)
(***************************************************************************)
EXTENDS BookOps, Functions

CONSTANTS
    Slices,      \* slices of the schedule
    SliceQty,    \* order.target_qty / slices
    MaxViews,    \* bound on the views of the window
    Candidates   \* the books a view may show

ASSUME TwapAssumption ==
    /\ Slices \in Nat \ {0} /\ SliceQty \in Nat \ {0}
    /\ MaxViews \in Nat
    /\ Candidates \subseteq Book

Start == 0           \* also the order's decision instant
End   == Slices
Target == Slices * SliceQty

VARIABLES
    side,        \* order.side: "bid" buys
    views,       \* the views run_windows collected, ascending in recv_ns
    traded,      \* the instants of the trades run_window was given volumes of
    slice,       \* the next slice
    remaining,   \* remaining_total_qty
    carry,       \* carry_over_qty
    fills,       \* the fills so far; of names the view they were taken from
    outcome      \* what became of the window

given == <<side, views, traded>>
orderVars == <<given, slice, remaining, carry, fills, outcome>>

Opposite(s) == IF s = "bid" THEN "ask" ELSE "bid"
Sign(s) == IF s = "bid" THEN 1 ELSE -1

(***************************************************************************)
(* Contemporaneity: the last view at or before t, 0 when there is none.    *)
(***************************************************************************)
ViewAhead(t) == Cardinality({i \in DOMAIN views : views[i].at <= t + 1})
ViewAt(t) == Cardinality({i \in DOMAIN views : views[i].at <= t})

TwoSided(v) == \A s \in Side : Held(views[v].book[s]) # {}
Mid2(v) == Best(views[v].book, "bid") + Best(views[v].book, "ask")

(***************************************************************************)
(* Before run_window is called, and its call for the views vs.             *)
(***************************************************************************)
View == [at : -1 .. End, book : Candidates]

OrderInit ==
    /\ side = "bid" /\ views = << >> /\ traded = {}
    /\ slice = 1 /\ remaining = Target /\ carry = 0
    /\ fills = << >>
    /\ outcome = "none"

Open(vs) ==
    /\ outcome = "none"
    /\ side' \in Side
    /\ views' = vs
    /\ traded' \in {{}} \cup {{t} : t \in Start .. End}
    /\ outcome' = "working"
    /\ UNCHANGED <<slice, remaining, carry, fills>>

(***************************************************************************)
(* One slice of simulate_child_orders.                                     *)
(***************************************************************************)
Least2(x, y) == IF x < y THEN x ELSE y
Beyond(x, y) == IF x > y THEN x - y ELSE 0

(* The child walks the opposite side best price first: a level yields what *)
(* is still needed after every better level was emptied.                   *)
Walked(levels, s, need) ==
    [p \in Price |->
        LET ahead == SumFunctionOnSet(levels, {q \in Price : Better(s, q, p)})
        IN  Least2(levels[p], Beyond(need, ahead))]

Sent == slice - 1
WantedAfresh == Least2(SliceQty, remaining)
Wanted == Least2(SliceQty + carry, remaining)

(* depth_levels yields the levels best first.                              *)
BestFirst(s, P) ==
    CHOOSE ps \in [1 .. Cardinality(P) -> P] :
        \A i, j \in DOMAIN ps : i < j => Better(s, ps[i], ps[j])

FillsOf(taken, s) ==
    LET prices == BestFirst(s, {p \in Price : taken[p] > 0})
    IN  [i \in DOMAIN prices |->
            [at |-> Sent, price |-> prices[i], qty |-> taken[prices[i]], of |-> ViewAt(Sent)]]

Working == outcome = "working" /\ slice <= Slices /\ remaining > 0

SliceForgotten ==
    /\ Working /\ ViewAt(Sent) = 0
    /\ carry' = 0
    /\ slice' = slice + 1
    /\ UNCHANGED <<given, remaining, fills, outcome>>

SliceWithoutView ==
    /\ Working /\ ViewAt(Sent) = 0
    /\ carry' = Wanted
    /\ slice' = slice + 1
    /\ UNCHANGED <<given, remaining, fills, outcome>>

SliceFills ==
    /\ Working /\ ViewAt(Sent) # 0
    /\ LET s     == Opposite(side)
           taken == Walked(views[ViewAt(Sent)].book[s], s, Wanted)
           got   == SumFunctionOnSet(taken, Price)
       IN  /\ fills' = fills \o FillsOf(taken, s)
           /\ remaining' = remaining - got
           /\ carry' = Wanted - got
    /\ slice' = slice + 1
    /\ UNCHANGED <<given, outcome>>

(***************************************************************************)
(* run_window prices what was filled.  A missing view is a ValueError, and *)
(* run_windows skips the window; a view without a touch on both sides is   *)
(* an IndexError, which nothing catches.                                   *)
(***************************************************************************)
Worked == outcome = "working" /\ ~Working

NoFills ==
    /\ Worked /\ fills = << >>
    /\ outcome' = "empty"
    /\ UNCHANGED <<given, slice, remaining, carry, fills>>

ArrivalMissing ==
    /\ Worked /\ fills # << >> /\ ViewAt(Start) = 0
    /\ outcome' = "skipped"
    /\ UNCHANGED <<given, slice, remaining, carry, fills>>

(* The views whose mid is read: of the decision instant, of the traded     *)
(* volume when the window has any, of every fill, and the last one.        *)
Priced ==
    {ViewAt(Start), Len(views)}
        \cup {fills[i].of : i \in DOMAIN fills}
        \cup ({ViewAt(t) : t \in traded} \ {0})

Ends(result) ==
    /\ outcome' = result
    /\ UNCHANGED <<given, slice, remaining, carry, fills>>
Priceable == Worked /\ fills # << >> /\ ViewAt(Start) # 0

PriceIt    == Priceable /\ (\A v \in Priced : TwoSided(v)) /\ Ends("priced")
PriceFails == Priceable /\ (\E v \in Priced : ~TwoSided(v)) /\ Ends("crashed")

OrderNext ==
    \/ SliceWithoutView \/ SliceFills
    \/ NoFills \/ ArrivalMissing \/ PriceIt \/ PriceFails

-----------------------------------------------------------------------------
(***************************************************************************)
(* attribute_slippage, in half ticks and before the common scale to basis  *)
(* points.  A simulated fill carries no fee.                               *)
(***************************************************************************)
EachFill(value) == SumFunctionOnSet(value, DOMAIN fills)

Filled == EachFill([i \in DOMAIN fills |-> fills[i].qty])
Paid2  == EachFill([i \in DOMAIN fills |-> fills[i].qty * 2 * fills[i].price])

SpreadLayer ==
    EachFill([i \in DOMAIN fills |->
        fills[i].qty * (2 * fills[i].price - Mid2(ViewAt(fills[i].at))) * Sign(side)])
TimingLayer ==
    EachFill([i \in DOMAIN fills |->
        fills[i].qty * (Mid2(ViewAt(fills[i].at)) - Mid2(ViewAt(Start))) * Sign(side)])
OpportunityUnsigned ==
    (Target - Filled) * (Mid2(Len(views)) - Mid2(ViewAt(Start)))
OpportunityLayer ==
    (Target - Filled) * (Mid2(Len(views)) - Mid2(ViewAt(Start))) * Sign(side)

-----------------------------------------------------------------------------
(* The schedule is never overtaken and nothing is forgotten: what was sent *)
(* so far is either filled or carried to the next slice, through slices    *)
(* that found no view, too little depth or more than they needed           *)
(* (analysis.py:189-232).                                                  *)
KeepsSchedule ==
    /\ Filled + remaining = Target
    /\ Filled + carry = Sent * SliceQty

(* No look-ahead and no invented price: a fill is taken from the last view *)
(* received by the time the child was sent, never for more than the level  *)
(* showed, and only after the same child emptied every better level        *)
(* (analysis.py:203-229).                                                  *)
FillsAreWalks ==
    \A i \in DOMAIN fills :
        LET f == fills[i]
            s == Opposite(side)
            shown == views[f.of].book[s]
        IN  /\ \A v \in DOMAIN views : views[v].at <= f.at <=> v <= f.of
            /\ f.qty <= shown[f.price]
            /\ \A q \in Held(shown) : Better(s, q, f.price) =>
                  \E j \in 1 .. i - 1 :
                     fills[j] = [at |-> f.at, price |-> q, qty |-> shown[q], of |-> f.of]

(* An order is left unfilled only for want of depth: the last child took   *)
(* everything its view showed, or had no view (analysis.py:180-183).       *)
UnfilledOnlyForDepth ==
    (outcome \notin {"none", "working"} /\ remaining > 0 /\ ViewAt(End - 1) # 0) =>
        LET shown == views[ViewAt(End - 1)].book[Opposite(side)]
        IN  \A p \in Held(shown) : \E i \in DOMAIN fills :
              fills[i].at = End - 1 /\ fills[i].price = p /\ fills[i].qty = shown[p]

(* The layers sum to the implementation shortfall, whatever moved between  *)
(* the fills and however much stayed unfilled: what the fills paid, plus   *)
(* the rest at the closing mid, less the whole order at the arrival mid    *)
(* (analysis.py:254-309).                                                  *)
LayersSumToShortfall ==
    outcome = "priced" =>
        SpreadLayer + TimingLayer + OpportunityLayer =
            Sign(side) * (Paid2
                            + (Target - Filled) * Mid2(Len(views))
                            - Target * Mid2(ViewAt(Start)))
=============================================================================
