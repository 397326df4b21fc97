------------------------------ MODULE BookOps ------------------------------
(***************************************************************************)
(* The values an L2 order book is made of and the pure functions that      *)
(* l2tca.book.order_book computes on them.  A price is a tick and one side *)
(* of the book a total function from ticks to quantities: 0 stands for     *)
(* "the SortedDict holds no such price", which is sound because no method  *)
(* ever stores a level of quantity 0.                                      *)
(***************************************************************************)
EXTENDS Integers, Sequences, FiniteSets

CONSTANTS
    MaxTick,   \* prices are the ticks 1 .. MaxTick
    Qty,       \* the quantities a level may rest at
    Depth      \* OrderBook.depth, the levels kept on each side

ASSUME BookAssumption ==
    /\ MaxTick \in Nat
    /\ Qty \subseteq Nat \ {0}
    /\ Depth \in Nat \ {0}

Price == 1 .. MaxTick
Side  == {"bid", "ask"}
Book  == [Side -> [Price -> Qty \cup {0}]]

EmptyBook == [s \in Side |-> [p \in Price |-> 0]]

(* One (price, qty) pair of a frame.  -1 is a negative quantity, which the *)
(* book refuses; a frame lists its bids, then its asks.                    *)
Entry == [side : Side, price : Price, qty : Qty \cup {0, -1}]

Held(levels) == {p \in Price : levels[p] # 0}

(* Price p is nearer the touch than q: high for a bid, low for an ask.     *)
Better(s, p, q) == IF s = "bid" THEN p > q ELSE p < q

Best(b, s)  == CHOOSE p \in Held(b[s]) : \A q \in Held(b[s]) \ {p} : Better(s, p, q)
Worst(b, s) == CHOOSE p \in Held(b[s]) : \A q \in Held(b[s]) \ {p} : Better(s, q, p)

(* A book is crossed when some bid is at or above some ask.                *)
Crossed(b) == \E p \in Held(b["bid"]), q \in Held(b["ask"]) : p >= q

(* The same question as the code asks it, of the two best prices only.     *)
TouchCrossed(b) ==
    /\ Held(b["bid"]) # {}
    /\ Held(b["ask"]) # {}
    /\ Best(b, "bid") >= Best(b, "ask")

(* The best n levels of each side: a level stays when fewer than n of the  *)
(* side's levels are better.                                               *)
Window(b, n) ==
    [s \in Side |-> [p \in Price |->
        IF Cardinality({q \in Held(b[s]) : Better(s, q, p)}) < n THEN b[s][p] ELSE 0]]

(* The book b with the first n entries of frame f applied: an entry        *)
(* replaces what its price held, and the last entry for a price wins.      *)
Touches(f, n, s, p) == {i \in 1 .. n : f[i].side = s /\ f[i].price = p}
LastOf(S) == CHOOSE i \in S : \A j \in S : j <= i

Merged(b, f, n) ==
    [s \in Side |-> [p \in Price |->
        IF Touches(f, n, s, p) = {} THEN b[s][p]
                                    ELSE f[LastOf(Touches(f, n, s, p))].qty]]

Loaded(f) == Merged(EmptyBook, f, Len(f))

(* The frames the book refuses: see apply_snapshot and apply_update.       *)
SnapshotFits(f) ==
    /\ \A i \in 1 .. Len(f) : f[i].qty > 0
    /\ ~Crossed(Loaded(f))

(* Mutant of Applied: the trim is forgotten.                               *)
AppliedUntrimmed(b, f) == Merged(b, f, Len(f))

Applied(b, f) == Window(Merged(b, f, Len(f)), Depth)

UpdateFits(b, f) ==
    /\ \A i \in 1 .. Len(f) : f[i].qty >= 0
    /\ ~Crossed(Applied(b, f))

(* b is the book full on its way to its window: some levels were dropped,  *)
(* each worse than every one kept, from a side that still holds Depth.     *)
TrimmedFrom(b, full) ==
    \A s \in Side : \A p \in Price :
        /\ b[s][p] \in {full[s][p], 0}
        /\ full[s][p] # 0 /\ b[s][p] = 0 =>
              /\ \A q \in Held(b[s]) : Better(s, q, p)
              /\ Cardinality(Held(b[s])) >= Depth
=============================================================================
