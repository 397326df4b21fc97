---------------------------- MODULE MCOrderBook ----------------------------
EXTENDS OrderBook

(* Every frame of at most two entries, bids before asks, and the frames    *)
(* that touch one price twice and then fail, which the order of the        *)
(* rollback is about.                                                      *)
Ordered(f) == \A i, j \in DOMAIN f : i < j /\ f[i].side = "ask" => f[j].side = "ask"

MCFrames ==
    {<< >>}
    \cup {<<e>> : e \in Entry}
    \cup {f \in {<<d, e>> : d, e \in Entry} : Ordered(f)}
    \cup {<<d, [d EXCEPT !.qty = q], [side |-> "ask", price |-> 1, qty |-> -1]>> :
              d \in Entry, q \in Qty \cup {0}}
=============================================================================
