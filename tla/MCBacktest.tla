----------------------------- MODULE MCBacktest -----------------------------
EXTENDS Backtest

(* Two places for the spread, and on each side nothing, a thin touch with  *)
(* depth behind it, or a thin touch and nothing else: an order of two lots *)
(* a slice is then left unfilled also when every view has two sides.       *)
SpreadsAt == {[bid |-> 2, ask |-> 3], [bid |-> 3, ask |-> 4]}
Ladders  == {<<0, 0>>, <<1, 3>>, <<1, 0>>}

NextLevel(s, p) == IF s = "bid" THEN p - 1 ELSE p + 1
Ladder(s, touch, shape) ==
    [p \in Price |-> CASE p = touch -> shape[1]
                       [] p = NextLevel(s, touch) -> shape[2]
                       [] OTHER -> 0]

MCCandidates ==
    {[s \in Side |-> Ladder(s, at[s], sizes[s])] : at \in SpreadsAt, sizes \in [Side -> Ladders]}
=============================================================================
