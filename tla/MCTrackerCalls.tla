--------------------------- MODULE MCTrackerCalls ---------------------------
EXTENDS TrackerCalls

(* Opens both sides, moves the touch, deletes, crosses and is malformed.   *)
E(s, p, q) == [side |-> s, price |-> p, qty |-> q]

MCFrames == {
    <<E("bid", 1, 1), E("ask", 3, 1)>>,
    <<E("bid", 2, 1)>>,
    <<E("ask", 3, 0), E("ask", 2, 1)>>,
    <<E("bid", 3, 1), E("ask", 2, 1)>>,
    <<E("bid", 1, -1)>> }
=============================================================================
