------------------------------ MODULE MCDerive ------------------------------
EXTENDS InspectVerify

(* A top of book with one level a side, for the run in which its CRC32 is  *)
(* taken to be 0.                                                          *)
OneZeroTop == {Window(Loaded(<<[side |-> "bid", price |-> 1, qty |-> 1],
                               [side |-> "ask", price |-> 3, qty |-> 1]>>), 1)}
=============================================================================
