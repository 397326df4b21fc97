------------------------------- MODULE MCCosts -------------------------------
(* Instances of Costs: two tight books one tick apart, a wide one and one  *)
(* without asks; prints inside, at and through the touch.                  *)
EXTENDS Costs

SomeTouches == {<<2, 4>>, <<3, 5>>, <<1, 6>>, <<3, 0>>}
SomePrints == {<<3>>, <<4>>, <<4, 5>>}
=============================================================================
