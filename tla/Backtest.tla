------------------------------ MODULE Backtest ------------------------------
(***************************************************************************)
(* l2tca.research.backtest.run_windows in one piece: the pass that         *)
(* collects the windows (Windows) and one of them worked and priced in     *)
(* detail (TwapWindow).                                                    *)
(*                                                                         *)
(* Any window may be the one followed.  The windows before it were handed  *)
(* over and priced; run_window sees the views of its own window and        *)
(* nothing else, so from there on the stream is forgotten, and with it the *)
(* windows behind.                                                         *)
(***************************************************************************)
EXTENDS Windows, TwapWindow

(* Both count time in slices, so that a window lasts as long as its        *)
(* schedule.                                                               *)
ASSUME BacktestAssumption == Duration = Slices

vars == <<streamVars, orderVars>>

Init == StreamInit /\ OrderInit

Passing(A) == A /\ outcome = "none" /\ UNCHANGED orderVars

(* Instants relative to the start of the window, which is the decision     *)
(* instant of its order; how long before it the carried view was received  *)
(* makes no difference to run_window.                                      *)
Since(i, start) == IF seen[i] < start THEN -1 ELSE seen[i] - start

(* The window the stream hands over next is the one followed; what the     *)
(* views show is any of the candidates.                                    *)
Follow ==
    /\ next \in 1 .. WindowCount
    /\ LET s == Starts[next]
           vs == Views(s)
       IN  /\ Len(vs) \in 1 .. MaxViews
           /\ \E shown \in [DOMAIN vs -> Candidates] :
                 Open([i \in DOMAIN vs |-> [at |-> Since(vs[i], s), book |-> shown[i]]])
    /\ seen' = << >> /\ handed' = << >>
    /\ buffers' = [s \in Opening |-> << >>]
    /\ carried' = [s \in Opening |-> 0]
    /\ next' = WindowCount + 1

Work == OrderNext /\ UNCHANGED streamVars

Next ==
    \/ \E t \in 0 .. Span : Passing(Take(t))
    \/ Passing(StreamEnds) \/ Passing(HandOver)
    \/ Follow
    \/ Work

Spec == Init /\ [][Next]_vars
=============================================================================
