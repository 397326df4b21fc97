------------------------------ MODULE Windows ------------------------------
(***************************************************************************)
(* l2tca.research.backtest.run_windows: one streaming pass over the views  *)
(* of a capture collects, for evenly spaced windows, the views each needs, *)
(* and then hands the windows to run_window in order.  Module Backtest     *)
(* composes it with TwapWindow, which is what becomes of one of them.      *)
(*                                                                         *)
(* A view is known by its position in the stream; the capture starts at    *)
(* instant 0.                                                              *)
(***************************************************************************)
EXTENDS Integers, Sequences, FiniteSets, Functions

CONSTANTS
    WindowCount,  \* windows
    Duration,     \* duration_ns
    Span,         \* last_ns - first_ns
    MaxStream     \* bound on the views of the capture

(* The two ValueErrors, and instants so fine that no two windows start on  *)
(* the same one.                                                           *)
ASSUME WindowsAssumption ==
    /\ WindowCount \in Nat \ {0} /\ Duration \in Nat \ {0}
    /\ Span \in Nat /\ Span > Duration
    /\ Span - Duration >= WindowCount - 1
    /\ MaxStream \in Nat

Step == IF WindowCount > 1 THEN (Span - Duration) \div (WindowCount - 1) ELSE 0
Starts == [i \in 1 .. WindowCount |-> (i - 1) * Step]
Opening == Range(Starts)

VARIABLES
    seen,      \* recv_ns of the views reconstructed so far, last_view the last
    buffers,   \* start -> the views kept for it
    carried,   \* start -> the view before its first one; 0 is None
    next,      \* the window to be handed next; 0 while views still come
    handed     \* start -> the views run_window was given, of the windows it got

streamVars == <<seen, buffers, carried, next, handed>>

StreamInit ==
    /\ seen = << >>
    /\ buffers = [s \in Opening |-> << >>]
    /\ carried = [s \in Opening |-> 0]
    /\ next = 0
    /\ handed = << >>

(* bisect_left(starts, t - duration) and bisect_right(starts, t)           *)
OpenBefore(t) == {s \in Opening : s <= t /\ t < s + Duration}
OpenAt(t) == {s \in Opening : s <= t /\ t <= s + Duration}

LastView == Len(seen)

Take(t) ==
    /\ next = 0 /\ Len(seen) < MaxStream
    /\ \A i \in DOMAIN seen : seen[i] <= t
    /\ seen' = Append(seen, t)
    /\ buffers' = [s \in Opening |->
                      IF s \in OpenAt(t) THEN Append(buffers[s], Len(seen')) ELSE buffers[s]]
    /\ carried' = [s \in Opening |->
                      IF s \in OpenAt(t) /\ buffers[s] = << >> THEN LastView ELSE carried[s]]
    /\ UNCHANGED <<next, handed>>

(* The pass ends with the capture, or earlier when the derivation raises,  *)
(* which ends the generator and so this specification.                     *)
StreamEnds ==
    /\ next = 0
    /\ next' = 1
    /\ UNCHANGED <<seen, buffers, carried, handed>>

Views(s) == IF carried[s] # 0 THEN <<carried[s]>> \o buffers[s] ELSE buffers[s]

HandOver ==
    /\ next \in 1 .. WindowCount
    /\ LET s == Starts[next]
       IN  handed' = IF Views(s) = << >> THEN handed ELSE Append(handed, [start |-> s, views |-> Views(s)])
    /\ next' = next + 1
    /\ UNCHANGED <<seen, buffers, carried>>

StreamNext == (\E t \in 0 .. Span : Take(t)) \/ StreamEnds \/ HandOver

-----------------------------------------------------------------------------
Inside(s) == {i \in DOMAIN seen : s <= seen[i] /\ seen[i] <= s + Duration}
Before(s) == {i \in DOMAIN seen : seen[i] < s}

(* A window is priced against exactly the views received while it was open *)
(* and the one before them, in the order they were received, however the   *)
(* windows overlap and however views share an instant; it is passed over   *)
(* exactly when no view was received in it (backtest.py:159-181).          *)
SeesItsViews ==
    /\ \A e \in Range(handed) :
          Range(e.views) = Inside(e.start) \cup (IF Before(e.start) = {} THEN {} ELSE {Cardinality(Before(e.start))})
    /\ \A e \in Range(handed), i, j \in 1 .. MaxStream :
          {i, j} \subseteq DOMAIN e.views /\ i < j => e.views[i] < e.views[j]
    /\ {e.start : e \in Range(handed)} = {s \in {Starts[i] : i \in 1 .. next - 1} : Inside(s) # {}}
=============================================================================
