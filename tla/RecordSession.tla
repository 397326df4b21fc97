--------------------------- MODULE RecordSession ---------------------------
(***************************************************************************)
(* l2tca record (l2tca.cli.record): a pump task writes what the client's   *)
(* stream yields into the recorder (module Capture), while the main task   *)
(* waits for the pump, a signal or the duration, closes the client,        *)
(* cancels the pump and closes the recorder; and l2tca inspect, which      *)
(* looks for gaps in the file.  The process may be killed, and a later     *)
(* session may record to the same path.                                    *)
(*                                                                         *)
(* The stream is any source of frames and control events: module           *)
(* FeedClient says which.  It numbers the frames it receives, and those of *)
(* a handshake that fails are numbered and never yielded.                  *)
(***************************************************************************)
EXTENDS Capture

CONSTANT MaxDropped     \* bound on the frames of one failed handshake

ASSUME SessionAssumption == MaxDropped \in Nat

VARIABLES
    main,   \* what _record awaits: "none" before and after it
    pump,   \* the pump task
    stop,   \* the event the signal handlers set
    stamped \* the client's self._seq behind each record, the last of them
            \* being its value now; the others are history

sessionVars == <<vars, main, pump, stop, stamped>>

SessionInit ==
    /\ Init
    /\ main = "none" /\ pump = "none" /\ stop = FALSE
    /\ stamped = << >>

(* A new client; with recorder: the pump task is created and the main task *)
(* waits.                                                                  *)
Start ==
    /\ main = "none"
    /\ Open
    /\ main' = "waiting" /\ pump' = "reading" /\ stop' = FALSE
    /\ stamped' = Append(stamped, 0)

(* One turn of the async for: the client has numbered a frame and yielded  *)
(* it, it is written, then the event decides whether the pump leaves the   *)
(* loop.                                                                   *)
PumpFrame ==
    /\ pump = "reading"
    /\ WriteMessage
    /\ pump' = IF stop THEN "leaving" ELSE "reading"
    /\ stamped' = Append(stamped, Last(stamped) + 1)
    /\ UNCHANGED <<main, stop>>

(* on_control, called by the client inside the pump task.  A "disconnected"*)
(* may end a handshake: the frames it had collected are numbered, and lost *)
(* with the exception that ended it.                                       *)
PumpEvent ==
    /\ pump = "reading"
    /\ WriteControl
    /\ \E lost \in 0 .. MaxDropped : stamped' = Append(stamped, Last(stamped) + lost)
    /\ UNCHANGED <<main, pump, stop>>

(* The stream ends, raises, or the cancellation arrives; aclosing closes   *)
(* the generator.                                                          *)
PumpEnds ==
    /\ pump \in {"reading", "leaving"}
    /\ pump' = "done"
    /\ UNCHANGED <<vars, main, stop, stamped>>

Signal ==
    /\ main # "none" /\ ~stop
    /\ stop' = TRUE
    /\ UNCHANGED <<vars, main, pump, stamped>>

(* asyncio.wait returns: the pump is done, the event is set, or the        *)
(* duration has passed, which may be at any time.                          *)
MainWakes ==
    /\ main = "waiting"
    /\ main' = "joining" /\ stop' = TRUE
    /\ UNCHANGED <<vars, pump, stamped>>

(* Mutant of MainJoins: the pump is cancelled but not awaited.             *)
MainLeaves ==
    /\ main = "joining"
    /\ Close
    /\ main' = "none"
    /\ UNCHANGED <<pump, stop, stamped>>

(* The pump is over, and leaving the block closes the recorder.            *)
MainJoins ==
    /\ main = "joining" /\ pump = "done"
    /\ Close
    /\ main' = "none" /\ pump' = "none"
    /\ UNCHANGED <<stop, stamped>>

Killed ==
    /\ Kill
    /\ main' = "none" /\ pump' = "none"
    /\ UNCHANGED <<stop, stamped>>

Spilled == Spill /\ UNCHANGED <<main, pump, stop, stamped>>

SessionNext ==
    \/ Start \/ PumpFrame \/ PumpEvent \/ PumpEnds \/ Signal
    \/ MainWakes \/ MainJoins \/ Killed \/ Spilled

SessionSpec == SessionInit /\ [][SessionNext]_sessionVars

-----------------------------------------------------------------------------
(* inspect: a message whose seq is not the one expected behind the last    *)
(* message that was decoded counts as a gap.                               *)
Messages == {n \in DOMAIN records : records[n].kind = "msg" /\ Decodes(n)}
Earlier(n) == {m \in Messages : m < n}
MessageSeq(n) == stamped[n] - 1

(* Mutant of Expected: the count goes on over a gap.                       *)
ExpectedOn(n) == MessageSeq(Min(Messages)) + Cardinality(Earlier(n))

Expected(n) == MessageSeq(Max(Earlier(n))) + 1
SeqGaps == {n \in Messages : Earlier(n) # {} /\ MessageSeq(n) # Expected(n)}

(* The events of failed handshakes that a reader of the file meets between *)
(* two of its messages, in the session of the second.                      *)
LosesFrames(m) == records[m].kind = "control" /\ stamped[m] > stamped[m - 1]
HolesBetween(p, n) ==
    {m \in Of(records[n].session) : p < m /\ m < n /\ LosesFrames(m) /\ Decodes(m)}

(* As long as the pump runs the file is open: nothing the stream yields,   *)
(* and no event of the client, meets a closed recorder, however the stop,  *)
(* the duration and the end of the stream interleave (record.py:68-83).    *)
PumpHasItsFile == pump # "none" => opened

(* What inspect calls a gap (inspect.py:87-89) is explained by the file.   *)
(* Inside a session it is a handshake that failed after it had received    *)
(* frames, whose event stands between the two messages: frames lost at the *)
(* end of a killed session, torn lines and lost headers never show as one. *)
(* Where a session begins inspect sees a gap too, unless such handshakes   *)
(* have brought the count of the new client to just the seq it expects.    *)
SeqGapsAreExplained ==
    \A n \in Messages :
        Earlier(n) # {} =>
            LET p     == Max(Earlier(n))
                Holes == HolesBetween(p, n) # {}
            IN  IF records[p].session = records[n].session
                  THEN n \in SeqGaps <=> Holes
                  ELSE n \in SeqGaps \/ Holes
=============================================================================
