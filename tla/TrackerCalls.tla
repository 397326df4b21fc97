---------------------------- MODULE TrackerCalls ----------------------------
(***************************************************************************)
(* A SequenceTracker in the hands of an arbitrary owner: every method may  *)
(* be called in every state, with any frame.                               *)
(***************************************************************************)
EXTENDS SequenceTracker

CONSTANTS
    Frames,       \* level sequences a frame may carry
    MaxSeq,       \* bound on the frames applied
    MaxBuffer     \* bound on the updates buffered; the code has none

VARIABLE frozen   \* history: the book at the moment trust was lost

callsVars == <<trackerVars, frozen>>

Updates == [levels : Frames, sum : {NoSum, ZeroSum, BookChecksum(EmptyBook)}
                                    \cup {BookChecksum(Loaded(f)) : f \in Frames}]

Trusted == state = "live"
Freeze == frozen' = IF state' = "live" \/ Trusted THEN book' ELSE frozen

CallsInit == TrackerInit /\ frozen = EmptyBook

CallOnSnapshot ==
    /\ seq < MaxSeq
    /\ \E f \in Frames : OnSnapshot(f) \/ SnapshotRaises(f)
    /\ Freeze

CallOnUpdate ==
    /\ seq < MaxSeq
    /\ \E u \in Updates : OnUpdate(u)
    /\ Freeze

CallOnDisconnect == OnDisconnect /\ Freeze

CallBuffer ==
    /\ Len(buffer) < MaxBuffer
    /\ \E u \in Updates : Buffer(u)
    /\ Freeze

CallDrain == Drain /\ Freeze

CallsNext == CallOnSnapshot \/ CallOnUpdate \/ CallOnDisconnect \/ CallBuffer \/ CallDrain

CallsSpec == CallsInit /\ [][CallsNext]_callsVars

-----------------------------------------------------------------------------
(* Once a mismatch, a drop or a buffered frame took the trust away, no     *)
(* call but a snapshot changes the book: what it holds is what it held     *)
(* when trust was lost (sequence.py:186-187).                              *)
DistrustedBookIsFrozen == state # "live" => book = frozen

(* A true answer to a checksum that was compared means the book agrees     *)
(* with it, and a false one on a live tracker costs it the trust           *)
(* (sequence.py:199-212).                                                  *)
AnswersAreHonest ==
    answer.sum.kind = "crc" =>
        /\ answer.said = "true" => BookChecksum(book) = answer.sum /\ state = "live"
        /\ answer.said = "false" => state # "live"
        /\ answer.said = "raised" => state = "live"
=============================================================================
