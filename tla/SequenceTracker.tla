-------------------------- MODULE SequenceTracker --------------------------
(***************************************************************************)
(* l2tca.book.sequence.SequenceTracker: it owns an OrderBook, feeds it     *)
(* frames, compares the result with the checksum each frame carries, and   *)
(* remembers whether the book may be believed.  OrderBook is used through  *)
(* what OrderBookProofs shows of it: a frame is taken whole or refused.    *)
(*                                                                         *)
(* A CRC32 is modelled as the top of book it is computed over: two tops    *)
(* have the same checksum only if they are equal.  A top in ZeroTops is    *)
(* one whose CRC32 happens to be 0.                                        *)
(***************************************************************************)
EXTENDS BookOps

CONSTANTS
    ChecksumLevels,   \* CHECKSUM_LEVELS: levels per side a checksum covers
    ZeroTops          \* the tops of book whose CRC32 is 0

ASSUME TrackerAssumption == ChecksumLevels \in Nat \ {0}

VARIABLES
    book,      \* self.book.bids and .asks
    seq,       \* self.book.seq
    state,     \* self.state
    buffer,    \* self.seq_buffer
    answer     \* what the last call returned, and the checksum it judged

trackerVars == <<book, seq, state, buffer, answer>>

State == {"disconnected", "live", "resyncing"}

NoSum  == [kind |-> "none"]    \* the frame carries no checksum
ZeroSum == [kind |-> "zero"]
BookChecksum(b) ==
    LET top == Window(b, ChecksumLevels)
    IN  IF top \in ZeroTops THEN ZeroSum ELSE [kind |-> "crc", top |-> top]

Says(what, sum) == [said |-> what, sum |-> sum]
Nothing == Says("nothing", NoSum)

TrackerInit ==
    /\ book = EmptyBook
    /\ seq = 0
    /\ state = "disconnected"
    /\ buffer = << >>
    /\ answer = Nothing

(* Mutant of OnSnapshot: a snapshot is not counted as a frame applied.     *)
OnSnapshotUncounted(levels) ==
    /\ SnapshotFits(levels)
    /\ book' = Loaded(levels)
    /\ state' = "live" /\ buffer' = << >> /\ answer' = Nothing
    /\ UNCHANGED seq

(***************************************************************************)
(* on_snapshot: authoritative in any state; a malformed one raises before  *)
(* anything is assigned.                                                   *)
(***************************************************************************)
OnSnapshot(levels) ==
    /\ SnapshotFits(levels)
    /\ book' = Loaded(levels)
    /\ seq' = seq + 1
    /\ state' = "live"
    /\ buffer' = << >>
    /\ answer' = Nothing

SnapshotRaises(levels) ==
    /\ ~SnapshotFits(levels)
    /\ answer' = Says("raised", NoSum)
    /\ UNCHANGED <<book, seq, state, buffer>>

(* Mutant of IgnoreUpdate: the frame is applied, and only the answer says  *)
(* that the book is not trusted.                                           *)
ApplyAnyway(u) ==
    /\ state # "live" /\ UpdateFits(book, u.levels)
    /\ book' = Applied(book, u.levels) /\ seq' = seq + 1
    /\ answer' = Says("false", u.sum)
    /\ UNCHANGED <<state, buffer>>

(***************************************************************************)
(* on_update, for an update u = [levels, sum].                             *)
(***************************************************************************)
IgnoreUpdate(u) ==
    /\ state # "live"
    /\ answer' = Says("false", u.sum)
    /\ UNCHANGED <<book, seq, state, buffer>>

(* The book refused the frame and rolled back: the ValueError goes to the  *)
(* caller and the state stays live.                                        *)
UpdateRaises(u) ==
    /\ state = "live"
    /\ ~UpdateFits(book, u.levels)
    /\ answer' = Says("raised", u.sum)
    /\ UNCHANGED <<book, seq, state, buffer>>

ApplyUpdate(u) ==
    /\ state = "live"
    /\ UpdateFits(book, u.levels)
    /\ book' = Applied(book, u.levels)
    /\ seq' = seq + 1
    /\ UNCHANGED buffer

(* `if not update.checksum` takes a checksum of 0 for a missing one.       *)
Unverifiable(u) == u.sum \in {NoSum, ZeroSum}

AcceptUnverified(u) ==
    /\ ApplyUpdate(u)
    /\ Unverifiable(u)
    /\ answer' = Says("true", u.sum)
    /\ UNCHANGED state

(* Mutants of Verify: a mismatch is reported and the tracker stays live;   *)
(* a mismatch is not reported.                                             *)
VerifyKeepsTrust(u) ==
    /\ ApplyUpdate(u) /\ ~Unverifiable(u)
    /\ answer' = Says(IF BookChecksum(book') = u.sum THEN "true" ELSE "false", u.sum)
    /\ UNCHANGED state

VerifyNothing(u) ==
    /\ ApplyUpdate(u) /\ ~Unverifiable(u)
    /\ answer' = Says("true", u.sum)
    /\ UNCHANGED state

Verify(u) ==
    /\ ApplyUpdate(u)
    /\ ~Unverifiable(u)
    /\ IF BookChecksum(book') = u.sum
         THEN state' = "live" /\ answer' = Says("true", u.sum)
         ELSE state' = "disconnected" /\ answer' = Says("false", u.sum)

OnUpdate(u) == IgnoreUpdate(u) \/ UpdateRaises(u) \/ AcceptUnverified(u) \/ Verify(u)

OnDisconnect ==
    /\ state' = "disconnected"
    /\ answer' = Nothing
    /\ UNCHANGED <<book, seq, buffer>>

NeedsResync == state = "disconnected"

Buffer(u) ==
    /\ state' = "resyncing"
    /\ buffer' = Append(buffer, u)
    /\ answer' = Nothing
    /\ UNCHANGED <<book, seq>>

Drain ==
    /\ buffer' = << >>
    /\ answer' = Nothing
    /\ UNCHANGED <<book, seq, state>>
=============================================================================
