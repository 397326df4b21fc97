--------------------------- MODULE DerivePipeline ---------------------------
(***************************************************************************)
(* l2tca.io.derive.iter_book_views replaying a capture of a venue's        *)
(* depth-limited book channel into a SequenceTracker and emitting one row  *)
(* per view.  The venue is external: it announces the levels that changed  *)
(* inside its window of Depth levels, a deleted level as quantity 0, and   *)
(* says nothing of a level pushed out of the window.  A frame may be       *)
(* missing from what the replay sees (an undecodable line, a payload the   *)
(* parser refuses), and after a reconnect the venue sends a new snapshot.  *)
(***************************************************************************)
EXTENDS SequenceTracker, SequencesExt

CONSTANTS
    Carries,     \* whether update frames carry a checksum: a set of BOOLEANs
    MaxSent,     \* bound on the frames the venue sends
    MaxChanged,  \* bound on the levels of the venue's book a frame changes
    MaxGap       \* bound on the frames lost and those without a checksum
                 \* between two snapshots

(* Every depth the channel offers covers the checksum (config.py:25).      *)
ASSUME PipelineAssumption ==
    /\ ChecksumLevels <= Depth
    /\ Carries \subseteq BOOLEAN
    /\ MaxSent \in Nat /\ MaxChanged \in Nat /\ MaxGap \in Nat

VARIABLES
    venue,     \* the venue's own book, of any depth
    sent,      \* how many frames the venue has sent
    wire,      \* frames captured and not yet replayed, at most one
    ready,     \* iter_book_views' flag: a snapshot was seen
    row,       \* the last view yielded; truth is the venue's window then
    raised,    \* a ValueError ended the replay
    gap,       \* history: the frames lost since the last snapshot,
    bare,      \* those replayed that carried no checksum,
    denied     \* and whether a view has said false

vars == <<trackerVars, venue, sent, wire, ready, row, raised, gap, bare, denied>>

Uncrossed == {b \in Book : ~Crossed(b)}

(* Every level of a book as an entry of a frame, and every price it does   *)
(* not hold as one of quantity 0.                                          *)
Entries(b) == {[side |-> s, price |-> p, qty |-> b[s][p]] : s \in Side, p \in Price}

(* A frame names no price twice, so the order of its levels is any.        *)
SnapshotOf(b) == SetToSeq({e \in Entries(Window(b, Depth)) : e.qty # 0})

(* What the venue announces when its book turns from old to new.           *)
DeltaOf(old, new) ==
    LET was == Window(old, Depth)
        is  == Window(new, Depth)
        Announced(e) ==
            /\ was[e.side][e.price] # e.qty
            /\ e.qty = 0 => new[e.side][e.price] = 0
    IN  SetToSeq({e \in Entries(is) : Announced(e)})

NoRow == [seq |-> 0, ok |-> "none", truth |-> EmptyBook]

Init ==
    /\ TrackerInit
    /\ venue \in {b \in Uncrossed : \A s \in Side : Held(b[s]) # {}}
    /\ wire = << >> /\ sent = 0
    /\ ready = FALSE
    /\ row = NoRow
    /\ raised = FALSE
    /\ gap = 0 /\ bare = 0 /\ denied = FALSE

(***************************************************************************)
(* The venue and the capture.                                              *)
(***************************************************************************)
Send(frame) ==
    /\ wire = << >> /\ sent < MaxSent
    /\ wire' = <<frame>>
    /\ sent' = sent + 1
    /\ UNCHANGED <<trackerVars, ready, row, raised, gap, bare, denied>>

(* The book channel starts, or starts again after a reconnect.             *)
VenueSnapshot ==
    /\ Send([type |-> "snapshot", levels |-> SnapshotOf(venue), truth |-> Window(venue, Depth)])
    /\ UNCHANGED venue

(* A few levels of the venue's book change.                                *)
NextBooks ==
    {b \in Uncrossed : b # venue /\
        Cardinality({e \in Entries(b) : venue[e.side][e.price] # e.qty}) <= MaxChanged}

VenueUpdate ==
    /\ \E b \in NextBooks, carries \in Carries :
            /\ carries \/ gap + bare < MaxGap
            /\ Send([type |-> "update", levels |-> DeltaOf(venue, b), truth |-> Window(b, Depth),
                     sum |-> IF carries THEN BookChecksum(b) ELSE NoSum])
            /\ venue' = b

LoseFrame ==
    /\ wire # << >> /\ gap + bare < MaxGap
    /\ wire' = << >>
    /\ gap' = gap + 1
    /\ UNCHANGED <<trackerVars, venue, sent, ready, row, raised, bare, denied>>

(***************************************************************************)
(* iter_book_views, one frame per step.                                    *)
(***************************************************************************)
Head1 == wire[1]

Consume(type) ==
    /\ ~raised /\ wire # << >>
    /\ Head1.type = type
    /\ wire' = << >>
    /\ UNCHANGED <<venue, sent>>

Emit(ok) == row' = [seq |-> seq', ok |-> ok, truth |-> Head1.truth]

ReplaySnapshot ==
    /\ Consume("snapshot")
    /\ OnSnapshot(Head1.levels)
    /\ ready' = TRUE
    /\ Emit("none")
    /\ gap' = 0 /\ bare' = 0 /\ denied' = FALSE
    /\ UNCHANGED raised

SkipUntilReady ==
    /\ Consume("update")
    /\ ~ready
    /\ UNCHANGED <<trackerVars, ready, row, raised, gap, bare, denied>>

(* `if frame.checksum is not None else None`: a frame without a checksum   *)
(* never reaches the tracker, and a view is yielded all the same.          *)
ReplayUnchecked ==
    /\ Consume("update")
    /\ ready /\ Head1.sum = NoSum
    /\ UNCHANGED <<trackerVars, ready, raised, gap, denied>>
    /\ Emit("none")
    /\ bare' = bare + 1

ReplayChecked ==
    /\ Consume("update")
    /\ ready /\ Head1.sum # NoSum
    /\ OnUpdate(Head1)
    /\ raised' = (answer'.said = "raised")
    /\ IF raised' THEN UNCHANGED row ELSE Emit(answer'.said)
    /\ denied' = (denied \/ answer'.said = "false")
    /\ UNCHANGED <<ready, gap, bare>>

Replay == ReplaySnapshot \/ SkipUntilReady \/ ReplayUnchecked \/ ReplayChecked

Next == VenueSnapshot \/ VenueUpdate \/ LoseFrame \/ Replay

Spec == Init /\ [][Next]_vars

-----------------------------------------------------------------------------
(* Applying the announced changes and trimming keeps the book equal to the *)
(* venue's window, as long as every frame since the last snapshot arrived  *)
(* and carried a checksum: levels the venue pushed out are dropped, and    *)
(* those that come back in are announced again (order_book.py:136-145).    *)
(* The checksum then never fails and no frame is refused.                  *)
WindowFollowsVenue ==
    (ready /\ gap = 0 /\ bare = 0) =>
        /\ book = row.truth
        /\ state = "live" /\ ~raised /\ row.ok # "false"

(* A row with checksum_ok true shows the venue's top of book, whatever     *)
(* frames were lost or left out before it (types.py:63).  The one          *)
(* exception is a top whose CRC32 is 0, taken for a missing checksum       *)
(* (sequence.py:195).                                                      *)
TrueRowsAreTrue ==
    LET true == Window(row.truth, ChecksumLevels)
    IN  row.ok = "true" => Window(book, ChecksumLevels) = true \/ true \in ZeroTops

(* Once a view has said false, none is true before a snapshot has replaced *)
(* the book, also when views of frames without a checksum come between.    *)
(* Only a view that says false costs the book its trust, and a snapshot    *)
(* gives it back (sequence.py:163-212).                                    *)
FalseUntilSnapshot ==
    /\ denied => row.ok # "true"
    /\ ready /\ ~denied => state = "live"

(* book_seq never goes back, and a row that repeats it repeats the book.   *)
BookSeqOrdersRows ==
    [][row' # row => /\ row'.seq >= row.seq
                     /\ row'.seq = row.seq => book' = book]_vars

(* A frame without a checksum is "applied, but unverifiable"               *)
(* (sequence.py:179): the book follows the venue without checksums too.    *)
FollowsWithoutChecksum ==
    (ready /\ gap = 0) => book = row.truth
=============================================================================
