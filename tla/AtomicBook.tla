----------------------------- MODULE AtomicBook -----------------------------
(***************************************************************************)
(* What an order book promises its owner: a snapshot or an update frame is *)
(* taken whole or not at all, and seq counts the frames that were taken.   *)
(* What a frame does to a book, and which frames are refused, are the pure *)
(* functions of BookOps, here parameters.                                  *)
(***************************************************************************)
EXTENDS Naturals

CONSTANTS
    Frames,            \* the frames the feed may hand over
    EmptyBook,         \* the book of a new OrderBook, and of a cleared one
    SnapshotFits(_),   \* is the frame acceptable as a snapshot,
    Loaded(_),         \* and the book it then makes
    UpdateFits(_, _),  \* is the frame acceptable as an update of a book,
    Applied(_, _)      \* and the book it then makes

VARIABLES book, seq

Init == book = EmptyBook /\ seq = 0

TakeSnapshot(f) == SnapshotFits(f) /\ book' = Loaded(f)

TakeUpdate(f) == UpdateFits(book, f) /\ book' = Applied(book, f)

Take ==
    /\ seq' = seq + 1
    /\ \E f \in Frames : TakeSnapshot(f) \/ TakeUpdate(f)

Drop == book' = EmptyBook /\ UNCHANGED seq

Next == Take \/ Drop

Spec == Init /\ [][Next]_<<book, seq>>
=============================================================================
