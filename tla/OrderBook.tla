----------------------------- MODULE OrderBook -----------------------------
(***************************************************************************)
(* l2tca.book.order_book.OrderBook, one action per step of its methods.    *)
(* apply_update is the interesting one: it edits the live dictionaries     *)
(* level by level, trims them, checks the result once, and when anything   *)
(* raised walks an undo log backwards.  The question is whether that is    *)
(* the same as taking the frame whole or not at all (AtomicBook).          *)
(***************************************************************************)
EXTENDS BookOps

CONSTANTS
    Frames,    \* the frames the feed may hand over: sequences of entries
    MaxSeq     \* bound on the counter seq

ASSUME FramesAssumption == Frames \subseteq Seq(Entry) /\ MaxSeq \in Nat

VARIABLES
    book,      \* self.bids and self.asks
    seq,       \* self.seq
    pc,        \* where the running method is; "idle" between two calls
    frame,     \* the frame apply_update was called with
    at,        \* the next entry of frame to apply
    undo       \* apply_update's undo log

vars == <<book, seq, pc, frame, at, undo>>

UndoEntry == [side : Side, price : Price, previous : Qty \cup {0}]

TypeOK ==
    /\ book \in Book
    /\ seq \in Nat
    /\ pc \in {"idle", "levels", "trim", "check", "undo"}
    /\ frame \in Seq(Entry)
    /\ at \in 1 .. Len(frame) + 1
    /\ undo \in Seq(UndoEntry)

Init ==
    /\ book = EmptyBook
    /\ seq = 0
    /\ pc = "idle" /\ frame = << >> /\ at = 1 /\ undo = << >>

(***************************************************************************)
(* apply_snapshot builds both sides aside and swaps them in only when they *)
(* are sound; a refused snapshot raises and leaves no trace, a stutter.    *)
(***************************************************************************)
ApplySnapshot ==
    /\ pc = "idle" /\ seq < MaxSeq
    /\ \E f \in Frames : SnapshotFits(f) /\ book' = Loaded(f)
    /\ seq' = seq + 1
    /\ UNCHANGED <<pc, frame, at, undo>>

Clear ==
    /\ pc = "idle"
    /\ book' = EmptyBook
    /\ UNCHANGED <<seq, pc, frame, at, undo>>

(***************************************************************************)
(* apply_update.                                                           *)
(***************************************************************************)
BeginUpdate ==
    /\ pc = "idle" /\ seq < MaxSeq
    /\ frame' \in Frames
    /\ at' = 1
    /\ undo' = << >>
    /\ pc' = "levels"
    /\ UNCHANGED <<book, seq>>

(* Set side s of price p to q, remembering what it held.                   *)
Write(s, p, q) ==
    /\ undo' = Append(undo, [side |-> s, price |-> p, previous |-> book[s][p]])
    /\ book' = [book EXCEPT ![s][p] = q]

TouchLevel ==
    /\ pc = "levels" /\ at <= Len(frame)
    /\ frame[at].qty >= 0
    /\ Write(frame[at].side, frame[at].price, frame[at].qty)
    /\ at' = at + 1
    /\ UNCHANGED <<seq, pc, frame>>

RejectLevel ==
    /\ pc = "levels" /\ at <= Len(frame)
    /\ frame[at].qty < 0
    /\ pc' = "undo"
    /\ UNCHANGED <<book, seq, frame, at, undo>>

LevelsDone ==
    /\ pc = "levels" /\ at > Len(frame)
    /\ pc' = "trim"
    /\ UNCHANGED <<book, seq, frame, at, undo>>

TooDeep(s) == Cardinality(Held(book[s])) > Depth

(* Mutants of TrimBid: the level popped is not logged; popitem takes the   *)
(* wrong end of the bids, which are sorted ascending like the asks.        *)
TrimBidUnlogged ==
    /\ pc = "trim" /\ TooDeep("bid")
    /\ book' = [book EXCEPT !["bid"][Worst(book, "bid")] = 0]
    /\ UNCHANGED <<seq, pc, frame, at, undo>>

TrimBestBid ==
    /\ pc = "trim" /\ TooDeep("bid")
    /\ Write("bid", Best(book, "bid"), 0)
    /\ UNCHANGED <<seq, pc, frame, at>>

TrimBid ==
    /\ pc = "trim" /\ TooDeep("bid")
    /\ Write("bid", Worst(book, "bid"), 0)
    /\ UNCHANGED <<seq, pc, frame, at>>

TrimAsk ==
    /\ pc = "trim" /\ ~TooDeep("bid") /\ TooDeep("ask")
    /\ Write("ask", Worst(book, "ask"), 0)
    /\ UNCHANGED <<seq, pc, frame, at>>

TrimDone ==
    /\ pc = "trim" /\ ~TooDeep("bid") /\ ~TooDeep("ask")
    /\ pc' = "check"
    /\ UNCHANGED <<book, seq, frame, at, undo>>

(* The call is over, and its locals with it.                               *)
Return == pc' = "idle" /\ frame' = << >> /\ at' = 1 /\ undo' = << >>

(* Mutants of Accept: no crossed check; seq is not advanced.               *)
AcceptUnchecked == pc = "check" /\ seq' = seq + 1 /\ Return /\ UNCHANGED book

AcceptWithoutSeq ==
    /\ pc = "check" /\ ~TouchCrossed(book)
    /\ Return
    /\ UNCHANGED <<book, seq>>

Accept ==
    /\ pc = "check" /\ ~TouchCrossed(book)
    /\ seq' = seq + 1
    /\ Return
    /\ UNCHANGED book

RejectCrossed ==
    /\ pc = "check" /\ TouchCrossed(book)
    /\ pc' = "undo"
    /\ UNCHANGED <<book, seq, frame, at, undo>>

(* Mutant of UndoLast: the log is walked forwards.                         *)
UndoFirst ==
    /\ pc = "undo" /\ undo # << >>
    /\ book' = [book EXCEPT ![undo[1].side][undo[1].price] = undo[1].previous]
    /\ undo' = Tail(undo)
    /\ UNCHANGED <<seq, pc, frame, at>>

(* One iteration of the loop over reversed(undo).                          *)
UndoLast ==
    /\ pc = "undo" /\ undo # << >>
    /\ LET e == undo[Len(undo)]
       IN  book' = [book EXCEPT ![e.side][e.price] = e.previous]
    /\ undo' = SubSeq(undo, 1, Len(undo) - 1)
    /\ UNCHANGED <<seq, pc, frame, at>>

Reraise ==
    /\ pc = "undo" /\ undo = << >>
    /\ Return
    /\ UNCHANGED <<book, seq>>

Next ==
    \/ ApplySnapshot \/ Clear \/ BeginUpdate
    \/ TouchLevel \/ RejectLevel \/ LevelsDone
    \/ TrimBid \/ TrimAsk \/ TrimDone
    \/ Accept \/ RejectCrossed
    \/ UndoLast \/ Reraise

Spec == Init /\ [][Next]_vars

-----------------------------------------------------------------------------
(* The book as it stood when the running call began, read off the undo     *)
(* log: the first entry for a price holds what the price had before it.    *)
Logged(s, p) == {i \in 1 .. Len(undo) : undo[i].side = s /\ undo[i].price = p}
FirstOf(S) == CHOOSE i \in S : \A j \in S : i <= j

Before ==
    [s \in Side |-> [p \in Price |->
        IF Logged(s, p) = {} THEN book[s][p] ELSE undo[FirstOf(Logged(s, p))].previous]]

(***************************************************************************)
(* The inductive invariant of OrderBookProofs.  While the entries are      *)
(* applied the book is the merge of those applied so far into what the     *)
(* book was before the call; while it is trimmed it is the whole merge     *)
(* less some levels, each worse than everything kept and dropped from a    *)
(* side still holding depth levels.                                        *)
(***************************************************************************)
Progress ==
    /\ pc = "idle" => undo = << >>
    /\ pc = "levels" =>
          /\ \A i \in 1 .. at - 1 : frame[i].qty >= 0
          /\ book = Merged(Before, frame, at - 1)
    /\ pc \in {"trim", "check"} =>
          /\ \A i \in 1 .. Len(frame) : frame[i].qty >= 0
          /\ TrimmedFrom(book, Merged(Before, frame, Len(frame)))
    /\ pc = "check" => \A s \in Side : ~TooDeep(s)

IInv ==
    /\ TypeOK
    /\ pc \in {"levels", "trim", "check"} => frame \in Frames
    /\ ~Crossed(Before)
    /\ Progress

Abstract == INSTANCE AtomicBook WITH book <- Before

(* A frame is taken whole or not at all: seen through the undo log, the    *)
(* level-by-level edits, the trim and the rollback of apply_update are one *)
(* atomic step of AtomicBook or no step (order_book.py:125-164).           *)
TakesFramesWhole == Abstract!Spec

(* Between calls the book is never crossed, whatever frames arrived, were  *)
(* applied or were rolled back (order_book.py:94-95 and 150-153).          *)
NeverCrossedAtRest == pc = "idle" => ~Crossed(book)

(* Once the whole frame is in, neither trimming nor the final check may    *)
(* move the best price of a side: "only ever the worst ones, so the touch  *)
(* -- and the crossed check below -- is unaffected" (order_book.py:136).   *)
TrimKeepsTouch ==
    [][pc = "trim" => \A s \in Side :
          Held(book[s]) # {} => /\ Held(book'[s]) # {}
                                /\ Best(book', s) = Best(book, s)]_vars

(* Two different books are never published under one seq: whenever the     *)
(* book at rest changed other than by clear, seq moved past every earlier  *)
(* value (types.py, BookView.seq: a replay-stable identity).               *)
SeqNamesTheBook ==
    [][/\ seq' >= seq
       /\ (pc' = "idle" /\ book' # Before /\ book' # EmptyBook) => seq' > seq]_vars

=============================================================================
