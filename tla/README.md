# l2-orderbook-tca in TLA+

A verification project kept beside `l2tca`, the Kraken level-2 order book
recorder, replayer and transaction-cost analyser in `src/src/l2tca`. It models
the program's own core logic in TLA+, checks it with TLC on small instances and
proves with TLAPS, for every instance, that the order book takes a frame whole
or not at all, and every safety property of the tracker, the derivation and its
verifier, the feed client, the capture file, the recording session, the Parquet
writer, the backtest and the cost statistics. All paths below are relative to
`src/src/l2tca`.

## 1. The system

| component | state | operations | interacts with |
|---|---|---|---|
| `book/order_book.py` | two sorted sides, `seq` | `apply_snapshot`, `apply_update` (edit, trim, crossed check, undo log), `clear`, reads | owned by the tracker |
| `book/sequence.py` | `disconnected/live/resyncing`, a book, a buffer | `on_snapshot`, `on_update`, `on_disconnect`, `needs_resync`, `buffer`, `drain`; CRC32 | called by the derivation |
| `io/derive.py` | tracker, `ready` | `iter_book_views`: capture to views; `signal_rows` | replay, tracker, Parquet writer, backtest |
| `feed/client.py`, `backoff.py`, `transport.py` | socket, `_closed`, attempt, ladder, seq | `stream`, `_read_loop`, `_drop`, `aclose` | venue, handshake, recorder (frames and control events) |
| `feed/parser.py` | pure | `parse`: raw text to a message or a `ParseError` | handshake, everything that replays |
| `feed/subscription.py` | pending requests, collected frames | `handshake` | client, venue |
| `feed/recorder.py`, `records.py` | file handle, flush counter | `open`, `write_message`, `write_control`, `close` | pump task, operating system |
| `feed/replay.py` | position in the file | `iter_records`, `iter_raw_messages`, `ReplaySource` | everything offline |
| `cli/record.py` | main task, pump task, stop event | `_record` | client, recorder, signals |
| `cli/inspect.py` | expected seq, counters, the verifier's book | `run`, `_Verifier.feed` | replay |
| `io/writer.py` | buffers, part indexes, checked partitions | `write_row`, `flush`, `close`, `_check_existing` | `cli/convert.py`, `cli/signals.py`, file system |
| `tca/analysis.py` | pure | `simulate_child_orders`, `arrival_price`, `interval_vwap`, `attribute_slippage` | backtest |
| `research/backtest.py` | buffers of overlapping windows | `run_window`, `run_windows` | derivation, analysis |
| `research/execution.py`, `evaluate.py`, `signals/` | pure | `execution_costs`, `summarise_costs`, `forward_return_bps`, `bucket_summary`, spreads | Parquet tables |

Data flows one way: the client's stream is recorded to JSONL; a capture is
replayed through the tracker into views; views become Parquet rows, or feed the
TWAP backtest; Parquet rows feed the cost statistics. Python runs all of it in
one thread, so concurrency is confined to `asyncio` suspension points: the
client against the venue, the consumer and `aclose`, and the two tasks of
`l2tca record`. The rest of what is hard is sequential: partial failure in the
middle of a multi-step edit, frames lost from a capture, files that several
process lives wrote to, as-of lookups that must not look ahead.

What makes each component correct, in a sentence:

* **Order book**: a frame is applied whole or leaves no trace; between calls
  the book is never crossed and its window is the best `depth` levels.
* **Tracker and derivation**: a row that says `true` shows the venue's book; a
  book whose checksum failed is not touched before the next snapshot.
* **Feed client**: it retries exactly as often as configured, notices silence
  and refusal, holds no socket between connections, and ends when closed.
* **Parser**: every payload becomes a message or a `ParseError`, and the answer
  to a subscription is recognised whatever else it carries.
* **Capture**: what a kill costs is bounded, at the end of its own session, and
  control events are never part of it; the recorder outlives the pump.
* **Parquet writer**: rows are conserved over failing flushes, parts are
  bounded and never overwritten, schemas are not mixed.
* **Backtest**: fills follow the schedule, use only the past, and the
  attribution adds up.
* **Cost statistics**: a print meets the last book that had arrived, and a
  horizon that leaves the sample is a null.

## 2. Modules

| module | models | how |
|---|---|---|
| `BookOps` | the book as a value: `Merged`, `Loaded`, `Applied`, `Window`, `Best`, `Worst` | a book is a pair of functions from price ticks to quantities (0: not held) |
| `AtomicBook` | what the book promises: `Take` a frame whole, `Drop` | abstract specification |
| `OrderBook` | `apply_update` step by step: `BeginUpdate`, `TouchLevel`, `RejectLevel`, `TrimBid`, `TrimAsk`, `Accept`, `RejectCrossed`, `UndoLast`, `Reraise`; `ApplySnapshot`, `Clear` | one action per loop turn, because the hazards are between the turns; `pc` names the loop |
| `SequenceTracker` | the tracker's methods as actions over `state`, `book`, `seq`, `buffer` | `Says(...)` relates a call to its return value |
| `TrackerCalls` | a client that calls the tracker in any order (`CallsSpec`) | only the tracker's own conditions guard a call |
| `DerivePipeline` | `iter_book_views` over the capture of a venue that trades on and whose frames may be lost | extends the tracker; the venue's book is a state variable, so rows can be compared with the truth |
| `InspectVerify` | `_Verifier` of `l2tca inspect --verify` | extends the derivation: both take each frame of one capture, so that their verdicts can be compared |
| `Parser` | `parse` and its helpers as a function `Parse` | a payload is a record of what `parse` looks at (JSON or not, `channel`, `type`, the shapes of its entries, `method`, `req_id`, `success`, `error`); "raises" is an outcome beside the message kinds |
| `FeedClient` | `stream`, `handshake`, `_read_loop`, `_drop`, `aclose`, backoff | `phase` is the `await` or `yield` where the generator is suspended; every other party (venue, connection, consumer, `aclose`, a cancellation) moves in between; the handshake runs every payload the venue may send through `Parse` |
| `Capture` | `JsonlRecorder` and `iter_records`, plain and gzip | a line is three tokens, so a kill can cut before, in or right behind its text; `Spill` is the OS buffer; for gzip, `cut` is how much still decompresses once a member follows an unfinished one |
| `RecordSession` | `l2tca record`: main task, pump task, stop event, kill, and the gaps `inspect` counts | extends `Capture`; `stamped` is the client's frame counter, which a failed handshake moves without yielding |
| `ParquetWriter` | `PartitionedParquetWriter` and reruns of `l2tca convert` | the disk maps partition and index to a part file |
| `TwapWindow` | `simulate_child_orders`, `arrival_price`, `attribute_slippage` inside `run_window` | one action per slice; prices doubled so that a mid is a whole number |
| `Windows` | the streaming pass of `run_windows` | every ascending stream of instants; a view is its index |
| `Backtest` | `run_windows` as a whole | composes the two: the stream runs until one window, any of them, is followed into its order with the views it was handed |
| `Costs` | `signal_rows`, `trade_rows_from_frame`, `execution_costs`, `summarise_costs`, `forward_return_bps`, `bucket_summary` | basis points as exact numerators over the mid of their row, a null is the empty set |
| `BookOpsProofs`, `OrderBookProofs`, `DerivePipelineProofs` (with the tracker and the verifier), `FeedClientProofs`, `RecordSessionProofs` (with the capture file), `ParquetWriterProofs`, `BacktestProofs`, `CostsProofs` | lemmas and theorems | section 5 |

`MC...` modules hold the sets an instance uses. Definitions that follow a
comment "Mutant of X" are plausible mistakes in X; no specification uses them.
They show that the property named in `PROJECT.json` would notice.

Composition: `BookOps` <- `OrderBook`, `SequenceTracker`, `TwapWindow`;
`SequenceTracker` <- `TrackerCalls`, `DerivePipeline` <- `InspectVerify`;
`Parser` <- `FeedClient`; `Capture` <- `RecordSession`; `Windows` and
`TwapWindow` <- `Backtest`; `OrderBook` implements `AtomicBook` under the mapping that
shows the live book between calls and the book before the call during one.
`SequenceTracker` uses the book atomically, which is what that refinement
justifies.

## 3. What the runs show

| run | instance | result |
|---|---|---|
| `order_book` | 3 ticks, quantities 1 and 2, depth 1, every frame of at most two entries (repeated prices, deletions, negative quantities, crossing ones) | the inductive invariant; never crossed at rest; every frame taken whole (`AtomicBook`); trimming never changes the touch the crossed check looks at; between calls a book that is not empty moves only together with `seq` |
| `tracker_calls` | depth 2, 3 ticks, any order of calls | a book that is not trusted stays as it is; an answer `TRUE` never contradicts a checksum; a raise leaves the state honest |
| `derive` | 4 ticks, depth 2, five frames sent, each with one changed level at most, two lost or unchecked updates between snapshots, one top of book whose CRC32 is 0 | the book equals the venue's window as long as nothing was lost or left unapplied; a row saying `true` shows the venue's top; no `true` between a view that says `false` and the next snapshot, with views of unchecked frames in between too, and trust again from that snapshot on; `book_seq` orders rows; the verifier's book follows the venue with or without checksums, and a capture with a `false` row, all of whose frames since the last snapshot carried a checksum, is not called verified |
| `feed_client` | book and trade channel, two retries, up to two other payloads per handshake, out of every shape `Parser` tells apart | ladder and counter agree; gives up after exactly `max_reconnects`; no refused channel passes the handshake, and a refusal is never retried; no leaked socket; frames collected by a successful handshake are all yielded; `aclose` ends the stream; a silent peer is left, unless a frame of it comes first |
| `record_session` | three sessions, six records, flush every three, plain and gzip, up to one frame dropped by each failed handshake | as long as no session is appended to a killed gzip capture: control events survive every kill, a kill costs fewer than `flush_every` frames, as a tail, and a session that closed lost nothing. For every file: a header is lost only to the torn line of a killed session; the pump never meets a closed recorder; inside a session `inspect` counts a gap exactly where a handshake failed with frames in hand, and it counts one at the border of two sessions unless such a handshake hides it |
| `parquet_writer` | two partitions, two schemas, two rows per file, two conversions of three rows | rows are in the buffer, on disk or in the discarded buffers of a failed run, once; parts bounded; nothing overwritten; the conversion that first mixes schemas in a partition raises |
| `backtest` | three overlapping windows over streams of up to five views, equal instants included; an order of three slices of two lots over up to two views out of eighteen books with empty, thin and deep sides | each window gets the views in it and the last one before it; schedule and carry-over; fills are walks through the view that had arrived; unfilled only for lack of depth; layers sum to the shortfall |
| `costs` | five instants, four touches (one without asks), two trade frames of one or two prints, horizons 1 and 2 | prints meet the last two-sided book that had arrived; the shares name the touch; the horizon is inside the sample or null; the two as-of joins agree; quantiles are even |
| `derive_unchecked` | `derive` without checksums | **violated**: the book stays the opening snapshot |
| `parquet_writer_shapes` | `parquet_writer` | **violated**: a second schema is written into a partition on exit |
| `feed_client_payloads` | one retry, one other payload | **violated**: an exception of `parse` ends the stream |
| `record_session_gzip` | two gzip sessions, flush every two | **violated**: appending behind a killed gzip session costs frames that were flushed |

Bounds and why they are enough. *Order book*: the loops treat each level alike,
so two entries exhibit every pair of interactions (same price twice, one per
side, refusal after an edit) and depth 1 makes every addition trim; what is
beyond two entries is covered by the proofs. *Derivation*: depth 2 with four
ticks is the least in which a level can be pushed out of the window and come
back. Five frames are a snapshot, a loss, the view that says `false` because of
it, one without a checksum, and one more: the least in which trust could come
back unearned. A frame changes one level at most; what several in a frame can do
to each other is the subject of `order_book` and of the proofs. *Feed client*: two retries
distinguish "reset" from "not reset" and "one too many"; two other payloads come before, between and behind the answers,
and two entries in a payload are the least of which one can be sound and one
not. *Capture*: three sessions are the least in which a torn session has one
before and one behind it, flush every three leaves two frames at risk, and one
dropped frame is a gap.
*Writer*: two rows per file and three rows reach the cap, a remainder and a
failure in between. *Backtest*: three windows two of which overlap at any
instant; three slices have a first, a carrying and a last one; two views are
the least for a fill before and one after the book moved. *Costs*: five
instants hold a book before, at and behind both a print and its horizon.

Deadlock checking is off where the program may stop (end of a capture, the
stream ended, the last conversion); the cfg says which.

Fairness. Only `FeedClient` has liveness properties. It assumes, each as weak
fairness of one wake-up: a connect attempt ends (`open_timeout`), a handshake's budget and a
silent window expire (`asyncio.wait_for`), `recv` on a broken connection
raises, a sleep ends, and the consumer asks for the next frame. Nothing is
assumed of the venue: it may answer, late or never, fall silent and talk again,
refuse or vanish.

## 4. Disagreements with the documentation

With a run (`findings` in `PROJECT.json`):

* `io/derive.py:80` calls `on_update` only for frames with a checksum; others
  are not applied, although `sequence.py:179` says "Applied, but unverifiable".
* `io/writer.py:138` marks a partition as checked before the comparison that
  raises, so the flush `__exit__` makes writes the drifted file.
* `feed/parser.py:3` says "`parse` never raises"; `int()` of an infinite
  `req_id`, `checksum` or `connection_id` (`parser.py:148`) is an `OverflowError`, a
  list or object as `method` a `TypeError` (`parser.py:73`), and a timestamp
  that is a number a `TypeError` (`parser.py:44`). In a handshake
  such a payload ends the stream without a retry. In the read loop the frame is
  recorded unparsed, and every later replay of the capture ends there.
* `feed/replay.py:71` says a hard kill costs the last frame; a killed gzip
  capture ends in a member without a trailer, on which every reader ends with
  `EOFError` after the whole lines, and a session appended to it makes the
  reader fail in the middle of frames that were flushed (`recorder.py:79`).

Seen while modelling, kept in the models as the code has them, without a run:

* `research/execution.py:100` computes the horizon mid per book row before the
  as-of join: the wait is shorter than `horizon_ns` by the age of the row.
  `ImpactIsForwardReturn` states what the code does.
* `client.py:193`: a binary frame that is not UTF-8 raises `UnicodeDecodeError`
  out of `stream` (`Undecodable`); it is not a transient error either.
* `derive.py:54,158` promise one view per *applied* frame; a frame the tracker
  ignored yields one as well (hence `BookSeqOrdersRows` is weak order).
* `sequence.py:195` takes the CRC32 value 0 for a missing checksum; the
  exception is a disjunct of `TrueRowsAreTrue`.
* `needs_resync`, `buffer` and `drain` have no caller: after a mismatch all
  rows are `false` until a reconnect brings a snapshot.
* `subscription.py:106`: frames stamped in a handshake that then fails are
  dropped, and the recording has a hole in `seq` that `inspect` reports as a
  gap. `SeqGapsAreExplained` says where it shows: across the event of the failed
  handshake. It can also bring the count of a new session to just the value
  `inspect` expects, so that the border of two sessions is not reported.
* `recorder.py:83` appends behind a torn last line, which glues the header of
  the new session to it; `iter_records` skips both. When the torn line was the
  full text of a record without its newline, that record is lost too.
* `analysis.py:86` raises `IndexError`, not the promised `ValueError`, for a
  view with one empty side; `run_windows` does not catch it (`PriceFails`).
* `writer.py:95`: one partition that cannot be flushed stops those behind it,
  and `__exit__` tries each once more only up to the first that raises: the rows
  still buffered are lost with the process. `RowsConserved` counts them as in
  the discarded buffers.
* `writer.py:139`: a partition that holds two schemas is compared by its first
  part only, so a conversion with that part's schema adds to it silently;
  `MixingFails` is about the conversion that mixed it.
* `analysis.py:209`: slices that meet the same view walk it afresh and can take
  more from a level than it shows.
* `backtest.py:141` says views are held for open windows only; they are held
  until the capture ends.

## 5. What is proved

Eight modules hold theorems; each is for every value of the constants that
satisfies the named assumption of the module.

*Order book* (`BookOpsProofs`, `OrderBookProofs`; `BookAssumption`,
`FramesAssumption`): any `MaxTick`, `Depth`, set of positive quantities and set
of frames.

* `TypeCorrect`: `Spec => []TypeOK`; `IInvHolds`: `Spec => []IInv`.
* `NeverCrossed`: `Spec => []NeverCrossedAtRest`.
* `Transactional`: `Spec => TakesFramesWhole`, i.e. `OrderBook` implements
  `AtomicBook`.
* `TouchIsKept`, `SeqIsAnIdentity`: the action properties `TrimKeepsTouch` and
  `SeqNamesTheBook`.
* `TouchDecidesCrossed`: comparing the best prices decides whether *any* bid
  meets any ask; `TrimReachesWindow`: popping worst levels one by one ends in
  the best `Depth` levels.

The argument. `NeverCrossedAtRest` is not inductive: inside a call the book is
crossed at times. What holds throughout is about the book *before* the call,
which no variable stores: `Before` reads it off the live book and the undo log
(a touched price has the value of its **first** log entry). `IInv` says that
`Before` is uncrossed and (`Progress`) that the live book is `Before` merged
with the entries handled so far, or a partial trim of the whole merge, or on
its way back. Every step but `Accept` keeps `Before`
(`WriteKeepsBefore`, `UndoKeepsBefore`), so each is a stutter of `AtomicBook`;
`Accept` moves it to the window of the merge (`TrimReachesWindow`), which is
the abstract `TakeUpdate`; the last `UndoLast` ends with the live book equal to
`Before`, because undoing in reverse lets the first entry win. A frame of any
length, and prices touched any number of times, are covered, which TLC's two
entries are not. `TouchIsKept` rests on `TrimLeavesBest`: a level worse than
another of its side is not the best one.

*Tracker* (`DerivePipelineProofs`): `FrozenWhileDistrusted` and
`HonestAnswers`, from `TrackerInv`, for any order and number of calls.

*Derivation* (`DerivePipelineProofs`; `PipelineAssumption`, of which
`ChecksumLevels <= Depth` is `config.py:25`): any venue, depth, number of frames
and pattern of loss.

* `TrueRowsTellTheTruth`, `NoTruthWithoutTrust`, `SeqOrdersRows`, from `RowInv`.
  A row can be true only if the book's CRC32 equals that of *some* venue book
  whose window the frame's `truth` is, which is why the invariant carries a fact
  about the frame on the wire (`UpdateTells`); `TopOfWindow` says that the top
  levels under the checksum are the same in a book and in its window of `Depth`.
  The theorem needs nothing of what was lost before: any history ends in the
  comparison. `NoTruthWithoutTrust` is about all views since the last snapshot:
  its part of the invariant, `Distrust`, says that a view has said `false` since
  then iff the tracker is not trusted, which a view without a verdict leaves
  alone and a snapshot ends.
* `ReplayFollowsVenue`, from `FollowInv`: while nothing was lost or left
  unapplied, the replayed book is the venue's window. The invariant says that a
  frame on the wire is the last one sent and takes the window before it to the
  window after it (`WireTellsVenue`). The step that needs an argument is that
  announcing only the levels that changed *inside* the window suffices although
  levels are pushed out of it and come back: `DeltaCarriesOver`, over
  `WindowByRank` (a level is in the window iff fewer than `Depth` are better)
  and `WindowIsTrimmed`.
* `VerifierKeepsUp` and `FalseRowsReachTheReport`, from `VerifierInv`, which
  relates the verifier's book to the replay's for as long as both can judge a
  frame, and keeps the memory of a disagreement afterwards. The second is about
  stretches in which every frame since the last snapshot carried a checksum: past
  a frame that carried none the derivation has a book of its own and may say
  `false` where the verifier agrees.

What is proved of the derivation alone holds of `Spec` and of `InspectSpec`,
which has the verifier beside it, but for the two action properties.

*Feed client* (`FeedClientProofs`; `ParserAssumption`, `ClientAssumption`): any
set of channels with `book` in it, any `max_reconnects`, any number of other
payloads. `LadderInStep`, `GivesUpOnTime`, `SubscribedBeforeReading`,
`RefusedIsFailed`, `SocketsAreDropped`, from `FeedInv`; `FramesAreYielded`, that
only a consumer that leaves or is cancelled loses a frame of a handshake that succeeded, from
`HoldsWhileOpening`. Its parts: `Counting`
(the ladder, the counter and the history of fruitless attempts, which differ
exactly by what a healthy connection is about to reset), `Sockets`, and
`Answering` (in the handshake, what the venue has not answered is covered by
what is pending, but for a book that already flows). The last needs three
lemmas about `Parse`: an answer is an ack with its channel and verdict, the
opening is a snapshot, and nothing else the venue says is an ack of a channel
(`AnswersAreAcks`, `OpeningIsSnapshot`, `ChatterAnswersNothing`).

*Capture and recording session* (`RecordSessionProofs`; `CaptureAssumption`,
`SessionAssumption`): any `flush_every`, any number of records and sessions,
kills at any moment, plain and gzip. `EventsSurvive` and `KillsCostATail` are
about a file that is not spoiled, that is, not cut short by a gzip member
appended behind an unfinished one; `SpoiledOnlyByAppending` says that only a
gzip file in which a killed session with bytes stands before another can be. All
three follow from `CaptureInv`, which speaks of `Written`, the file with the
buffers behind it. `Placed(t, k, n)` says that the first `k` tokens of `t`
hold the whole line of record `n` behind a line that is complete; it survives
whatever is appended (`PlacedStays`), and a kill takes it only from what was in
the buffers. The parts: before any token of a record stand the lines of all
earlier frames of its session (`InOrder`, which makes the loss a tail); the
lines of the open session are whole (`LiveIsWhole`, so its newline shields it
from a torn line before it); what is exposed to a kill was written since the
last flush (`ExposureIsBounded`, a cardinality); a closed session and a control
event are in the file (`ClosedIsSafe`, `ControlIsSafe`); and a gzip file is
spoiled only by a killed session with bytes in it (`SpoiledIsTorn`).
`AppendsKeep`, `MovesKeep` and `KillKeeps` show it for the three things that can
happen to the tokens: a record is added, bytes move to the file, buffers are
lost. `PumpKeepsItsFile`, from `SessionInv`: the pump's life is inside the main
task's, and that inside the recorder's.

`GapsAreExplained`: inside a session `inspect` counts a gap exactly where a
handshake failed with frames in hand. Sessions stand one behind the other
(`SessionsKeepRising`), and a record that is decoded brings the earlier frames of
its session with it (`DecodedWithEarlier`): the last lines of a session may be
lost, a line in its middle cannot, also not in what is left of a spoiled gzip
file. `StampInv` follows the client's count along the records: it starts at 0
with a header, moves by one with a message, and otherwise only at an event. So
between two decoded messages that stand one behind the other the seq that is
expected differs from the one found iff some event between them moved the count.

`HeadersAreLostToKills`: the session that appended to a torn line loses its
header, and no other does. `SeamInv` says of the tokens of `Written` that each
is followed by the next of its line unless its session was killed there
(`GoesOn`), that records stand in the order they were written, and that the
header of a session stands whole before its other records (`HeaderBefore`).
What is not decoded is then the text behind a line that was broken off, and the
session of that line was killed.

*Parquet writer* (`ParquetWriterProofs`; `WriterAssumption`): any partitions,
schemas, cap and number of conversions. `PartsStayBounded`, `FilesAreForever`,
`MixingIsLoud`, from `WriterInv`. `FreeIndexIsFree`: among one more number than
there are part files one names no file (a counting argument), and it is the
one the search from the index stops at. `MixingIsLoud` needs that a partition in
`_checked` holds this writer's schema only, as long as the conversion has not
failed (`CheckedIsMine`), although only one file is looked at, once. It is about
the step that first mixes a partition; a mixed one can be added to silently.
`RowsAreConserved`, from `RowsInv`: the parts a conversion wrote into a partition,
in the order of their indexes, and the buffer behind them are the rows it took,
each once and in order (`InPlace`), through flushes that fail, are tried again
on exit, or never happen because the process was killed. A row taken goes behind
all others (`StackedTakes`), a flush moves the buffer whole to an index above
those used (`StackedFlushes`), and a failed one moves nothing.

*Backtest* (`BacktestProofs`; `WindowsAssumption`, `TwapAssumption`,
`BacktestAssumption`): any number of windows and length of stream, any schedule,
side and books. `BacktestInv` is `StreamInv`, for the pass, and `OrderInv`, for
the window followed.

* `WindowsSeeTheirViews`: a window is handed exactly the views received while it
  was open and the last one before it. `BuffersHold` (the buffer of a start is
  the views inside its window) and `CarriesTheOneBefore` speak of *every* window,
  open or not, so that a view belonging to several is accounted for in each, and
  views of one instant are kept apart by their order.
* `ScheduleKept`, `FillsWalkTheirView`, `UnfilledForDepth`: sent is filled plus
  carried; a fill is of the last view received by the time its child was sent
  and takes from a level only when every better one was emptied; `WalkTakes` and
  `WalkStops` say what one walk through a book fills and leaves.
* `LayersSum`: spread, timing and opportunity cost sum to the implementation
  shortfall. The layers are sums over fills with different weights, so the
  identity is that of sums: `SumSplits`, `SumFactors`, `SumRenamed` take apart the
  fold they are defined by.

*Costs* (`CostsProofs`; `CostsAssumption`): any touches, a crossed or one-sided
one included, prints, arrival times, horizons and bucket counts. `CostsInv`:
stamps rise along every table (`StampsRise`), the rows of the signal table are
the two-sided views one for one (`RowsAreViews`), and the costs are the join of
the finished tables.

* `MeasuredAgainstSeen`: every live print with a usable view is measured, against
  the last one that had arrived (`JoinFindsStanding`).
* `SharesTell`: the three shares of the summary name the side of the touch a
  print was made on.
* `HorizonsReachTheirEnd`, `ImpactsAgree`: a realized spread is reported iff the
  sample reaches the end of its horizon, counted from the book row; joining a
  table shifted back by the horizon finds the row standing at its end
  (`ShiftedJoin`, `FutureMid`), and the functions of `execution.py` and
  `evaluate.py` null the same rows (`SameRule`).
* `BucketsStayEven`: rank times buckets over rows, rounded up, puts the same
  number of ranks into every bucket up to one (`QuotientBounds`, `BucketSize`),
  and the clip to `1..buckets` never acts.

Sequences, folds and induction. The provers cannot apply the induction theorems
of the library to an operator, nor expand `SelectSeq` or a sort. Two things go
round that. What filtering or sorting builds is described by the *set* of its
elements and their order (`Messages`, `Live`, `Stacked`, `BestFirstLists`), which
is also how the modules define it where the code's list is only read that way.
And an induction is made over a set instead of an operator: the set of the
subsets for which a sum is defined, or equal to another, contains the empty set
and grows by an element, hence contains every finite set (`SubsetInduction`).

Only model-checked, and why: the two liveness properties of `FeedClient`,
`CloseEndsTheStream` and `SilenceIsNoticed`; what happens under fairness is out
of the prover's reach. Every other property of a passing run is stated by a
theorem. The four runs that expect a violation show a counterexample, which
needs none.

## 6. Not modelled, and simplifications

* JSON text and numbers: `Parser` is over the shape of a payload. A NaN
  quantity, which Python's JSON admits and `_levels` lets through, raises
  `decimal.InvalidOperation` in `apply_update`, which skips the rollback
  (`order_book.py:127,154`); quantities are finite in the models.
* Digits of the checksum text: a CRC32 is the top of book it covers, so two
  books collide only when their tops agree.
* Times are abstract: a timeout may fire whenever it is armed; backoff is its
  rung, not its seconds; `_drop`'s await is one step; connects fail with
  transient errors only; `max_reconnects` is a number (`None` never gives up).
* The depth a capture is replayed at is the depth it was recorded at; a
  `--depth` that differs lets the book keep levels the venue no longer
  announces, or drop ones it does.
* `RecordSession` takes any stream of frames and events; that a failed
  handshake drops frames is a number at an event, not tied to the steps of
  `FeedClient`. `ReplaySource` only paces what `iter_records` yields.
* The venue sends no snapshot that `apply_snapshot` refuses (a crossed one, a
  quantity that is not positive); one in a capture would end the replay with a `ValueError`
  (`derive.py:74`, `cli/inspect.py:37`). Its snapshots hold `depth` levels, so an
  untrimmed deeper one does not occur.
* A frame the peer sent before the connection was lost or closed may still be
  read, any number of them: what `recv` hands out then is the library's choice.
* `FlushAll` is `flush()`, a public method that only `close` calls in the
  program; the model lets a caller flush at any time.
* `target_qty / slices` (`analysis.py:191`) is exact in `TwapWindow`, where the
  target is a multiple of the slice. Decimal rounds it to 28 digits: 1 in three
  slices leaves 1e-28 unfilled at any depth, and a quotient rounded up makes
  the `min` of line 203 act. `KeepsSchedule` and `UnfilledOnlyForDepth` hold of
  the code up to that remainder.
* `Windows` takes windows that start at distinct instants; `Costs` takes one
  capture (`recv_ns` of two processes under one Parquet root are two clocks,
  which `read_table` mixes) and prints of quantity one.
* `interval_vwap` by the views it reads; means, medians, Spearman correlation,
  imbalance and micro-price are closed formulas over floats.
* The tick table's columns; the hour of a partition, which goes through a
  double (`schema.py:197`).
* Parquet reader, schemas, synthetic captures, benchmarks, plots, logging and
  argument parsing: declarations, queries of an external engine, or output.

## 7. Plan

Done: the book and its proof; tracker, derivation and verifier; parser and
client; plain and gzip capture and the recording session; writer; windows and
TWAP in one backtest; costs; the proofs of section 5, which cover every safety
and action property the passing runs check. What is left, in order:

1. `TickTable`: rows of the tick table replayed in `seq` order against the
   book, as `io/schema.py` promises; NaN quantities through `apply_update`; a
   replay depth that differs from the recorded one.
2. Several captures under one Parquet root, in `Costs`.
3. What `RecordSession` needs of the client's stream as an abstract message
   source, and `FeedClient` and a paced `ReplaySource` shown to implement it.
4. `bench/harness.py` as a state machine over stages that fail.
