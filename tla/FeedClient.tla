----------------------------- MODULE FeedClient -----------------------------
(***************************************************************************)
(* l2tca.feed.client.KrakenFeedClient.stream with the handshake of         *)
(* l2tca.feed.subscription: connect, subscribe and wait for every answer,  *)
(* read under a staleness watchdog, and reconnect along a backoff ladder.  *)
(* asyncio runs the stream, its consumer and aclose on one thread, so one  *)
(* action is what the stream does between two awaits (or yields).          *)
(*                                                                         *)
(* The network and the venue are external: a peer talks, falls silent      *)
(* (half-open TCP) or is gone, and answers each subscription once; what it *)
(* says counts as said when it is read.  During the handshake every        *)
(* payload goes through Parser.                                            *)
(***************************************************************************)
EXTENDS Naturals, FiniteSets, Parser

CONSTANTS
    MaxReconnects,   \* config.max_reconnects
    MaxChatter       \* bound on the frames one handshake collects

ASSUME ClientAssumption ==
    /\ "book" \in Channels
    /\ MaxReconnects \in Nat
    /\ MaxChatter \in Nat

VARIABLES
    phase,        \* where stream() is suspended
    closed,       \* self._closed
    socket,       \* self._conn is not None
    peer,         \* the far end of the connection
    pending,      \* handshake: channels not accounted for
    collected,    \* frames the handshake stamped, not yet yielded
    healthy,      \* this connection delivered a frame to the read loop
    pinged,       \* the watchdog has sent its ping
    attempt,      \* failed attempts since the last healthy connection
    rung,         \* delays taken from the present backoff ladder
    unanswered,   \* the venue: subscriptions it has not answered,
    refused,      \* those it refused,
    flowing,      \* and whether it sent the book snapshot
    fruitless     \* history: attempts failed since a frame was last read

clientVars == <<phase, closed, socket, pending, collected, healthy, pinged, attempt, rung>>
venueVars == <<peer, unanswered, refused, flowing>>
vars == <<clientVars, venueVars, fruitless>>

Stopped == {"stopped", "gave_up", "failed", "crashed", "garbled"}
Suspended == {"draining", "delivered"}      \* at a yield, the consumer's turn

Init ==
    /\ phase = "connecting"
    /\ closed = FALSE /\ socket = FALSE
    /\ peer = "gone"
    /\ pending = {} /\ collected = 0
    /\ healthy = FALSE /\ pinged = FALSE
    /\ attempt = 0 /\ rung = 0
    /\ unanswered = {} /\ refused = {} /\ flowing = FALSE
    /\ fruitless = 0

(* Mutant of Drop: the reference is kept and the socket not closed.        *)
DropNothing == pending' = {} /\ collected' = 0 /\ pinged' = FALSE /\ UNCHANGED socket

(***************************************************************************)
(* The end of one connection attempt: `finally: await self._drop()`, then  *)
(* the loop's bookkeeping down to the next await.                          *)
(***************************************************************************)
Drop == socket' = FALSE /\ pending' = {} /\ collected' = 0 /\ pinged' = FALSE

StopHere(where) ==
    /\ phase' = where
    /\ UNCHANGED <<attempt, rung, healthy, fruitless>>

(* Mutants of Failures and Rungs: a healthy connection does not reset the  *)
(* counter; it does not renew the ladder.                                  *)
FailuresEver == attempt + 1
RungsEver    == rung

(* attempt = 0 and a new ladder when the connection was healthy, then      *)
(* attempt += 1, the limit, and next(delays).                              *)
Failures == IF healthy THEN 1 ELSE attempt + 1
Rungs    == IF healthy THEN 0 ELSE rung

Retry ==
    /\ attempt' = Failures
    /\ fruitless' = fruitless + 1
    /\ IF Failures > MaxReconnects
         THEN phase' = "gave_up" /\ rung' = Rungs
         ELSE phase' = "backoff" /\ rung' = Rungs + 1
    /\ UNCHANGED healthy

Ended ==
    /\ Drop
    /\ IF closed THEN StopHere("stopped") ELSE Retry
    /\ UNCHANGED <<closed, venueVars>>

(***************************************************************************)
(* Connecting and subscribing.                                             *)
(***************************************************************************)
ConnectFails ==
    /\ phase = "connecting"
    /\ Ended

(* The connection is up and every subscribe request sent; aclose may have  *)
(* been called while the connect was awaited, and is not looked at.        *)
ConnectOpens ==
    /\ phase = "connecting"
    /\ phase' = "handshake"
    /\ socket' = TRUE
    /\ pending' = Channels
    /\ collected' = 0
    /\ peer' \in {"talking", "silent"}
    /\ unanswered' = Channels /\ refused' = {} /\ flowing' = FALSE
    /\ UNCHANGED <<closed, healthy, pinged, attempt, rung, fruitless>>

(* A frame is read: it shows a silent peer alive, perhaps thanks to the    *)
(* ping.  One that was queued may be read after the connection was lost    *)
(* or closed, before recv raises.                                          *)
Hears == peer' = IF peer = "silent" THEN "talking" ELSE peer

(***************************************************************************)
(* What the venue may put on the wire: the answer to a request, once; the  *)
(* book snapshot, once; and any other payload, sensible or not, that is    *)
(* none of these.  It refuses a channel, never a book that already flows.  *)
(***************************************************************************)
Answer(c, accepted) ==
    [Blank EXCEPT !.method = "subscribe", !.req_id = c, !.success = accepted, !.error = ~accepted]
Opening == [Blank EXCEPT !.channel = "book", !.type = "snapshot", !.data = <<"sound">>]

Garbage == {[Blank EXCEPT !.json = form] : form \in {"broken", "no_object"}}
Traffic ==
    [json : {"object"}, channel : {"book", "trade", "heartbeat", "status"},
     type : {"update", "other"}, data : BoundedSeq(EntryShape, 2),
     method : {"other"}, req_id : {"absent"}, success : {FALSE}, error : {FALSE}]
BadSnapshots == {[Opening EXCEPT !.data = d] : d \in BoundedSeq(EntryShape \ {"sound"}, 1)}
Replies ==
    [json : {"object"}, channel : {"other"}, type : {"other"}, data : {<< >>},
     method : {"pong", "unsubscribe", "unhashable", "other"}, req_id : NoAnswer,
     success : {FALSE}, error : BOOLEAN]

Chatter == Garbage \cup Traffic \cup BadSnapshots \cup Replies

Said == Chatter \cup {Opening} \cup {Answer(c, a) : c \in Channels, a \in BOOLEAN}

Refusable == unanswered \ (IF flowing THEN {"book"} ELSE {})

Says(p) ==
    \/ /\ \E c \in unanswered : p = Answer(c, TRUE) /\ unanswered' = unanswered \ {c}
       /\ UNCHANGED <<refused, flowing>>
    \/ /\ \E c \in Refusable :
             /\ p = Answer(c, FALSE)
             /\ unanswered' = unanswered \ {c} /\ refused' = refused \cup {c}
       /\ UNCHANGED flowing
    \/ p = Opening /\ ~flowing /\ flowing' = TRUE /\ UNCHANGED <<unanswered, refused>>
    \/ p \in Chatter /\ collected < MaxChatter /\ UNCHANGED <<unanswered, refused, flowing>>

(***************************************************************************)
(* The handshake's treatment of one payload.                               *)
(***************************************************************************)
Acks(p) == Parse(p).kind = "ack" /\ Parse(p).req_id \in pending

(* A frame is stamped; left is what remains pending.                       *)
Collect(left) ==
    /\ collected' = collected + 1
    /\ pending' = left
    /\ phase' = IF left = {} THEN "draining" ELSE "handshake"
    /\ Hears
    /\ UNCHANGED <<closed, socket, healthy, pinged, attempt, rung, fruitless>>

(* The frame ends the stream: not a transient error, never retried.        *)
EndsIn(where) == Hears /\ Drop /\ StopHere(where) /\ UNCHANGED closed

HandshakeAck(p) == Acks(p) /\ Parse(p).success /\ Collect(pending \ {Parse(p).req_id})

(* SubscriptionError, surfaced to the consumer.                            *)
HandshakeRefused(p) == Acks(p) /\ ~Parse(p).success /\ EndsIn("failed")

(* Mutant of HandshakeSnapshot: data means that every channel is up.       *)
SnapshotAnswersAll(p) == Parse(p).kind = "book_snapshot" /\ Collect({})

(* A snapshot accounts for the book subscription before its ack.           *)
HandshakeSnapshot(p) == Parse(p).kind = "book_snapshot" /\ Collect(pending \ {"book"})

HandshakeOther(p) ==
    /\ Parse(p).kind \notin {"raises", "book_snapshot"} /\ ~Acks(p)
    /\ Collect(pending)

HandshakeRaises(p) == Parse(p).kind = "raises" /\ EndsIn("crashed")

HandshakeFrame ==
    /\ phase = "handshake"
    /\ \E p \in Said :
        /\ Says(p)
        /\ \/ HandshakeAck(p) \/ HandshakeRefused(p) \/ HandshakeSnapshot(p)
           \/ HandshakeOther(p) \/ HandshakeRaises(p)

(* _stamp decodes a binary frame; one that is not UTF-8 raises there.      *)
Undecodable ==
    /\ phase \in {"handshake", "reading"}
    /\ EndsIn("garbled")
    /\ UNCHANGED <<unanswered, refused, flowing>>

(* The acknowledgement budget ran out; it runs whatever the peer sends.    *)
HandshakeTimeout ==
    /\ phase = "handshake"
    /\ Ended

(***************************************************************************)
(* Reading.                                                                *)
(***************************************************************************)
Unheard == UNCHANGED <<peer, refused, unanswered, flowing>>

(* The consumer takes the frames the handshake collected, one by one.      *)
DrainOne ==
    /\ phase = "draining" /\ collected > 0
    /\ collected' = collected - 1
    /\ UNCHANGED <<phase, closed, socket, pending, healthy, pinged, attempt, rung,
                   fruitless>>
    /\ Unheard

(* Mutant of ReadLoop: `while True` in the place of `while not _closed`.   *)
ReadLoopForever ==
    /\ phase' = "reading"
    /\ UNCHANGED <<closed, socket, pending, collected, healthy, pinged, attempt, rung,
                   fruitless>>
    /\ Unheard

(* Into the read loop, unless aclose was called meanwhile.                 *)
ReadLoop ==
    /\ phase' = "reading" /\ ~closed
    /\ UNCHANGED <<closed, socket, pending, collected, healthy, pinged, attempt, rung,
                   fruitless>>
    /\ Unheard

(* Mutant of DrainDone: the read loop starts with frames still to yield.   *)
DrainDoneEarly == phase = "draining" /\ (ReadLoop \/ (closed /\ Ended))

DrainDone ==
    /\ phase = "draining" /\ collected = 0
    /\ \/ ReadLoop
       \/ closed /\ Ended

(* A frame arrives; it may be a late answer of the venue to a subscription *)
(* already accounted for.                                                  *)
ReadFrame ==
    /\ phase = "reading"
    /\ phase' = "delivered"
    /\ Hears
    /\ healthy' = TRUE
    /\ pinged' = FALSE
    /\ \/ UNCHANGED <<unanswered, refused>>
       \/ \E c \in unanswered :
            /\ unanswered' = unanswered \ {c}
            /\ refused' \in {refused, refused \cup ({c} \cap Refusable)}
    /\ fruitless' = 0
    /\ UNCHANGED <<closed, socket, flowing, pending, collected, attempt, rung>>

ReadResumes ==
    /\ phase = "delivered"
    /\ \/ ReadLoop
       \/ closed /\ Ended

(* Mutant of ReadSilent: every silent window buys another ping.            *)
ReadSilentPings ==
    /\ phase = "reading" /\ socket
    /\ peer = "silent"
    /\ pinged' = TRUE
    /\ UNCHANGED <<phase, closed, socket, pending, collected, healthy, attempt, rung,
                   fruitless>>
    /\ Unheard

(* A silent window: the first buys a ping, the second ends the connection. *)
ReadSilent ==
    /\ phase = "reading" /\ socket
    /\ peer = "silent"
    /\ \/ /\ ~pinged
          /\ pinged' = TRUE
          /\ UNCHANGED <<phase, closed, socket, pending, collected, healthy, attempt, rung,
                         fruitless>>
          /\ Unheard
       \/ pinged /\ Ended

(* recv raises: the peer is gone, or aclose closed the socket.             *)
Broken == ~socket \/ peer = "gone"

ReceiveFails ==
    /\ phase \in {"handshake", "reading"}
    /\ Broken
    /\ Ended

(* `while not self._closed` after the sleep.                               *)
WakeUp ==
    /\ phase = "backoff"
    /\ phase' = IF closed THEN "stopped" ELSE "connecting"
    /\ healthy' = IF closed THEN healthy ELSE FALSE
    /\ UNCHANGED <<closed, socket, pending, collected, pinged, attempt, rung,
                   fruitless>>
    /\ Unheard

(***************************************************************************)
(* The other tasks: aclose; a consumer that leaves its loop, which raises  *)
(* GeneratorExit at the yield; and whoever cancels the task that is driving*)
(* the stream, which raises CancelledError at the await.                   *)
(***************************************************************************)
Aclose ==
    /\ ~closed
    /\ closed' = TRUE
    /\ socket' = FALSE
    /\ UNCHANGED <<phase, pending, collected, healthy, pinged, attempt, rung,
                   fruitless>>
    /\ Unheard

ConsumerLeaves ==
    /\ phase \in Suspended
    /\ Drop
    /\ StopHere("stopped")
    /\ UNCHANGED <<closed, venueVars>>

Cancelled ==
    /\ phase \in {"connecting", "handshake", "reading", "backoff"}
    /\ Drop
    /\ StopHere("stopped")
    /\ UNCHANGED <<closed, venueVars>>

PeerFades ==
    /\ socket /\ peer # "gone"
    /\ peer' \in {"silent", "gone"} \ {peer}
    /\ UNCHANGED <<clientVars, unanswered, refused, flowing, fruitless>>

-----------------------------------------------------------------------------
Stream ==
    \/ ConnectFails \/ ConnectOpens
    \/ HandshakeFrame \/ HandshakeTimeout \/ Undecodable
    \/ DrainOne \/ DrainDone
    \/ ReadFrame \/ ReadResumes \/ ReadSilent
    \/ ReceiveFails \/ WakeUp

Next == Stream \/ Aclose \/ ConsumerLeaves \/ Cancelled \/ PeerFades

Spec == Init /\ [][Next]_vars

(***************************************************************************)
(* The event loop runs what is ready: a connect attempt ends (open_timeout *)
(* bounds it), the handshake budget and the watchdog expire, the sleep     *)
(* ends, and the consumer comes back for the next frame.  Nothing makes    *)
(* the peer talk, and nothing makes a connect succeed.                     *)
(***************************************************************************)
Fairness ==
    /\ WF_vars(ConnectFails \/ ConnectOpens)
    /\ WF_vars(HandshakeTimeout)
    /\ WF_vars(DrainOne \/ DrainDone)
    /\ WF_vars(ReadResumes)
    /\ WF_vars(ReadSilent)
    /\ WF_vars(ReceiveFails)
    /\ WF_vars(WakeUp)

FairSpec == Spec /\ Fairness

-----------------------------------------------------------------------------
(* The ladder and the counter tell the same story: as many delays were     *)
(* taken from the ladder as attempts failed since the last healthy         *)
(* connection, so a flapping feed neither hammers the venue nor creeps up  *)
(* to the cap (client.py:120-130).                                         *)
LadderMatchesAttempts ==
    /\ phase \in {"backoff", "connecting"} => rung = attempt
    /\ phase = "gave_up" => attempt = MaxReconnects + 1 /\ rung = MaxReconnects

(* The stream gives up exactly when max_reconnects retries in a row after  *)
(* a healthy connection, or after the start, brought no frame              *)
(* (client.py:127-130).                                                    *)
GivesUpExactly ==
    /\ fruitless <= MaxReconnects + 1
    /\ fruitless = MaxReconnects + 1 <=> phase = "gave_up"

(* The read loop runs only with every subscription accounted for: none was *)
(* refused, and only the book's own ack may be outstanding, its snapshot   *)
(* having come first (subscription.py:78-81).                              *)
NoUnnoticedRefusal ==
    phase \in {"draining", "reading", "delivered"} =>
        /\ refused = {}
        /\ unanswered \subseteq (IF flowing THEN {"book"} ELSE {})

(* A refusal is final: it ends the stream with the error, whatever the     *)
(* answer looks like, and is never retried as a lost connection would be   *)
(* (parser.py:74-77, client.py:107-111).                                   *)
RefusalIsFinal == refused # {} => phase = "failed"

(* "`parse` never raises. The feed has to survive anything the exchange    *)
(* puts on the wire" (parser.py:3-4): no payload makes an exception of     *)
(* parse end the stream.                                                   *)
ParseNeverRaises == phase # "crashed"

(* Between connections and after the end no socket is held, also when      *)
(* aclose ran while a connect was being awaited (client.py:67-70, 115).    *)
NoSocketLeaks == phase \in Stopped \cup {"backoff", "connecting"} => ~socket

(* After aclose the stream ends, wherever it was suspended (client.py:68). *)
CloseEndsTheStream == closed ~> phase \in Stopped

(* A half-open connection is left: the watchdog pings once and then        *)
(* declares the peer dead, unless a frame comes first (client.py:137-162). *)
SilenceIsNoticed == (phase = "reading" /\ peer = "silent") ~> phase # "reading"

(* The frames that arrive during the handshake are "collected and returned *)
(* so they land in the recording in arrival order" (subscription.py:73-76):*)
(* once it succeeded, every one reaches the consumer before the read loop  *)
(* starts, unless the consumer leaves or its task is cancelled.            *)
CollectedFramesAreYielded ==
    [][collected' < collected =>
          \/ phase = "draining" /\ collected' = collected - 1
          \/ phase = "handshake" \/ phase' = "stopped"]_vars
=============================================================================
