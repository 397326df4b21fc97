-------------------------- MODULE FeedClientProofs --------------------------
(***************************************************************************)
(* The safety properties of FeedClient, for any set of channels, any       *)
(* max_reconnects and any number of frames in a handshake.                 *)
(***************************************************************************)
EXTENDS FeedClient, TLAPS

Connected == {"handshake", "draining", "reading", "delivered"}
Running == {"connecting", "backoff"} \cup Connected

FeedTypes ==
    /\ phase \in Running \cup Stopped
    /\ closed \in BOOLEAN /\ socket \in BOOLEAN
    /\ healthy \in BOOLEAN /\ flowing \in BOOLEAN
    /\ attempt \in Nat /\ rung \in Nat /\ fruitless \in Nat

(* The ladder, the counter and the history of fruitless attempts agree,    *)
(* but for what a healthy connection is about to reset.                    *)
Counting ==
    /\ phase # "gave_up" =>
          rung = attempt /\ attempt <= MaxReconnects /\ fruitless <= MaxReconnects
    /\ phase = "gave_up" =>
          rung = MaxReconnects /\ attempt = MaxReconnects + 1 /\ fruitless = MaxReconnects + 1
    /\ phase \in {"connecting", "handshake", "draining"} => ~healthy
    /\ phase \in {"connecting", "handshake", "draining", "backoff"} => fruitless = attempt
    /\ phase \in {"reading", "delivered"} => fruitless = (IF healthy THEN 0 ELSE attempt)

Sockets == socket => phase \in Connected

(* What the handshake still waits for covers what the venue has yet to     *)
(* answer, but for the answer of a book that already flows.                *)
Excused == IF flowing THEN {"book"} ELSE {}
Answering ==
    /\ phase = "handshake" => unanswered \subseteq pending \cup Excused
    /\ phase \in {"draining", "reading", "delivered"} => unanswered \subseteq Excused
    /\ refused # {} => phase = "failed"
    /\ pending \subseteq Channels /\ unanswered \subseteq Channels

FeedInv == FeedTypes /\ Counting /\ Sockets /\ Answering

-----------------------------------------------------------------------------
(* What parse makes of the venue's words.                                  *)
LEMMA AnswersAreAcks ==
    ASSUME NEW c \in Channels, NEW a \in BOOLEAN
    PROVE  Parse(Answer(c, a)) = [kind |-> "ack", req_id |-> c, success |-> a]
<1>1. c # "infinite"
  BY ParserAssumption
<1>2. /\ Answer(c, a).json = "object" /\ Answer(c, a).channel = "other"
      /\ Answer(c, a).method = "subscribe" /\ Answer(c, a).req_id = c
      /\ Answer(c, a).success = a
  BY DEF Answer, Blank
<1> QED BY <1>1, <1>2 DEF Parse, ParseMethod, Ack, AsInt

LEMMA OpeningIsSnapshot == Parse(Opening).kind = "book_snapshot"
<1>1. /\ Opening.json = "object" /\ Opening.channel = "book"
      /\ Opening.type = "snapshot" /\ Opening.data = <<"sound">>
  BY DEF Opening, Blank
<1> QED BY <1>1 DEF Parse, ParseBook, Of

(* Nothing else the venue says accounts for a subscription.                *)
LEMMA ChatterAnswersNothing ==
    ASSUME NEW p \in Chatter
    PROVE  /\ Parse(p).kind # "book_snapshot"
           /\ Parse(p).kind = "ack" => Parse(p).req_id \notin Channels
<1>1. CASE p \in Garbage
  <2>1. p.json \in {"broken", "no_object"}
    BY <1>1 DEF Garbage, Blank
  <2> QED BY <2>1 DEF Parse, Of
<1>2. CASE p \in Traffic
  <2>1. /\ p.json = "object" /\ p.type \in {"update", "other"}
        /\ p.channel \in {"book", "trade", "heartbeat", "status"}
    BY <1>2 DEF Traffic
  <2>2. CASE p.channel = "book"
    <3>1. Parse(p) = ParseBook(p)
      BY <2>1, <2>2 DEF Parse
    <3> QED BY <2>1, <3>1 DEF ParseBook, Of, Raises
  <2>3. CASE p.channel = "trade"
    <3>1. Parse(p) = ParseTrade(p)
      BY <2>1, <2>3 DEF Parse
    <3> QED BY <3>1 DEF ParseTrade, Of
  <2>4. CASE p.channel = "heartbeat"
    BY <2>1, <2>4 DEF Parse, Of
  <2>5. CASE p.channel = "status"
    <3>1. Parse(p) = ParseStatus(p)
      BY <2>1, <2>5 DEF Parse
    <3> QED BY <3>1 DEF ParseStatus, Of, Raises
  <2> QED BY <2>1, <2>2, <2>3, <2>4, <2>5
<1>3. CASE p \in BadSnapshots
  <2>1. PICK d \in BoundedSeq(EntryShape \ {"sound"}, 1) : p = [Opening EXCEPT !.data = d]
    BY <1>3 DEF BadSnapshots
  <2>2. /\ p.json = "object" /\ p.channel = "book" /\ p.data = d
    BY <2>1 DEF Opening, Blank
  <2>3. PICK n \in 0..1 : d \in [1..n -> EntryShape \ {"sound"}]
    BY DEF BoundedSeq, SeqOf
  <2>4. p.data = << >> \/ p.data[1] \in EntryShape \ {"sound"}
    <3>1. CASE n = 0
      BY <3>1, <2>2, <2>3
    <3>2. CASE n = 1
      BY <3>2, <2>2, <2>3
    <3> QED BY <2>3, <3>1, <3>2
  <2>5. Parse(p) = ParseBook(p)
    BY <2>2 DEF Parse
  <2> QED BY <2>4, <2>5 DEF ParseBook, Of, Raises, EntryShape
<1>4. CASE p \in Replies
  <2>1. /\ p.json = "object" /\ p.channel = "other" /\ p.req_id \in NoAnswer
        /\ p.method \in {"pong", "unsubscribe", "unhashable", "other"}
    BY <1>4 DEF Replies
  <2>2. Parse(p) = ParseMethod(p)
    BY <2>1 DEF Parse
  <2>3. p.req_id \notin Channels /\ "None" \notin Channels
    BY <2>1, ParserAssumption DEF NoAnswer
  <2> QED BY <2>1, <2>2, <2>3 DEF ParseMethod, Ack, AsInt, Of, Raises
<1> QED BY <1>1, <1>2, <1>3, <1>4 DEF Chatter

-----------------------------------------------------------------------------
(* An attempt that ends, wherever it was, hands over to stop, backoff or   *)
(* gave_up with the counters in step.                                      *)
LEMMA EndedKeeps ==
    ASSUME FeedInv, phase \in {"connecting"} \cup Connected, Ended
    PROVE  FeedInv'
<1> USE DEF FeedInv, Connected
<1>1. CASE closed
  <2>1. /\ phase' = "stopped" /\ socket' = FALSE /\ pending' = {}
        /\ UNCHANGED <<attempt, rung, healthy, fruitless, closed, unanswered, refused, flowing>>
    BY <1>1 DEF Ended, Drop, StopHere, venueVars
  <2>2. FeedTypes'
    BY <2>1 DEF FeedTypes, Stopped, Running
  <2>3. Counting'
    BY <2>1 DEF Counting
  <2>4. Sockets' /\ Answering'
    BY <2>1 DEF Sockets, Answering, Excused
  <2> QED BY <2>2, <2>3, <2>4
<1>2. CASE ~closed
  <2>1. /\ socket' = FALSE /\ pending' = {}
        /\ UNCHANGED <<healthy, closed, unanswered, refused, flowing>>
        /\ attempt' = Failures /\ fruitless' = fruitless + 1
        /\ \/ Failures > MaxReconnects /\ phase' = "gave_up" /\ rung' = Rungs
           \/ Failures <= MaxReconnects /\ phase' = "backoff" /\ rung' = Rungs + 1
    BY <1>2, ClientAssumption DEF Ended, Drop, Retry, venueVars, Failures, FeedTypes
  <2>2. /\ Failures \in Nat /\ Failures = fruitless + 1 /\ Failures = Rungs + 1
        /\ Failures <= MaxReconnects + 1 /\ Rungs \in Nat
    BY ClientAssumption DEF FeedTypes, Counting, Failures, Rungs
  <2>3. FeedTypes'
    BY <2>1, <2>2 DEF FeedTypes, Stopped, Running
  <2>4. Counting'
    BY <2>1, <2>2, ClientAssumption DEF Counting, FeedTypes
  <2>5. Sockets' /\ Answering'
    BY <2>1 DEF Sockets, Answering, Excused
  <2> QED BY <2>3, <2>4, <2>5
<1> QED BY <1>1, <1>2

(* A stream that stops without a retry leaves no socket; only a refused    *)
(* handshake stops with refused not empty.                                 *)
LEMMA StopKeeps ==
    ASSUME FeedInv, phase \in Running, Drop, UNCHANGED closed,
           NEW where \in Stopped \ {"gave_up"}, StopHere(where),
           refused' # {} => where = "failed",
           unanswered' \subseteq unanswered, flowing' \in BOOLEAN
    PROVE  FeedInv'
<1> USE DEF FeedInv
<1>1. /\ phase' = where /\ where \in Stopped /\ where # "gave_up"
      /\ where \notin Running /\ socket' = FALSE /\ pending' = {}
      /\ UNCHANGED <<attempt, rung, healthy, fruitless, closed>>
  BY DEF Drop, StopHere, Running, Connected, Stopped
<1>2. FeedTypes'
  BY <1>1 DEF FeedTypes
<1>3. Counting'
  BY <1>1 DEF Counting, Running, Connected
<1>4. Sockets' /\ Answering'
  BY <1>1 DEF Sockets, Answering, Running, Connected
<1> QED BY <1>2, <1>3, <1>4

(* A frame of the handshake: what is removed from pending was answered, or *)
(* is the book that flows; what is refused ends the stream.                *)
LEMMA HandshakeKeeps ==
    ASSUME FeedInv, HandshakeFrame
    PROVE  FeedInv'
<1> USE DEF FeedInv
<1>0. phase = "handshake" /\ refused = {} /\ phase \in Connected
  BY DEF HandshakeFrame, Answering, Connected
<1>1. PICK p \in Said :
        /\ Says(p)
        /\ \/ HandshakeAck(p) \/ HandshakeRefused(p) \/ HandshakeSnapshot(p)
           \/ HandshakeOther(p) \/ HandshakeRaises(p)
  BY DEF HandshakeFrame
<1>2. ASSUME NEW left, left \subseteq pending, Collect(left),
             unanswered' \subseteq left \cup Excused', refused' = {},
             unanswered' \subseteq Channels, flowing' \in BOOLEAN
      PROVE  FeedInv'
  <2>1. /\ UNCHANGED <<closed, socket, healthy, attempt, rung, fruitless>>
        /\ pending' = left /\ phase' = (IF left = {} THEN "draining" ELSE "handshake")
    BY <1>2 DEF Collect
  <2>2. FeedTypes'
    BY <1>2, <2>1 DEF FeedTypes, Running, Connected
  <2>3. Counting'
    BY <1>0, <2>1 DEF Counting
  <2>4. Sockets' /\ Answering'
    BY <1>2, <2>1 DEF Sockets, Answering, Connected
  <2> QED BY <2>2, <2>3, <2>4
<1>3. CASE \E c \in unanswered : p = Answer(c, TRUE) /\ unanswered' = unanswered \ {c}
                                /\ UNCHANGED <<refused, flowing>>
  <2>1. PICK c \in unanswered : p = Answer(c, TRUE) /\ unanswered' = unanswered \ {c}
    BY <1>3
  <2>2. Parse(p) = [kind |-> "ack", req_id |-> c, success |-> TRUE] /\ c \in Channels
    BY <2>1, AnswersAreAcks DEF Answering
  <2>3. UNCHANGED <<refused, flowing>>
    BY <1>3
  <2>4. CASE HandshakeAck(p)
    <3>1. Collect(pending \ {c})
      BY <2>2, <2>4 DEF HandshakeAck
    <3>2. /\ unanswered' \subseteq (pending \ {c}) \cup Excused' /\ refused' = {}
          /\ unanswered' \subseteq Channels /\ flowing' \in BOOLEAN
      BY <1>0, <2>1, <2>3 DEF Answering, Excused, FeedTypes
    <3> QED BY <1>2, <3>1, <3>2
  <2>5. CASE HandshakeOther(p)
    BY <1>0, <1>2, <2>1, <2>2, <2>3, <2>5 DEF HandshakeOther, Acks, Answering, Excused, FeedTypes
  <2> QED BY <1>1, <2>2, <2>4, <2>5 DEF HandshakeRefused, HandshakeSnapshot, HandshakeRaises
<1>4. CASE \E c \in Refusable :
             /\ p = Answer(c, FALSE) /\ unanswered' = unanswered \ {c}
             /\ refused' = refused \cup {c} /\ flowing' = flowing
  <2>1. PICK c \in Refusable : p = Answer(c, FALSE) /\ unanswered' = unanswered \ {c}
    BY <1>4
  <2>2. Parse(p) = [kind |-> "ack", req_id |-> c, success |-> FALSE] /\ c \in pending
    BY <1>0, <2>1, AnswersAreAcks DEF Answering, Refusable, Excused
  <2>3. HandshakeRefused(p)
    BY <1>1, <2>2 DEF HandshakeAck, HandshakeSnapshot, HandshakeOther, HandshakeRaises, Acks
  <2> QED BY <1>0, <1>4, <2>1, <2>3, StopKeeps
          DEF HandshakeRefused, EndsIn, Running, Stopped, FeedTypes
<1>5. CASE p = Opening /\ ~flowing /\ flowing' = TRUE /\ UNCHANGED <<unanswered, refused>>
  <2>1. HandshakeSnapshot(p)
    BY <1>1, <1>5, OpeningIsSnapshot
       DEF HandshakeAck, HandshakeRefused, HandshakeOther, HandshakeRaises, Acks
  <2> QED BY <1>0, <1>2, <1>5, <2>1 DEF HandshakeSnapshot, Answering, Excused
<1>6. CASE p \in Chatter /\ UNCHANGED <<unanswered, refused, flowing>>
  <2>1. ~Acks(p) /\ Parse(p).kind # "book_snapshot"
    BY <1>6, ChatterAnswersNothing DEF Acks, Answering
  <2>2. CASE HandshakeOther(p)
    BY <1>0, <1>2, <1>6, <2>2 DEF HandshakeOther, Answering, Excused, FeedTypes
  <2>3. CASE HandshakeRaises(p)
    BY <1>0, <1>6, <2>3, StopKeeps DEF HandshakeRaises, EndsIn, Running, Stopped, FeedTypes
  <2> QED BY <1>1, <2>1, <2>2, <2>3 DEF HandshakeAck, HandshakeRefused, HandshakeSnapshot
<1> QED BY <1>1, <1>3, <1>4, <1>5, <1>6 DEF Says

-----------------------------------------------------------------------------
(* The inductive invariant: counters, socket and subscriptions hang        *)
(* together at every await and yield of stream() (client.py:78-135).       *)
THEOREM FeedInvHolds == Spec => []FeedInv
<1>1. Init => FeedInv
  <2> SUFFICES ASSUME Init PROVE FeedInv
    OBVIOUS
  <2>1. FeedTypes /\ Sockets
    BY DEF Init, FeedTypes, Sockets, Running
  <2>2. Counting /\ Answering
    BY ClientAssumption DEF Init, Counting, Answering, Excused
  <2> QED BY <2>1, <2>2 DEF FeedInv
<1>2. FeedInv /\ [Next]_vars => FeedInv'
  <2> SUFFICES ASSUME FeedInv, [Next]_vars
               PROVE  FeedInv'
    OBVIOUS
  <2> USE DEF FeedInv
  <2>1. CASE ConnectFails
    BY <2>1, EndedKeeps DEF ConnectFails
  <2>2. CASE ConnectOpens
    BY <2>2 DEF ConnectOpens, FeedTypes, Counting, Sockets, Answering, Excused, Running, Connected, Stopped
  <2>3. CASE HandshakeFrame
    BY <2>3, HandshakeKeeps
  <2>4. CASE HandshakeTimeout
    BY <2>4, EndedKeeps DEF HandshakeTimeout, Connected
  <2>5. CASE Undecodable
    <3>1. /\ phase \in Connected /\ phase # "failed" /\ Drop /\ StopHere("garbled")
          /\ UNCHANGED <<closed, unanswered, refused, flowing>>
      BY <2>5 DEF Undecodable, EndsIn, Connected
    <3> QED BY <3>1, StopKeeps DEF Answering, Running, Stopped, FeedTypes
  <2>6. ASSUME phase \in Suspended, ReadLoop
        PROVE  FeedInv'
    <3>1. phase \in {"draining", "delivered"} /\ phase' = "reading"
          /\ UNCHANGED <<closed, socket, pending, healthy, attempt, rung, fruitless,
                         refused, unanswered, flowing>>
      BY <2>6 DEF Suspended, ReadLoop, Unheard
    <3>2. FeedTypes' /\ Sockets'
      BY <3>1 DEF FeedTypes, Sockets, Running, Connected
    <3>3. Counting'
      BY <3>1 DEF Counting, FeedTypes
    <3>4. Answering'
      BY <3>1 DEF Answering, Excused
    <3> QED BY <3>2, <3>3, <3>4
  <2>7. CASE DrainOne
    BY <2>7 DEF DrainOne, Unheard, FeedTypes, Counting, Sockets, Answering, Excused
  <2>8. CASE DrainDone
    BY <2>6, <2>8, EndedKeeps DEF DrainDone, Suspended, Connected
  <2>9. CASE ReadFrame
    <3>1. /\ phase = "reading" /\ phase' = "delivered" /\ healthy' = TRUE /\ fruitless' = 0
          /\ UNCHANGED <<closed, socket, pending, attempt, rung, flowing>>
      BY <2>9 DEF ReadFrame
    <3>2. unanswered' \subseteq unanswered /\ refused' = {}
      BY <2>9 DEF ReadFrame, Answering, Excused, Refusable
    <3>3. FeedTypes' /\ Sockets'
      BY <3>1 DEF FeedTypes, Sockets, Running, Connected
    <3>4. Counting'
      BY <3>1, ClientAssumption DEF Counting
    <3>5. Answering'
      BY <3>1, <3>2 DEF Answering, Excused
    <3> QED BY <3>3, <3>4, <3>5
  <2>10. CASE ReadResumes
    BY <2>6, <2>10, EndedKeeps DEF ReadResumes, Suspended, Connected
  <2>11. CASE ReadSilent
    <3>1. CASE Ended
      BY <2>11, <3>1, EndedKeeps DEF ReadSilent, Connected
    <3>2. CASE ~Ended
      <4>1. UNCHANGED <<phase, closed, socket, pending, healthy, attempt, rung, fruitless,
                        refused, unanswered, flowing>>
        BY <2>11, <3>2 DEF ReadSilent, Unheard
      <4> QED BY <4>1 DEF FeedTypes, Counting, Sockets, Answering, Excused
    <3> QED BY <3>1, <3>2
  <2>12. CASE ReceiveFails
    BY <2>12, EndedKeeps DEF ReceiveFails, Connected
  <2>13. CASE WakeUp
    <3>1. /\ phase = "backoff" /\ phase' \in {"stopped", "connecting"}
          /\ phase' = "connecting" => healthy' = FALSE
          /\ UNCHANGED <<closed, socket, pending, attempt, rung, fruitless, refused,
                         unanswered, flowing>>
      BY <2>13 DEF WakeUp, Unheard
    <3>2. healthy' \in BOOLEAN
      BY <2>13 DEF WakeUp, FeedTypes
    <3>3. FeedTypes' /\ Sockets'
      BY <3>1, <3>2 DEF FeedTypes, Sockets, Running, Connected, Stopped
    <3>4. Counting'
      BY <3>1 DEF Counting
    <3>5. Answering'
      BY <3>1 DEF Answering, Excused
    <3> QED BY <3>3, <3>4, <3>5
  <2>14. CASE Aclose
    BY <2>14 DEF Aclose, Unheard, FeedTypes, Counting, Sockets, Answering, Excused
  <2>15. CASE ConsumerLeaves
    <3>1. /\ phase \in Connected /\ phase # "failed" /\ Drop /\ StopHere("stopped")
          /\ UNCHANGED <<closed, unanswered, refused, flowing>>
      BY <2>15 DEF ConsumerLeaves, Suspended, Connected, venueVars
    <3> QED BY <3>1, StopKeeps DEF Answering, Running, Stopped, FeedTypes
  <2>16. CASE Cancelled
    <3>1. /\ phase \in Running /\ phase # "failed" /\ Drop /\ StopHere("stopped")
          /\ UNCHANGED <<closed, unanswered, refused, flowing>>
      BY <2>16 DEF Cancelled, Running, Connected, venueVars
    <3> QED BY <3>1, StopKeeps DEF Answering, Running, Stopped, FeedTypes
  <2>17. CASE PeerFades
    BY <2>17 DEF PeerFades, clientVars, FeedTypes, Counting, Sockets, Answering, Excused
  <2>18. CASE UNCHANGED vars
    BY <2>18 DEF vars, clientVars, venueVars, FeedTypes, Counting, Sockets, Answering, Excused
  <2> QED BY <2>1, <2>2, <2>3, <2>4, <2>5, <2>7, <2>8, <2>9, <2>10, <2>11, <2>12, <2>13, <2>14,
             <2>15, <2>16, <2>17, <2>18 DEF Next, Stream
<1> QED BY <1>1, <1>2, PTL DEF Spec

(* After every failed attempt the ladder has been climbed exactly as far   *)
(* as the counter says, however connections flap (client.py:120-130).      *)
THEOREM LadderInStep == Spec => []LadderMatchesAttempts
<1>1. FeedInv => LadderMatchesAttempts
  BY DEF FeedInv, Counting, LadderMatchesAttempts
<1> QED BY <1>1, FeedInvHolds, PTL

(* The stream gives up after exactly max_reconnects retries that brought   *)
(* no frame, for every value of max_reconnects (client.py:127-130).        *)
THEOREM GivesUpOnTime == Spec => []GivesUpExactly
<1>1. FeedInv => GivesUpExactly
  BY ClientAssumption DEF FeedInv, FeedTypes, Counting, GivesUpExactly
<1> QED BY <1>1, FeedInvHolds, PTL

(* Nothing is read while a subscription is refused or not accounted for,   *)
(* whatever the venue says in between (subscription.py:78-127).            *)
THEOREM SubscribedBeforeReading == Spec => []NoUnnoticedRefusal
<1>1. FeedInv => NoUnnoticedRefusal
  BY DEF FeedInv, Answering, Excused, NoUnnoticedRefusal
<1> QED BY <1>1, FeedInvHolds, PTL

(* A refused subscription ends the stream in the step that hears of it     *)
(* (client.py:107-111).                                                    *)
THEOREM RefusedIsFailed == Spec => []RefusalIsFinal
<1>1. FeedInv => RefusalIsFinal
  BY DEF FeedInv, Answering, RefusalIsFinal
<1> QED BY <1>1, FeedInvHolds, PTL

(* No socket outlives its connection attempt, however aclose and the       *)
(* connect interleave (client.py:67-76, 112-115).                          *)
THEOREM SocketsAreDropped == Spec => []NoSocketLeaks
<1>1. FeedInv => NoSocketLeaks
  BY DEF FeedInv, Sockets, Connected, Stopped, NoSocketLeaks
<1> QED BY <1>1, FeedInvHolds, PTL

-----------------------------------------------------------------------------
(* Frames are held back only from the handshake until they were all        *)
(* yielded (subscription.py:73-76, client.py:101-117).                     *)
HoldsWhileOpening ==
    /\ collected \in Nat
    /\ phase \notin {"handshake", "draining"} => collected = 0

LEMMA EmptiedKeeps ==
    ASSUME Drop
    PROVE  HoldsWhileOpening'
BY DEF Drop, HoldsWhileOpening

LEMMA HoldsWhileOpeningHolds == Spec => []HoldsWhileOpening
<1>1. Init => HoldsWhileOpening
  BY DEF Init, HoldsWhileOpening
<1>2. HoldsWhileOpening /\ [Next]_vars => HoldsWhileOpening'
  <2> SUFFICES ASSUME HoldsWhileOpening, [Next]_vars
               PROVE  HoldsWhileOpening'
    OBVIOUS
  <2>1. CASE Drop
    BY <2>1, EmptiedKeeps
  <2>2. CASE ConnectOpens
    BY <2>2 DEF ConnectOpens, HoldsWhileOpening
  <2>3. CASE HandshakeFrame
    <3>1. ASSUME NEW left, Collect(left)
          PROVE  HoldsWhileOpening'
      BY <3>1 DEF Collect, HoldsWhileOpening
    <3> QED BY <2>1, <2>3, <3>1 DEF HandshakeFrame, HandshakeAck, HandshakeRefused,
               HandshakeSnapshot, HandshakeOther, HandshakeRaises, EndsIn
  <2>4. CASE DrainOne
    BY <2>4 DEF DrainOne, HoldsWhileOpening
  <2>5. CASE DrainDone /\ ~Drop
    BY <2>5 DEF DrainDone, Ended, ReadLoop, HoldsWhileOpening
  <2>6. CASE ReadFrame
    BY <2>6 DEF ReadFrame, HoldsWhileOpening
  <2>7. CASE ReadResumes /\ ~Drop
    BY <2>7 DEF ReadResumes, Ended, ReadLoop, HoldsWhileOpening
  <2>8. CASE ReadSilent /\ ~Drop
    BY <2>8 DEF ReadSilent, Ended, HoldsWhileOpening
  <2>9. CASE WakeUp
    BY <2>9 DEF WakeUp, HoldsWhileOpening
  <2>10. CASE Aclose \/ PeerFades \/ UNCHANGED vars
    BY <2>10 DEF Aclose, PeerFades, vars, clientVars, HoldsWhileOpening
  <2>11. CASE \/ ConnectFails \/ HandshakeTimeout \/ Undecodable \/ ReceiveFails
              \/ ConsumerLeaves \/ Cancelled
    BY <2>1, <2>11 DEF ConnectFails, HandshakeTimeout, Undecodable, ReceiveFails,
       ConsumerLeaves, Cancelled, Ended, EndsIn
  <2> QED BY <2>1, <2>2, <2>3, <2>4, <2>5, <2>6, <2>7, <2>8, <2>9, <2>10, <2>11 DEF Next, Stream
<1> QED BY <1>1, <1>2, PTL DEF Spec

(* The frames of a handshake that succeeded reach the consumer one by one, *)
(* and none is lost to a lost peer, to aclose or to the read loop; only a  *)
(* consumer that leaves or is cancelled loses them (subscription.py:73-76).*)
THEOREM FramesAreYielded == Spec => CollectedFramesAreYielded
<1> DEFINE Yields ==
      collected' < collected =>
          \/ phase = "draining" /\ collected' = collected - 1
          \/ phase = "handshake" \/ phase' = "stopped"
<1>1. HoldsWhileOpening /\ HoldsWhileOpening' /\ [Next]_vars => [Yields]_vars
  <2> SUFFICES ASSUME HoldsWhileOpening, HoldsWhileOpening', Next, collected' < collected,
                      phase # "handshake"
               PROVE  \/ phase = "draining" /\ collected' = collected - 1
                      \/ phase' = "stopped"
    OBVIOUS
  <2>1. /\ phase = "draining" /\ collected \in Nat
        /\ collected # 0 /\ collected' # collected
    BY DEF HoldsWhileOpening
  <2>2. CASE Stream
    <3>1. DrainOne
      BY <2>1, <2>2 DEF Stream, ConnectFails, ConnectOpens, HandshakeFrame, HandshakeTimeout,
         Undecodable, DrainDone, ReadFrame, ReadResumes, ReadSilent, ReceiveFails, WakeUp
    <3> QED BY <2>1, <3>1 DEF DrainOne
  <2>3. CASE ConsumerLeaves \/ Cancelled
    BY <2>3 DEF ConsumerLeaves, Cancelled, StopHere
  <2>4. CASE Aclose \/ PeerFades
    BY <2>1, <2>4 DEF Aclose, PeerFades, clientVars
  <2> QED BY <2>2, <2>3, <2>4 DEF Next
<1> QED BY <1>1, HoldsWhileOpeningHolds, PTL DEF Spec, CollectedFramesAreYielded
=============================================================================
