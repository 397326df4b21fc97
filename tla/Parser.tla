------------------------------- MODULE Parser -------------------------------
(***************************************************************************)
(* l2tca.feed.parser.parse: what a websocket payload is taken for.  A      *)
(* payload is known by the shapes parse looks at, in the order it looks;   *)
(* prices, quantities and times are left out.                              *)
(***************************************************************************)
EXTENDS Sequences, SequencesExt

CONSTANT Channels      \* the channels subscribed to; each names its request

(* What stands for no answer, and for None, is no channel.                 *)
ASSUME ParserAssumption ==
    Channels \cap {"absent", "no_number", "infinite", "None"} = {}

(***************************************************************************)
(* Payloads.  An entry of data is one of                                   *)
(*   sound                                                                 *)
(*   no_object    not a JSON object                                        *)
(*   malformed    a field missing, or no number where one belongs          *)
(*   infinite_id  its checksum, trade_id or connection_id is Infinity      *)
(*   odd_time     its timestamp is a number, or a year out of range        *)
(* and a req_id answers a channel's request or is absent, no number, or    *)
(* Infinity.  A missing, empty or ill-typed data is the empty sequence.    *)
(***************************************************************************)
EntryShape == {"sound", "no_object", "malformed", "infinite_id", "odd_time"}
NoAnswer == {"absent", "no_number", "infinite"}

Payload ==
    [json    : {"broken", "no_object", "object"},
     channel : {"book", "trade", "heartbeat", "status", "other"},
     type    : {"snapshot", "update", "other"},
     data    : BoundedSeq(EntryShape, 2),
     method  : {"pong", "subscribe", "unsubscribe", "unhashable", "other"},
     req_id  : Channels \cup NoAnswer,
     success : BOOLEAN,
     error   : BOOLEAN]

Blank == [json |-> "object", channel |-> "other", type |-> "other", data |-> << >>,
          method |-> "other", req_id |-> "absent", success |-> FALSE, error |-> FALSE]

(***************************************************************************)
(* Results.  Undecodable input is to be an "error"; "raises" is the        *)
(* exception that leaves parse instead.                                    *)
(***************************************************************************)
Of(kind) == [kind |-> kind, req_id |-> "None", success |-> FALSE]
Raises == Of("raises")

(* int(Infinity) is an OverflowError, which _as_int does not catch.        *)
AsInt(id) == IF id \in Channels THEN id ELSE "None"

(* Only the first entry is read.  The levels are converted under `try`,    *)
(* the checksum and the timestamp behind it and before type is looked at.  *)
ParseBook(p) ==
    IF p.data = << >> \/ p.data[1] \in {"no_object", "malformed"} THEN Of("error")
    ELSE IF p.data[1] \in {"infinite_id", "odd_time"} THEN Raises
    ELSE CASE p.type = "snapshot" -> Of("book_snapshot")
           [] p.type = "update" -> Of("book_update")
           [] p.type = "other" -> Of("error")

(* Here everything is converted under `try`: one bad entry rejects all.    *)
ParseTrade(p) ==
    IF p.data # << >> /\ \A i \in DOMAIN p.data : p.data[i] = "sound"
      THEN Of("trades") ELSE Of("error")

ParseStatus(p) ==
    IF p.data # << >> /\ p.data[1] = "infinite_id" THEN Raises ELSE Of("status")

Ack(p) == [kind |-> "ack", req_id |-> AsInt(p.req_id), success |-> p.success]

(* Mutant of ParseMethod: what carries an error is an error.               *)
ParseErrorFirst(p) ==
    CASE p.method = "unhashable" \/ p.req_id = "infinite" -> Raises
      [] p.error -> Of("error")
      [] p.method \in {"subscribe", "unsubscribe"} -> Ack(p)
      [] p.method = "pong" -> Of("pong")
      [] OTHER -> Of("unknown")

(* A rejection is still an acknowledgement.  `method in {...}` hashes.     *)
ParseMethod(p) ==
    LET reads == p.method \in {"pong", "subscribe", "unsubscribe"} \/ p.error
    IN  CASE p.method = "unhashable" \/ (reads /\ p.req_id = "infinite") -> Raises
          [] p.method = "pong" -> Of("pong")
          [] p.method \in {"subscribe", "unsubscribe"} -> Ack(p)
          [] p.method = "other" -> Of(IF p.error THEN "error" ELSE "unknown")

Parse(p) ==
    IF p.json # "object" THEN Of("error")
    ELSE CASE p.channel = "book" -> ParseBook(p)
           [] p.channel = "trade" -> ParseTrade(p)
           [] p.channel = "heartbeat" -> Of("heartbeat")
           [] p.channel = "status" -> ParseStatus(p)
           [] p.channel = "other" -> ParseMethod(p)
=============================================================================
