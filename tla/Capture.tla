------------------------------ MODULE Capture ------------------------------
(***************************************************************************)
(* A capture file: l2tca.feed.recorder.JsonlRecorder appends records to    *)
(* it, the process may be killed, a later session may append to the same   *)
(* path, and l2tca.feed.replay reads it back line by line.                 *)
(*                                                                         *)
(* A record is written as a line of three tokens: the two halves of its    *)
(* JSON text and the newline, so that a line can be cut before, inside or  *)
(* right behind the text.  What the process wrote to the operating system  *)
(* survives a kill.                                                        *)
(*                                                                         *)
(* A path that ends in .gz holds one gzip member for each session.  Its    *)
(* flush is a sync flush, so that what was flushed can be read back, but a *)
(* killed session leaves a member without a trailer.  A reader that meets  *)
(* the end of the file in it raises EOFError; and the member of a later    *)
(* session is taken for more of the unfinished one, which fails and takes  *)
(* some of what was decompressed before it along.                          *)
(***************************************************************************)
EXTENDS Naturals, SequencesExt

CONSTANTS
    FlushEvery,     \* flush_every
    Formats,        \* what the path may be, TRUE for .gz: a set of BOOLEANs
    MaxRecords,     \* bound on the records written
    MaxSessions     \* bound on the recorders opened on this path

ASSUME CaptureAssumption ==
    /\ FlushEvery \in Nat \ {0} /\ Formats \subseteq BOOLEAN
    /\ MaxRecords \in Nat /\ MaxSessions \in Nat

VARIABLES
    compressed, \* path.suffix == ".gz"
    disk,       \* the tokens the operating system holds
    cut,        \* how many of them can be decompressed, Whole for all
    pending,    \* the tokens in the buffers of the process
    opened,     \* self._fh is not None
    sinceFlush, \* self._since_flush
    session,    \* how many recorders have opened the file
    records,    \* history: every record written, in order
    killed      \* history: the sessions that were killed

vars == <<compressed, cut, disk, pending, opened, sinceFlush, session, records, killed>>

Whole == 3 * MaxRecords

Init ==
    /\ compressed \in Formats /\ cut = Whole
    /\ disk = << >> /\ pending = << >>
    /\ opened = FALSE /\ sinceFlush = 0
    /\ session = 0 /\ records = << >> /\ killed = {}

(***************************************************************************)
(* Bytes reach the operating system.  The first behind an unfinished       *)
(* member spoil the file, from some place before them on.                  *)
(***************************************************************************)
OnDisk(s) == \E i \in DOMAIN disk : records[disk[i].record].session = s
Torn == compressed /\ \E s \in killed : OnDisk(s)

Reaches(tokens) ==
    /\ disk' = disk \o tokens
    /\ cut' \in IF Torn /\ cut = Whole THEN 0 .. Len(disk) ELSE {cut}
    /\ UNCHANGED compressed

(***************************************************************************)
(* The recorder.                                                           *)
(***************************************************************************)
Line(n) == <<[record |-> n, part |-> "head"], [record |-> n, part |-> "tail"],
             [record |-> n, part |-> "newline"]>>

Log(kind) == records' = Append(records, [kind |-> kind, session |-> session'])
NewLine == Line(Len(records'))

(* _write without a flush; the buffer may spill to the OS at any time.     *)
WriteBuffered ==
    /\ pending' = pending \o NewLine
    /\ sinceFlush' = sinceFlush + 1
    /\ UNCHANGED <<compressed, cut, disk>>

WriteFlushed ==
    /\ Reaches(pending \o NewLine)
    /\ pending' = << >>
    /\ sinceFlush' = 0

Open ==
    /\ ~opened /\ session < MaxSessions /\ Len(records) < MaxRecords
    /\ opened' = TRUE
    /\ session' = session + 1
    /\ Log("header")
    /\ pending' = NewLine
    /\ sinceFlush' = 1
    /\ UNCHANGED <<compressed, cut, disk, killed>>

(* Mutant of DueByCount: the record just written is not counted.           *)
DueByCountLate == sinceFlush >= FlushEvery

(* _maybe_flush: by count, or because flush_interval_s has passed.         *)
DueByCount == sinceFlush + 1 >= FlushEvery

WriteMessage ==
    /\ opened /\ Len(records) < MaxRecords
    /\ UNCHANGED <<opened, session, killed>>
    /\ Log("msg")
    /\ WriteFlushed \/ (~DueByCount /\ WriteBuffered)

(* Mutant of WriteControl: an event waits for the next flush.              *)
WriteControlLazily ==
    /\ opened /\ Len(records) < MaxRecords
    /\ UNCHANGED <<opened, session, killed>>
    /\ Log("control")
    /\ WriteBuffered

WriteControl ==
    /\ opened /\ Len(records) < MaxRecords
    /\ UNCHANGED <<opened, session, killed>>
    /\ Log("control")
    /\ WriteFlushed

(* Mutant of Close: what is still buffered is not written.                 *)
CloseUnflushed ==
    /\ opened
    /\ opened' = FALSE
    /\ Reaches(<< >>)
    /\ pending' = << >>
    /\ UNCHANGED <<sinceFlush, session, records, killed>>

Close ==
    /\ opened
    /\ opened' = FALSE
    /\ Reaches(pending)
    /\ pending' = << >>
    /\ UNCHANGED <<sinceFlush, session, records, killed>>

(***************************************************************************)
(* The operating system.                                                   *)
(***************************************************************************)
Spill ==
    /\ \E n \in 1 .. Len(pending) :
        /\ Reaches(SubSeq(pending, 1, n))
        /\ pending' = SubSeq(pending, n + 1, Len(pending))
    /\ UNCHANGED <<opened, sinceFlush, session, records, killed>>

Kill ==
    /\ opened
    /\ opened' = FALSE
    /\ pending' = << >>
    /\ killed' = killed \cup {session}
    /\ UNCHANGED <<compressed, cut, disk, sinceFlush, session, records>>

-----------------------------------------------------------------------------
(***************************************************************************)
(* iter_records: a line is decoded when it is the text of one record, with *)
(* nothing before it and nothing but the newline, or the end of the file,  *)
(* behind it; any other line is skipped.  A gzip file ends like that only  *)
(* when every member has its trailer: before one that has not, the reader  *)
(* gets the whole lines and then an exception.                             *)
(***************************************************************************)
Text == SubSeq(disk, 1, IF cut < Len(disk) THEN cut ELSE Len(disk))
ReaderRaises == compressed /\ \E s \in killed \cup (IF opened THEN {session} ELSE {}) : OnDisk(s)

IsPart(i, n, part) == i \in DOMAIN Text /\ Text[i] = [record |-> n, part |-> part]
StartsLine(i) == i = 1 \/ Text[i - 1].part = "newline"
EndsLine(i) == IF i = Len(Text) THEN ~ReaderRaises ELSE Text[i + 1].part = "newline"

Decodes(n) ==
    \E i \in DOMAIN Text :
        /\ IsPart(i, n, "head") /\ IsPart(i + 1, n, "tail")
        /\ StartsLine(i) /\ EndsLine(i + 1)

Of(s) == {n \in DOMAIN records : records[n].session = s}
Lost(s) == {n \in Of(s) : records[n].kind # "header" /\ ~Decodes(n)}

Legible == cut = Whole

(* "Lifecycle events are rare and are exactly what you want on disk if the *)
(* process dies" (recorder.py:107): once write_control has returned, the   *)
(* event is replayed whatever happens to the recorder, and whoever appends *)
(* to the file later, unless a session was appended to a gzip capture that *)
(* was killed.                                                             *)
ControlSurvives ==
    Legible => \A n \in DOMAIN records : records[n].kind = "control" => Decodes(n)

(* What a kill costs: fewer than flush_every frames, and only the last of  *)
(* the session, so that what is replayed of it is a prefix without a hole; *)
(* a session that was closed lost nothing; also when sessions before it    *)
(* were killed and sessions after it append to the torn line, unless that  *)
(* has spoiled a gzip file (recorder.py:117-154).                          *)
Over(s) == s < session \/ ~opened
Cheap(s) == Cardinality(Lost(s)) < FlushEvery
LossIsATail ==
    Legible =>
        \A s \in 1 .. session :
            /\ Cheap(s)
            /\ \A n \in Lost(s), m \in Of(s) : m > n => m \in Lost(s)
            /\ Over(s) /\ s \notin killed => Lost(s) = {}

(* Of a session that can be read at all the header is lost only to a torn  *)
(* line: the last session before it that left anything in the file was     *)
(* killed.  A session that was closed never costs a later one its header   *)
(* (recorder.py:76-96, 124-132).                                           *)
HeaderLossIsTorn ==
    \A n \in DOMAIN records :
        LET s == records[n].session
        IN  records[n].kind = "header" /\ ~Decodes(n) /\ (\E m \in Of(s) : Decodes(m))
                => \E r \in killed : /\ r < s /\ OnDisk(r)
                                     /\ \A t \in r + 1 .. s - 1 : ~OnDisk(t)

(* "A capture truncated by a hard kill ends in a partial line, and losing  *)
(* the last frame beats losing the file" (replay.py:71-72): whatever the   *)
(* format of the file, a kill costs no session more than the frames that   *)
(* were not flushed.                                                       *)
KillCostsLittle == \A s \in 1 .. session : Cheap(s)
=============================================================================
