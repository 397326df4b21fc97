------------------------ MODULE RecordSessionProofs ------------------------
(***************************************************************************)
(* What l2tca record guarantees of a capture, for any number of records    *)
(* and sessions, flush_every, plain and gzip files, and kills at any       *)
(* moment: the order in which its parts are taken up and down, and what a  *)
(* reader finds in the file.                                               *)
(***************************************************************************)
EXTENDS RecordSession, FiniteSetTheorems, NaturalsInduction, SequenceTheorems, TLAPS

-----------------------------------------------------------------------------
(* The capture file, whoever calls the recorder.                           *)

Written == disk \o pending

(* The first k tokens of t hold the whole line of record n, behind a line  *)
(* that is complete.                                                       *)
Placed(t, k, n) ==
    \E i \in 2 .. k - 2 :
        /\ t[i - 1].part = "newline"
        /\ t[i] = [record |-> n, part |-> "head"]
        /\ t[i + 1] = [record |-> n, part |-> "tail"]
        /\ t[i + 2] = [record |-> n, part |-> "newline"]

Frames(recs, s) == {n \in DOMAIN recs : recs[n].session = s /\ recs[n].kind # "header"}
Exposed(recs, t, k, s) == {n \in Frames(recs, s) : ~Placed(t, k, n)}

Token == [record : Nat, part : {"head", "tail", "newline"}]
Record == [kind : {"header", "msg", "control"}, session : Nat]

CaptureTypes ==
    /\ records \in Seq(Record) /\ disk \in Seq(Token) /\ pending \in Seq(Token)
    /\ session \in Nat /\ sinceFlush \in Nat /\ cut \in Nat
    /\ compressed \in BOOLEAN /\ opened \in BOOLEAN
    /\ killed \subseteq 1 .. session
    /\ ~opened => pending = << >>
    /\ opened => session \notin killed /\ session > 0

Bounded ==
    /\ Len(Written) <= 3 * Len(records) /\ Len(records) <= MaxRecords
    /\ \A i \in DOMAIN Written : Written[i].record \in DOMAIN records

(* A session begins with its header.                                       *)
HeadersFirst ==
    /\ \A n \in DOMAIN records : records[n].session \in 1 .. session
    /\ \A m \in DOMAIN records, n \in DOMAIN records :
          records[m].kind = "header" /\ n < m => records[n].session < records[m].session

(* Before any token of a record stand the lines of all earlier frames of   *)
(* its session, also when a kill cut the file short.                       *)
InOrder ==
    \A j \in DOMAIN Written :
        \A n \in Frames(records, records[Written[j].record].session) :
            n < Written[j].record => Placed(Written, j - 1, n)

(* The open session's lines are complete, in the file or in the buffers.   *)
LiveIsWhole ==
    opened =>
        /\ Len(Written) > 0 /\ Written[Len(Written)].part = "newline"
        /\ \A n \in Frames(records, session) : Placed(Written, Len(Written), n)

ClosedIsSafe ==
    \A s \in (1 .. session) \ killed : Over(s) => \A n \in Frames(records, s) : Placed(Written, Len(disk), n)

ControlIsSafe ==
    \A n \in DOMAIN records : records[n].kind = "control" => Placed(Written, Len(disk), n)

(* What is exposed to a kill is what was written since the last flush.     *)
ExposureIsBounded ==
    /\ opened => /\ Exposed(records, Written, Len(disk), session) \subseteq Len(records) - sinceFlush + 1 .. Len(records)
                 /\ sinceFlush < FlushEvery \/ Exposed(records, Written, Len(disk), session) = {}
    /\ \A s \in 1 .. session : Cardinality(Exposed(records, Written, Len(disk), s)) < FlushEvery

(* A gzip file is spoiled only when a session appends behind one that was  *)
(* killed and had left something in it.                                    *)
Spoiling == compressed /\ \E s \in killed : s < session /\ OnDisk(s)
SpoiledIsTorn == cut # Whole => Spoiling

CaptureInv ==
    /\ CaptureTypes /\ Bounded /\ HeadersFirst /\ InOrder /\ LiveIsWhole
    /\ ClosedIsSafe /\ ControlIsSafe /\ ExposureIsBounded /\ SpoiledIsTorn

-----------------------------------------------------------------------------
(* Where a line stands depends on nothing behind it.                       *)
LEMMA PlacedStays ==
    ASSUME NEW t, NEW u, NEW k \in Nat, NEW l \in Nat, NEW n, k <= l,
           \A i \in 1 .. k : u[i] = t[i], Placed(t, k, n)
    PROVE  Placed(u, l, n)
<1>1. PICK i \in 2 .. k - 2 :
        /\ t[i - 1].part = "newline"
        /\ t[i] = [record |-> n, part |-> "head"]
        /\ t[i + 1] = [record |-> n, part |-> "tail"]
        /\ t[i + 2] = [record |-> n, part |-> "newline"]
  BY DEF Placed
<1>2. /\ i \in 2 .. l - 2
      /\ u[i - 1] = t[i - 1] /\ u[i] = t[i] /\ u[i + 1] = t[i + 1] /\ u[i + 2] = t[i + 2]
  OBVIOUS
<1> QED BY <1>1, <1>2 DEF Placed

LEMMA Joined ==
    ASSUME NEW d \in Seq(Token), NEW p \in Seq(Token)
    PROVE  /\ d \o p \in Seq(Token) /\ Len(d \o p) = Len(d) + Len(p)
           /\ DOMAIN (d \o p) = 1 .. Len(d \o p) /\ DOMAIN d = 1 .. Len(d)
           /\ \A i \in 1 .. Len(d) : (d \o p)[i] = d[i]
           /\ \A i \in 1 .. Len(p) : (d \o p)[Len(d) + i] = p[i]
           /\ Len(d) \in Nat /\ Len(p) \in Nat
BY ConcatProperties, LenProperties

LEMMA EmptyIsSeq == << >> \in Seq(Token)
BY EmptySeq

LEMMA WrittenIsSeq ==
    ASSUME CaptureTypes
    PROVE  /\ Written \in Seq(Token) /\ Len(Written) = Len(disk) + Len(pending)
           /\ DOMAIN Written = 1 .. Len(Written) /\ DOMAIN disk = 1 .. Len(disk)
           /\ \A i \in 1 .. Len(disk) : Written[i] = disk[i]
           /\ Len(disk) \in Nat /\ Len(pending) \in Nat /\ Len(records) \in Nat
           /\ DOMAIN records = 1 .. Len(records)
<1>1. disk \in Seq(Token) /\ pending \in Seq(Token) /\ records \in Seq(Record)
  BY DEF CaptureTypes
<1> QED BY <1>1, Joined DEF Written

(* Bytes that move on towards the disk leave the rest as it is.            *)
LEMMA ReachesMoves ==
    ASSUME NEW tokens \in Seq(Token), CaptureTypes, SpoiledIsTorn, Bounded, Reaches(tokens),
           MaxRecords \in Nat, opened
    PROVE  /\ cut' \in Nat /\ compressed' = compressed
           /\ disk' = disk \o tokens
           /\ cut' # Whole => Spoiling
<1>1. Len(disk) \in Nat
  BY WrittenIsSeq
<1>2. \A s \in killed : s < session
  BY DEF CaptureTypes
<1> QED BY <1>1, <1>2 DEF Reaches, Torn, SpoiledIsTorn, Spoiling, CaptureTypes, Whole

-----------------------------------------------------------------------------
(* The three operations that write a record.                               *)
Appends == Open \/ WriteMessage \/ WriteControl

LEMMA LineIsSeq ==
    ASSUME NEW n \in Nat
    PROVE  /\ Line(n) \in Seq(Token) /\ Len(Line(n)) = 3
           /\ Line(n)[1] = [record |-> n, part |-> "head"]
           /\ Line(n)[2] = [record |-> n, part |-> "tail"]
           /\ Line(n)[3] = [record |-> n, part |-> "newline"]
BY DEF Line, Token

LEMMA Regroups ==
    ASSUME NEW s \in Seq(Token), NEW t \in Seq(Token), NEW u \in Seq(Token)
    PROVE  s \o (t \o u) = (s \o t) \o u
BY ConcatAssociative

(* One record more, and its line behind all that was written.              *)
LEMMA AppendsAdds ==
    ASSUME CaptureTypes, Bounded, SpoiledIsTorn, MaxRecords \in Nat, FlushEvery \in Nat, Appends
    PROVE  LET N == Len(records) + 1
           IN  /\ Len(records') = N /\ records' \in Seq(Record)
               /\ \A n \in DOMAIN records : records'[n] = records[n]
               /\ records'[N].session = session'
               /\ Written' = Written \o Line(N)
               /\ Len(disk') >= Len(disk)
               /\ N <= MaxRecords /\ opened'
               /\ CaptureTypes' /\ compressed' = compressed
               /\ cut' # Whole => Spoiling
<1> DEFINE N == Len(records) + 1
<1>1. /\ disk \in Seq(Token) /\ pending \in Seq(Token) /\ records \in Seq(Record)
      /\ Len(records) \in Nat /\ N \in Nat
      /\ Len(disk) \in Nat
  BY WrittenIsSeq DEF CaptureTypes
<1>2. ASSUME NEW kind \in {"header", "msg", "control"}, session' \in Nat, Log(kind)
      PROVE  /\ Len(records') = N /\ records' \in Seq(Record)
             /\ \A n \in DOMAIN records : records'[n] = records[n]
             /\ records'[N] = [kind |-> kind, session |-> session']
             /\ NewLine = Line(N)
  <2>1. [kind |-> kind, session |-> session'] \in Record
    BY <1>2 DEF Record
  <2>2. records' = Append(records, [kind |-> kind, session |-> session'])
    BY <1>2 DEF Log
  <2> QED BY <1>1, <2>1, <2>2 DEF NewLine
<1>3. Line(N) \in Seq(Token)
  BY <1>1, LineIsSeq
<1>7. /\ disk \o (pending \o Line(N)) = (disk \o pending) \o Line(N)
      /\ pending \o Line(N) \in Seq(Token)
  <2>1. disk \in Seq(Token) /\ pending \in Seq(Token)
    BY <1>1
  <2> HIDE DEF N
  <2>2. disk \o (pending \o Line(N)) = (disk \o pending) \o Line(N)
    BY <1>3, <2>1, Regroups, Zenon
  <2>3. pending \o Line(N) \in Seq(Token)
    BY <1>3, <2>1, ConcatProperties, Zenon
  <2> QED BY <2>2, <2>3
<1>4. CASE Open
  <2>1. session' = session + 1 /\ opened' /\ ~opened /\ pending = << >> /\ Log("header")
        /\ UNCHANGED <<compressed, cut, disk, killed>> /\ pending' = NewLine
        /\ Len(records) < MaxRecords /\ sinceFlush' = 1
    BY <1>4 DEF Open, CaptureTypes
  <2>2. session' \in Nat /\ killed' \subseteq 1 .. session' /\ session' \notin killed'
    BY <2>1 DEF CaptureTypes
  <2>3. Written = disk /\ Written' = disk \o Line(N)
    BY <1>1, <1>2, <2>1, <2>2, ConcatEmptySeq DEF Written
  <2>4. CaptureTypes'
    BY <1>1, <1>2, <1>3, <2>1, <2>2 DEF CaptureTypes
  <2> QED BY <1>1, <1>2, <2>1, <2>2, <2>3, <2>4 DEF SpoiledIsTorn, Record
<1>5. ASSUME NEW kind \in {"msg", "control"}, WriteFlushed \/ WriteBuffered, Log(kind), opened,
             UNCHANGED <<opened, session, killed>>, Len(records) < MaxRecords
      PROVE  /\ Written' = Written \o Line(N)
             /\ Len(disk') >= Len(disk)
             /\ CaptureTypes' /\ compressed' = compressed
             /\ cut' # Whole => Spoiling
  <2>1. session' \in Nat /\ NewLine = Line(N) /\ records' \in Seq(Record)
    BY <1>2, <1>5 DEF CaptureTypes
  <2>2. CASE WriteFlushed
    <3>1. /\ Reaches(pending \o Line(N)) /\ pending' = << >> /\ sinceFlush' = 0
          /\ pending \o Line(N) \in Seq(Token)
      BY <1>1, <1>3, <2>1, <2>2, ConcatProperties DEF WriteFlushed
    <3>2. /\ cut' \in Nat /\ compressed' = compressed
          /\ disk' = disk \o (pending \o Line(N))
          /\ cut' # Whole => Spoiling
      BY <1>5, <3>1, ReachesMoves
    <3>3. disk' = Written \o Line(N) /\ disk' \in Seq(Token) /\ Len(disk') >= Len(disk)
      <4>1. disk \o (pending \o Line(N)) = Written \o Line(N)
        <5>1. disk \o (pending \o Line(N)) = (disk \o pending) \o Line(N)
          BY <1>7, SMT
        <5> QED BY <5>1 DEF Written
      <4>2. /\ disk \o (pending \o Line(N)) \in Seq(Token)
            /\ Len(disk \o (pending \o Line(N))) = Len(disk) + Len(pending \o Line(N))
            /\ Len(pending \o Line(N)) \in Nat
        BY <1>1, <3>1, Joined
      <4>3. Len(disk') = Len(disk) + Len(pending \o Line(N))
        BY <3>2, <4>2
      <4>4. Len(disk') >= Len(disk)
        BY <1>1, <4>2, <4>3
      <4> QED BY <3>2, <4>1, <4>2, <4>4
    <3>4. Written' = disk'
      BY <3>1, <3>3, ConcatEmptySeq DEF Written
    <3> QED BY <1>5, <2>1, <3>1, <3>2, <3>3, <3>4 DEF CaptureTypes
  <2>3. CASE WriteBuffered
    <3>1. /\ pending' = pending \o Line(N) /\ sinceFlush' = sinceFlush + 1
          /\ UNCHANGED <<compressed, cut, disk>>
      BY <2>1, <2>3 DEF WriteBuffered
    <3>2. Written' = Written \o Line(N) /\ pending' \in Seq(Token)
      <4>1. /\ disk \o (pending \o Line(N)) = (disk \o pending) \o Line(N)
            /\ pending \o Line(N) \in Seq(Token)
        BY <1>7, SMT
      <4>2. Written' = disk \o (pending \o Line(N))
        BY <3>1 DEF Written
      <4> QED BY <3>1, <4>1, <4>2 DEF Written
    <3> QED BY <1>1, <1>5, <2>1, <3>1, <3>2 DEF CaptureTypes, SpoiledIsTorn
  <2> QED BY <1>5, <2>2, <2>3
<1>6. CASE WriteMessage \/ WriteControl
  <2>1. PICK kind \in {"msg", "control"} :
          /\ WriteFlushed \/ WriteBuffered
          /\ Log(kind) /\ opened /\ UNCHANGED <<opened, session, killed>>
          /\ Len(records) < MaxRecords
    BY <1>6 DEF WriteMessage, WriteControl
  <2>2. session' \in Nat
    BY <2>1 DEF CaptureTypes
  <2> QED BY <1>1, <1>2, <1>5, <2>1, <2>2
<1> QED BY <1>4, <1>6 DEF Appends

(* Open begins a session with a header; the others go on with one, and     *)
(* either flush or stay below flush_every.                                 *)
LEMMA AppendsIs ==
    ASSUME CaptureTypes, FlushEvery \in Nat, Appends
    PROVE  LET N == Len(records) + 1
           IN  /\ killed' = killed
               /\ \/ /\ session' = session + 1 /\ ~opened /\ sinceFlush' = 1
                     /\ records'[N].kind = "header"
                  \/ /\ session' = session /\ opened
                     /\ records'[N].kind \in {"msg", "control"}
                     /\ \/ sinceFlush' = 0 /\ pending' = << >>
                        \/ /\ sinceFlush' = sinceFlush + 1 /\ sinceFlush' < FlushEvery
                           /\ records'[N].kind = "msg"
<1> DEFINE N == Len(records) + 1
<1>1. records \in Seq(Record)
  BY DEF CaptureTypes
<1>2. ASSUME NEW kind, Log(kind)
      PROVE  records'[N].kind = kind
  BY <1>1, <1>2 DEF Log
<1>3. CASE Open
  BY <1>2, <1>3 DEF Open
<1>4. CASE WriteMessage
  <2>1. records'[N].kind = "msg" /\ UNCHANGED <<opened, session, killed>> /\ opened
    BY <1>2, <1>4 DEF WriteMessage
  <2>2. \/ sinceFlush' = 0 /\ pending' = << >>
        \/ sinceFlush' = sinceFlush + 1 /\ ~(sinceFlush + 1 >= FlushEvery)
    BY <1>4 DEF WriteMessage, WriteFlushed, WriteBuffered, DueByCount
  <2>3. sinceFlush \in Nat
    BY DEF CaptureTypes
  <2> QED BY <2>1, <2>2, <2>3
<1>5. CASE WriteControl
  BY <1>2, <1>5 DEF WriteControl, WriteFlushed
<1> QED BY <1>3, <1>4, <1>5 DEF Appends

(* The same, token by token and session by session.                        *)
New == Len(records) + 1
End == Len(Written)

LEMMA AppendsShape ==
    ASSUME CaptureInv, MaxRecords \in Nat, FlushEvery \in Nat, Appends
    PROVE  /\ End \in Nat /\ End' = End + 3
           /\ \A i \in 1 .. End : Written'[i] = Written[i]
           /\ Written'[End + 1] = [record |-> New, part |-> "head"]
           /\ Written'[End + 2] = [record |-> New, part |-> "tail"]
           /\ Written'[End + 3] = [record |-> New, part |-> "newline"]
           /\ DOMAIN Written = 1 .. End /\ DOMAIN Written' = 1 .. End + 3
           /\ Len(disk) \in 0 .. End /\ Len(disk') \in Len(disk) .. End + 3
           /\ pending' = << >> => Len(disk') = End + 3
           /\ \A i \in 1 .. Len(disk) : i \in DOMAIN disk' /\ disk'[i] = disk[i]
           /\ DOMAIN records = 1 .. New - 1 /\ DOMAIN records' = 1 .. New /\ New \in Nat
<1> USE DEF CaptureInv
<1>1. /\ Len(records') = New /\ Written' = Written \o Line(New) /\ Len(disk') >= Len(disk)
      /\ CaptureTypes'
  BY AppendsAdds DEF New
<1>2. /\ Written \in Seq(Token) /\ End = Len(disk) + Len(pending) /\ New \in Nat
      /\ DOMAIN Written = 1 .. End /\ DOMAIN records = 1 .. New - 1
      /\ Len(disk) \in Nat /\ Len(pending) \in Nat /\ End \in Nat
  BY WrittenIsSeq DEF New, End
<1>3. disk' \in Seq(Token) /\ pending' \in Seq(Token) /\ records' \in Seq(Record)
  BY <1>1 DEF CaptureTypes
<1>4. /\ End' = Len(disk') + Len(pending') /\ DOMAIN records' = 1 .. New
      /\ DOMAIN Written' = 1 .. End' /\ Len(disk') \in Nat /\ Len(pending') \in Nat
  BY <1>1, <1>3, Joined DEF Written, End
<1>5. /\ Len(Written \o Line(New)) = End + 3
      /\ \A i \in 1 .. End : (Written \o Line(New))[i] = Written[i]
      /\ \A i \in 1 .. 3 : (Written \o Line(New))[End + i] = Line(New)[i]
  <2> DEFINE l == Line(New)
  <2>1. l \in Seq(Token) /\ Len(l) = 3
    BY <1>2, LineIsSeq
  <2> HIDE DEF l
  <2>2. /\ Len(Written \o l) = End + Len(l)
        /\ \A i \in 1 .. End : (Written \o l)[i] = Written[i]
        /\ \A i \in 1 .. Len(l) : (Written \o l)[End + i] = l[i]
    BY <1>2, <2>1, Joined DEF End
  <2> QED BY <2>1, <2>2 DEF l
<1>6. /\ End' = End + 3
      /\ \A i \in 1 .. End : Written'[i] = Written[i]
      /\ \A i \in 1 .. 3 : Written'[End + i] = Line(New)[i]
  BY <1>1, <1>5 DEF End
<1>7. /\ Written'[End + 1] = Line(New)[1] /\ Written'[End + 2] = Line(New)[2]
      /\ Written'[End + 3] = Line(New)[3]
  BY <1>6
<1>8. /\ Written'[End + 1] = [record |-> New, part |-> "head"]
      /\ Written'[End + 2] = [record |-> New, part |-> "tail"]
      /\ Written'[End + 3] = [record |-> New, part |-> "newline"]
  BY <1>2, <1>7, LineIsSeq
<1>9. Len(disk) \in 0 .. End /\ Len(disk') \in Len(disk) .. End + 3
  BY <1>1, <1>2, <1>4, <1>6
<1>10. pending' = << >> => Len(disk') = End + 3
  BY <1>4, <1>6
<1>11. \A i \in 1 .. Len(disk) : i \in DOMAIN disk' /\ disk'[i] = disk[i]
  <2>1. \A i \in 1 .. Len(disk) : i \in 1 .. End /\ Written[i] = disk[i]
    BY <1>2, WrittenIsSeq
  <2>2. DOMAIN disk' = 1 .. Len(disk') /\ \A i \in 1 .. Len(disk') : Written'[i] = disk'[i]
    BY <1>3, Joined DEF Written
  <2> TAKE i \in 1 .. Len(disk)
  <2>3. i \in 1 .. End /\ Written[i] = disk[i]
    BY <2>1
  <2>4. Written'[i] = Written[i]
    BY <1>6, <2>3
  <2>5. i \in 1 .. Len(disk')
    BY <1>1, <1>2, <1>4
  <2>6. disk'[i] = Written'[i]
    BY <2>2, <2>5
  <2> QED BY <2>2, <2>3, <2>4, <2>5, <2>6
<1> QED BY <1>2, <1>4, <1>6, <1>8, <1>9, <1>10, <1>11

LEMMA AppendsKeep ==
    ASSUME CaptureInv, Appends
    PROVE  CaptureInv'
<1> MaxRecords \in Nat /\ FlushEvery \in Nat /\ FlushEvery > 0
  BY CaptureAssumption
<1>1. /\ records' \in Seq(Record) /\ records'[New].session = session'
      /\ \A n \in DOMAIN records : records'[n] = records[n]
      /\ New <= MaxRecords /\ opened' /\ Len(records') = New /\ CaptureTypes'
      /\ compressed' = compressed
      /\ cut' # Whole => Spoiling
  BY AppendsAdds DEF CaptureInv, New
<1>2. /\ killed' = killed
      /\ \/ session' = session + 1 /\ ~opened /\ records'[New].kind = "header"
         \/ /\ session' = session /\ opened
            /\ records'[New].kind \in {"msg", "control"}
            /\ \/ sinceFlush' = 0 /\ pending' = << >>
               \/ /\ sinceFlush' = sinceFlush + 1 /\ sinceFlush' < FlushEvery
                  /\ records'[New].kind = "msg"
  BY AppendsIs DEF CaptureInv, New
<1>3. session \in Nat /\ session' \in Nat /\ sinceFlush \in Nat /\ killed \subseteq 1 .. session
  BY <1>2 DEF CaptureInv, CaptureTypes
<1>4. /\ DOMAIN records = 1 .. New - 1 /\ DOMAIN records' = 1 .. New /\ New \in Nat
      /\ Len(records) = New - 1 /\ New > 0
  BY AppendsShape DEF CaptureInv, New
<1>5. \A s : Frames(records', s) = Frames(records, s) \cup
          (IF s = session' /\ records'[New].kind # "header" THEN {New} ELSE {})
  BY <1>1, <1>4 DEF Frames
<1>6. session' = session + 1 => Frames(records, session') = {}
  BY <1>3 DEF CaptureInv, HeadersFirst, Frames
<1>7. /\ End \in Nat /\ End' = End + 3 /\ Len(disk) \in 0 .. End
      /\ Len(disk') \in Len(disk) .. End + 3
      /\ \A i \in 1 .. End : Written'[i] = Written[i]
  BY AppendsShape DEF CaptureInv
<1>8. ASSUME NEW n, NEW k \in 0 .. End, NEW l \in Nat, k <= l, Placed(Written, k, n)
      PROVE  Placed(Written', l, n)
  <2>1. k \in Nat /\ \A i \in 1 .. k : Written'[i] = Written[i]
    BY <1>7
  <2> QED BY <1>8, <2>1, PlacedStays
<1>9. \A n : Placed(Written, Len(disk), n) => Placed(Written', Len(disk'), n)
  BY <1>7, <1>8
<1>10. \A n \in Frames(records, session') : Placed(Written, End, n)
  BY <1>2, <1>6 DEF CaptureInv, LiveIsWhole, End
<1>11. records'[New].kind # "header" => Placed(Written', End + 3, New)
  <2>1. SUFFICES ASSUME records'[New].kind # "header"
                 PROVE  Placed(Written', End + 3, New)
    OBVIOUS
  <2>2. End > 0 /\ Written[End].part = "newline"
    BY <1>2, <2>1 DEF CaptureInv, LiveIsWhole, End
  <2>3. /\ Written'[(End + 1) - 1] = Written[End]
        /\ Written'[End + 1] = [record |-> New, part |-> "head"]
        /\ Written'[(End + 1) + 1] = [record |-> New, part |-> "tail"]
        /\ Written'[(End + 1) + 2] = [record |-> New, part |-> "newline"]
        /\ End + 1 \in 2 .. (End + 3) - 2
    BY <1>7, <2>2, AppendsShape DEF CaptureInv
  <2> QED BY <2>2, <2>3 DEF Placed
<1>12. \A n \in Frames(records', session') : Placed(Written', End + 3, n)
  BY <1>5, <1>7, <1>8, <1>10, <1>11
<1>13. Bounded'
  <2>1. \A i \in 1 .. End : Written[i].record \in DOMAIN records
    BY AppendsShape DEF CaptureInv, Bounded
  <2>2. \A i \in 1 .. End + 3 : Written'[i].record \in DOMAIN records'
    <3> TAKE i \in 1 .. End + 3
    <3>1. i \in 1 .. End \/ i = End + 1 \/ i = End + 2 \/ i = End + 3
      BY <1>7
    <3>2. ~(i \in 1 .. End) => Written'[i].record = New
      BY <3>1, AppendsShape DEF CaptureInv
    <3> QED BY <1>4, <1>7, <2>1, <3>2
  <2>3. DOMAIN Written' = 1 .. End + 3 /\ End' <= 3 * Len(records')
    BY <1>1, <1>4, <1>7, AppendsShape DEF CaptureInv, Bounded, End
  <2> QED BY <1>1, <2>2, <2>3 DEF Bounded, End
<1>14. HeadersFirst'
  <2>1. \A n \in 1 .. New - 1 : records[n].session \in 1 .. session
    BY <1>4 DEF CaptureInv, HeadersFirst
  <2>2. \A n \in 1 .. New : records'[n].session \in 1 .. session'
    <3> TAKE n \in 1 .. New
    <3>1. CASE n = New
      BY <1>1, <1>2, <1>3, <3>1 DEF CaptureInv, CaptureTypes
    <3>2. CASE n \in 1 .. New - 1
      BY <1>1, <1>2, <1>3, <1>4, <2>1, <3>2
    <3> QED BY <1>4, <3>1, <3>2
  <2>3. ASSUME NEW m \in 1 .. New, NEW n \in 1 .. New, records'[m].kind = "header", n < m
        PROVE  records'[n].session < records'[m].session
    <3>1. n \in 1 .. New - 1 /\ records'[n] = records[n]
      BY <1>1, <1>4, <2>3
    <3>2. CASE m = New
      BY <1>1, <1>2, <1>3, <2>1, <2>3, <3>1, <3>2
    <3>3. CASE m \in 1 .. New - 1
      BY <1>1, <1>4, <2>3, <3>1, <3>3 DEF CaptureInv, HeadersFirst
    <3> QED BY <1>4, <3>2, <3>3
  <2> QED BY <1>4, <2>2, <2>3 DEF HeadersFirst
<1>15. InOrder'
  <2> SUFFICES ASSUME NEW j \in 1 .. End + 3,
                      NEW n \in Frames(records', records'[Written'[j].record].session),
                      n < Written'[j].record
               PROVE  Placed(Written', j - 1, n)
    BY AppendsShape DEF CaptureInv, InOrder
  <2>1. CASE j \in 1 .. End
    <3>1. j \in DOMAIN Written /\ Written[j].record \in 1 .. New - 1 /\ Written'[j] = Written[j]
      BY <1>4, <1>7, <2>1, AppendsShape DEF CaptureInv, Bounded
    <3>2. records'[Written'[j].record] = records[Written[j].record] /\ n # New
      BY <1>1, <1>4, <3>1
    <3>3. n \in Frames(records, records[Written[j].record].session)
      BY <1>5, <3>2
    <3>4. Placed(Written, j - 1, n)
      BY <3>1, <3>3 DEF CaptureInv, InOrder
    <3> QED BY <1>7, <1>8, <2>1, <3>4
  <2>2. CASE ~(j \in 1 .. End)
    <3>1. j = End + 1 \/ j = End + 2 \/ j = End + 3
      BY <1>7, <2>2
    <3>2. Written'[j].record = New
      BY <3>1, AppendsShape DEF CaptureInv
    <3>3. n \in Frames(records, session')
      BY <1>1, <1>4, <1>5, <3>2
    <3>4. j - 1 \in Nat /\ End <= j - 1 /\ End \in 0 .. End
      BY <1>7, <3>1
    <3> QED BY <1>8, <1>10, <3>3, <3>4
  <2> QED BY <2>1, <2>2
<1>16. LiveIsWhole'
  <2>1. Written'[End + 3].part = "newline"
    BY AppendsShape DEF CaptureInv
  <2> QED BY <1>7, <1>12, <2>1 DEF LiveIsWhole, End
<1>17. ClosedIsSafe'
  <2> SUFFICES ASSUME NEW s \in (1 .. session') \ killed, s < session', NEW n \in Frames(records', s)
               PROVE  Placed(Written', Len(disk'), n)
    BY <1>1, <1>2 DEF ClosedIsSafe, Over
  <2>1. n \in Frames(records, s) /\ s \in (1 .. session) \ killed /\ Over(s)
    BY <1>2, <1>3, <1>5 DEF Over
  <2> QED BY <1>9, <2>1 DEF CaptureInv, ClosedIsSafe
<1>18. pending' = << >> => \A n : Placed(Written', End + 3, n) => Placed(Written', Len(disk'), n)
  BY AppendsShape DEF CaptureInv
<1>19. ControlIsSafe'
  BY <1>1, <1>2, <1>4, <1>9, <1>11, <1>18 DEF CaptureInv, ControlIsSafe
<1>20. ExposureIsBounded'
  <2>1. \A s : Exposed(records, Written, Len(disk), s) \subseteq 1 .. New - 1
    BY <1>4 DEF Exposed, Frames
  <2>2. \A s : s # session' => Exposed(records', Written', Len(disk'), s) \subseteq Exposed(records, Written, Len(disk), s)
    BY <1>5, <1>9 DEF Exposed
  <2>3. ASSUME NEW s \in 1 .. session, s # session'
        PROVE  Cardinality(Exposed(records', Written', Len(disk'), s)) < FlushEvery
    <3>1. IsFiniteSet(1 .. New - 1)
      BY <1>4, FS_Interval
    <3>2. IsFiniteSet(Exposed(records, Written, Len(disk), s))
      BY <2>1, <3>1, FS_Subset
    <3>3. Cardinality(Exposed(records', Written', Len(disk'), s)) <= Cardinality(Exposed(records, Written, Len(disk), s)) /\ IsFiniteSet(Exposed(records', Written', Len(disk'), s))
      BY <2>2, <2>3, <3>2, FS_Subset
    <3>4. Cardinality(Exposed(records, Written, Len(disk), s)) < FlushEvery
      BY DEF CaptureInv, ExposureIsBounded
    <3>5. Cardinality(Exposed(records', Written', Len(disk'), s)) \in Nat /\ Cardinality(Exposed(records, Written, Len(disk), s)) \in Nat
      BY <3>2, <3>3, FS_CardinalityType
    <3> QED BY <3>3, <3>4, <3>5
  <2>4. /\ Exposed(records', Written', Len(disk'), session') \subseteq Len(records') - sinceFlush' + 1 .. Len(records')
        /\ sinceFlush' < FlushEvery \/ Exposed(records', Written', Len(disk'), session') = {}
        /\ Cardinality(Exposed(records', Written', Len(disk'), session')) < FlushEvery
    <3>1. CASE session' = session + 1 \/ pending' = << >>
      <4>1. Exposed(records', Written', Len(disk'), session') = {}
        BY <1>5, <1>6, <1>2, <1>3, <1>12, <1>18, <3>1 DEF Exposed
      <4> QED BY <4>1, FS_EmptySet
    <3>2. CASE session' = session /\ sinceFlush' = sinceFlush + 1 /\ sinceFlush' < FlushEvery /\ opened
      <4>1. Exposed(records', Written', Len(disk'), session') \subseteq Exposed(records, Written, Len(disk), session) \cup {New}
        BY <1>5, <1>9, <3>2 DEF Exposed
      <4>2. Exposed(records, Written, Len(disk), session) \subseteq Len(records) - sinceFlush + 1 .. Len(records)
        BY <3>2 DEF CaptureInv, ExposureIsBounded
      <4>3. Exposed(records', Written', Len(disk'), session') \subseteq New - sinceFlush' + 1 .. New
        <5>1. SUFFICES ASSUME NEW e \in Exposed(records', Written', Len(disk'), session')
                       PROVE  e \in New - sinceFlush' + 1 .. New
          OBVIOUS
        <5>2. CASE e = New
          BY <1>3, <1>4, <3>2, <5>2
        <5>3. CASE e \in Len(records) - sinceFlush + 1 .. Len(records)
          BY <1>3, <1>4, <3>2, <5>3
        <5> QED BY <4>1, <4>2, <5>2, <5>3
      <4>4. /\ IsFiniteSet(New - sinceFlush' + 1 .. New)
            /\ Cardinality(New - sinceFlush' + 1 .. New) = sinceFlush'
        <5>1. New - sinceFlush' + 1 \in Int /\ New \in Int /\ sinceFlush' \in Nat
          BY <1>3, <1>4, <3>2
        <5>2. /\ IsFiniteSet(New - sinceFlush' + 1 .. New)
              /\ Cardinality(New - sinceFlush' + 1 .. New) =
                    IF New - sinceFlush' + 1 > New THEN 0 ELSE New - (New - sinceFlush' + 1) + 1
          BY <5>1, FS_Interval
        <5> QED BY <1>3, <1>4, <3>2, <5>1, <5>2
      <4>5. Cardinality(Exposed(records', Written', Len(disk'), session')) <= sinceFlush' /\ IsFiniteSet(Exposed(records', Written', Len(disk'), session'))
        <5> DEFINE E == Exposed(records', Written', Len(disk'), session')
                   I == New - sinceFlush' + 1 .. New
        <5>1. E \in SUBSET I /\ IsFiniteSet(I) /\ Cardinality(I) = sinceFlush'
          BY <4>3, <4>4
        <5> HIDE DEF E, I
        <5>2. IsFiniteSet(E) /\ Cardinality(E) <= Cardinality(I)
          BY <5>1, FS_Subset
        <5> QED BY <5>1, <5>2 DEF E
      <4>6. Cardinality(Exposed(records', Written', Len(disk'), session')) \in Nat
        BY <4>5, FS_CardinalityType
      <4> QED BY <1>1, <1>3, <3>2, <4>3, <4>5, <4>6
    <3> QED BY <1>2, <3>1, <3>2
  <2>5. \A s \in 1 .. session' : s # session' => s \in 1 .. session
    BY <1>2, <1>3
  <2> QED BY <2>3, <2>4, <2>5 DEF ExposureIsBounded
<1>21. SpoiledIsTorn'
  <2>1. SUFFICES ASSUME NEW s \in killed, OnDisk(s), s < session PROVE OnDisk(s)' /\ s < session'
    BY <1>1, <1>2 DEF SpoiledIsTorn, Spoiling
  <2>2. PICK i \in DOMAIN disk : records[disk[i].record].session = s
    BY <2>1 DEF OnDisk
  <2>3. i \in 1 .. Len(disk) /\ i \in DOMAIN Written /\ Written[i] = disk[i]
    BY <1>7, <2>2, WrittenIsSeq DEF CaptureInv, End
  <2>4. disk[i].record \in DOMAIN records
    BY <2>3 DEF CaptureInv, Bounded
  <2>5. i \in DOMAIN disk' /\ disk'[i] = disk[i]
    BY <2>3, AppendsShape DEF CaptureInv
  <2>6. s < session'
    BY <1>2, <1>3, <2>1
  <2> QED BY <1>1, <2>2, <2>4, <2>5, <2>6 DEF OnDisk
<1> QED BY <1>1, <1>13, <1>14, <1>15, <1>16, <1>17, <1>19, <1>20, <1>21 DEF CaptureInv

-----------------------------------------------------------------------------
(* Nothing is written: tokens move on to the disk, or those that did not   *)
(* are lost with the process.                                              *)
Moved ==
    /\ UNCHANGED <<records, session>> /\ killed \subseteq killed' /\ CaptureTypes'
    /\ Len(disk) <= Len(disk') /\ End' <= End
    /\ \A i \in 1 .. End' : Written'[i] = Written[i]
    /\ opened' => opened /\ sinceFlush' = sinceFlush /\ End' = End
    /\ ~opened' => session \in killed' \/ (opened /\ Len(disk') = End /\ End' = End)
    /\ compressed' = compressed /\ (cut' # Whole => Spoiling)

LEMMA MovesKeep ==
    ASSUME CaptureInv, Moved
    PROVE  CaptureInv'
<1>0. /\ UNCHANGED <<records, session>> /\ killed \subseteq killed' /\ CaptureTypes'
      /\ Len(disk) <= Len(disk') /\ End' <= End
      /\ \A i \in 1 .. End' : Written'[i] = Written[i]
  BY DEF Moved
<1>1. /\ End \in Nat /\ DOMAIN Written = 1 .. End /\ Len(disk) \in 0 .. End
      /\ \A i \in 1 .. Len(disk) : Written[i] = disk[i]
      /\ Len(records) \in Nat /\ DOMAIN records = 1 .. Len(records) /\ session \in Nat
      /\ DOMAIN disk = 1 .. Len(disk)
  BY WrittenIsSeq DEF CaptureInv, CaptureTypes, End
<1>2. /\ End' \in Nat /\ DOMAIN Written' = 1 .. End' /\ Len(disk') \in 0 .. End'
      /\ \A i \in 1 .. Len(disk') : Written'[i] = disk'[i]
      /\ DOMAIN disk' = 1 .. Len(disk')
  <2>1. disk' \in Seq(Token) /\ pending' \in Seq(Token)
    BY <1>0 DEF CaptureTypes
  <2> QED BY <1>0, <2>1, Joined DEF Written, End
<1>3. \A i \in 1 .. Len(disk) : i \in DOMAIN disk' /\ disk'[i] = disk[i]
  <2> TAKE i \in 1 .. Len(disk)
  <2>1. i \in 1 .. Len(disk') /\ i \in 1 .. End'
    BY <1>0, <1>1, <1>2
  <2>2. Written'[i] = Written[i] /\ Written'[i] = disk'[i]
    BY <1>0, <1>2, <2>1
  <2> QED BY <1>1, <1>2, <2>1, <2>2
<1>4. ASSUME NEW n, NEW k \in 0 .. End', NEW l \in Nat, k <= l, Placed(Written, k, n)
      PROVE  Placed(Written', l, n)
  <2>1. k \in Nat /\ \A i \in 1 .. k : Written'[i] = Written[i]
    <3>1. k \in Nat /\ \A i \in 1 .. k : i \in 1 .. End'
      BY <1>0, <1>2
    <3> QED BY <1>0, <3>1
  <2> QED BY <1>4, <2>1, PlacedStays
<1>5. Len(disk) \in 0 .. End' /\ Len(disk') \in Nat /\ Len(disk) <= Len(disk')
  BY <1>0, <1>1, <1>2
<1>6. \A n : Placed(Written, Len(disk), n) => Placed(Written', Len(disk'), n)
  BY <1>4, <1>5
<1>7. Bounded'
  <2>1. \A i \in DOMAIN Written' : Written'[i].record \in DOMAIN records'
    <3> TAKE i \in DOMAIN Written'
    <3>1. i \in DOMAIN Written /\ i \in 1 .. End'
      BY <1>0, <1>1, <1>2
    <3>2. Written'[i] = Written[i]
      BY <1>0, <3>1
    <3> QED BY <1>0, <3>1, <3>2 DEF CaptureInv, Bounded
  <2>2. Len(Written') <= 3 * Len(records) /\ Len(records) <= MaxRecords
    BY <1>0, <1>1, <1>2 DEF CaptureInv, Bounded, End
  <2> QED BY <1>0, <2>1, <2>2 DEF Bounded
<1>8. HeadersFirst'
  BY <1>0 DEF CaptureInv, HeadersFirst
<1>9. InOrder'
  <2> SUFFICES ASSUME NEW j \in 1 .. End',
                      NEW n \in Frames(records, records[Written'[j].record].session),
                      n < Written'[j].record
               PROVE  Placed(Written', j - 1, n)
    BY <1>0, <1>2 DEF InOrder
  <2>1. j \in DOMAIN Written
    BY <1>0, <1>1, <1>2
  <2>3. Written'[j] = Written[j]
    BY <1>0
  <2>2. Placed(Written, j - 1, n)
    BY <2>1, <2>3 DEF CaptureInv, InOrder
  <2> QED BY <1>2, <1>4, <2>2
<1>10. LiveIsWhole'
  <2> SUFFICES ASSUME opened'
               PROVE  /\ End' > 0 /\ Written'[End'].part = "newline"
                      /\ \A n \in Frames(records, session) : Placed(Written', End', n)
    BY <1>0 DEF LiveIsWhole, End
  <2>1. /\ End > 0 /\ Written[End].part = "newline" /\ End' = End
        /\ \A n \in Frames(records, session) : Placed(Written, End, n)
    BY DEF CaptureInv, LiveIsWhole, End, Moved
  <2>2. \A n \in Frames(records, session) : Placed(Written', End', n)
    BY <1>1, <1>4, <2>1
  <2> QED BY <1>0, <1>1, <2>1, <2>2
<1>11. ClosedIsSafe'
  <2> SUFFICES ASSUME NEW s \in (1 .. session) \ killed', s < session \/ ~opened',
                      NEW n \in Frames(records, s)
               PROVE  Placed(Written', Len(disk'), n)
    BY <1>0 DEF ClosedIsSafe, Over
  <2>1. CASE s < session
    BY <1>0, <1>6, <2>1 DEF CaptureInv, ClosedIsSafe, Over
  <2>2. CASE s = session
    <3>1. opened /\ Len(disk') = End /\ End' = End
      BY <2>2 DEF Moved
    <3>2. Placed(Written, End, n)
      BY <2>2, <3>1 DEF CaptureInv, LiveIsWhole, End
    <3> QED BY <1>1, <1>4, <3>1, <3>2
  <2> QED BY <1>1, <2>1, <2>2
<1>12. ControlIsSafe'
  BY <1>0, <1>6 DEF CaptureInv, ControlIsSafe
<1>13. ExposureIsBounded'
  <2>1. \A s : Exposed(records, Written', Len(disk'), s) \subseteq Exposed(records, Written, Len(disk), s)
    BY <1>6 DEF Exposed
  <2>2. ASSUME NEW s \in 1 .. session
        PROVE  Cardinality(Exposed(records, Written', Len(disk'), s)) < FlushEvery
    <3>1. IsFiniteSet(1 .. Len(records))
      BY <1>1, FS_Interval
    <3>2. IsFiniteSet(Exposed(records, Written, Len(disk), s))
      BY <1>1, <3>1, FS_Subset DEF Exposed, Frames
    <3>3. /\ IsFiniteSet(Exposed(records, Written', Len(disk'), s))
          /\ Cardinality(Exposed(records, Written', Len(disk'), s))
                <= Cardinality(Exposed(records, Written, Len(disk), s))
      BY <2>1, <3>2, FS_Subset
    <3>4. Cardinality(Exposed(records, Written, Len(disk), s)) < FlushEvery
      BY DEF CaptureInv, ExposureIsBounded
    <3>5. /\ Cardinality(Exposed(records, Written', Len(disk'), s)) \in Nat
          /\ Cardinality(Exposed(records, Written, Len(disk), s)) \in Nat /\ FlushEvery \in Nat
      BY <3>2, <3>3, FS_CardinalityType, CaptureAssumption
    <3> QED BY <3>3, <3>4, <3>5
  <2>3. opened' =>
          /\ Exposed(records, Written', Len(disk'), session)
                \subseteq Len(records) - sinceFlush + 1 .. Len(records)
          /\ sinceFlush < FlushEvery \/ Exposed(records, Written', Len(disk'), session) = {}
    BY <2>1 DEF CaptureInv, ExposureIsBounded, Moved
  <2> QED BY <2>2, <2>3 DEF ExposureIsBounded, Moved
<1>14. SpoiledIsTorn'
  <2> SUFFICES ASSUME NEW s \in killed, OnDisk(s) PROVE OnDisk(s)'
    BY DEF SpoiledIsTorn, Spoiling, Moved
  <2> QED BY <1>0, <1>1, <1>3 DEF OnDisk
<1> QED BY <1>0, <1>7, <1>8, <1>9, <1>10, <1>11, <1>12, <1>13, <1>14 DEF CaptureInv

LEMMA CloseMoves == ASSUME CaptureInv, Close PROVE Moved
<1>1. /\ Reaches(pending) /\ pending' = << >> /\ opened /\ opened' = FALSE
      /\ UNCHANGED <<sinceFlush, session, records, killed>>
  BY DEF Close
<1>2. disk \in Seq(Token) /\ pending \in Seq(Token)
  BY DEF CaptureInv, CaptureTypes
<1>3. /\ cut' \in Nat /\ compressed' = compressed /\ disk' = disk \o pending
      /\ cut' # Whole => Spoiling
  BY <1>1, <1>2, ReachesMoves, CaptureAssumption DEF CaptureInv
<1>4. disk' \in Seq(Token) /\ Written' = disk' /\ disk' = Written
  BY <1>1, <1>2, <1>3, Joined, ConcatEmptySeq DEF Written
<1>5. CaptureTypes'
  BY <1>1, <1>3, <1>4, EmptyIsSeq DEF CaptureInv, CaptureTypes
<1>6. Len(disk) <= Len(disk') /\ Len(disk') = End /\ End' = End /\ Written' = Written
  BY <1>2, <1>4, WrittenIsSeq DEF CaptureInv, End
<1>7. End \in Nat
  BY <1>2, Joined DEF Written, End
<1> QED BY <1>1, <1>3, <1>5, <1>6, <1>7 DEF Moved

LEMMA Halves ==
    ASSUME NEW p \in Seq(Token), NEW n \in 1 .. Len(p)
    PROVE  /\ SubSeq(p, 1, n) \in Seq(Token) /\ SubSeq(p, n + 1, Len(p)) \in Seq(Token)
           /\ SubSeq(p, 1, n) \o SubSeq(p, n + 1, Len(p)) = p
<1> DEFINE a == SubSeq(p, 1, n)
           b == SubSeq(p, n + 1, Len(p))
<1>1. a \in Seq(Token) /\ b \in Seq(Token) /\ Len(a) = n /\ Len(b) = Len(p) - n
  BY SubSeqProperties
<1>2. /\ \A i \in 1 .. n : a[i] = p[i]
      /\ \A i \in 1 .. Len(p) - n : b[i] = p[n + i]
  BY SubSeqProperties
<1> HIDE DEF a, b
<1>3. a \o b \in Seq(Token) /\ Len(a \o b) = Len(p)
  <2>1. a \o b \in Seq(Token) /\ Len(a \o b) = Len(a) + Len(b) /\ Len(p) \in Nat
    BY <1>1, Joined
  <2> QED BY <1>1, <2>1
<1>4. \A i \in 1 .. Len(p) : (a \o b)[i] = p[i]
  <2> TAKE i \in 1 .. Len(p)
  <2> Len(p) \in Nat
    OBVIOUS
  <2>1. CASE i <= n
    <3>1. i \in 1 .. Len(a)
      BY <1>1, <2>1
    <3>2. (a \o b)[i] = a[i]
      BY <1>1, <3>1, Joined
    <3> QED BY <1>1, <1>2, <3>1, <3>2
  <2>2. CASE i > n
    <3>1. i - n \in 1 .. Len(b) /\ i = Len(a) + (i - n)
      BY <1>1, <2>2
    <3>2. (a \o b)[Len(a) + (i - n)] = b[i - n]
      BY <1>1, <3>1, Joined
    <3>3. b[i - n] = p[n + (i - n)] /\ n + (i - n) = i
      BY <1>1, <1>2, <3>1
    <3> QED BY <1>1, <2>2, <3>1, <3>2, <3>3
  <2>3. i <= n \/ i > n
    OBVIOUS
  <2> QED BY <2>1, <2>2, <2>3
<1>5. a \o b = p
  BY <1>3, <1>4, SeqEqual
<1> QED BY <1>1, <1>5 DEF a, b

LEMMA SpillMoves == ASSUME CaptureInv, Spill PROVE Moved
<1>1. PICK n \in 1 .. Len(pending) :
        /\ Reaches(SubSeq(pending, 1, n))
        /\ pending' = SubSeq(pending, n + 1, Len(pending))
  BY DEF Spill
<1> DEFINE a == SubSeq(pending, 1, n)
<1>2. UNCHANGED <<opened, sinceFlush, session, records, killed>>
  BY DEF Spill
<1>3. disk \in Seq(Token) /\ pending \in Seq(Token)
  BY DEF CaptureInv, CaptureTypes
<1>4. a \in Seq(Token) /\ pending' \in Seq(Token)
  BY <1>1, <1>3, Halves
<1>11. a \o pending' = pending
  BY <1>1, <1>3, Halves
<1>5. Reaches(a)
  BY <1>1
<1>8. opened
  BY <1>1, <1>3 DEF CaptureInv, CaptureTypes
<1> HIDE DEF a
<1>6. /\ cut' \in Nat /\ compressed' = compressed /\ disk' = disk \o a
      /\ cut' # Whole => Spoiling
  BY <1>4, <1>5, <1>8, ReachesMoves, CaptureAssumption DEF CaptureInv
<1>7. disk' \in Seq(Token) /\ Written' = Written /\ Len(disk) <= Len(disk')
  <2>1. disk' \o pending' = disk \o pending
    <3>1. disk \o (a \o pending') = (disk \o a) \o pending'
      BY <1>3, <1>4, Regroups, Zenon
    <3>2. disk' = disk \o a
      BY <1>6
    <3> QED BY <1>11, <3>1, <3>2
  <2>2. disk \o a \in Seq(Token) /\ Len(disk \o a) = Len(disk) + Len(a) /\ Len(a) \in Nat
        /\ Len(disk) \in Nat
    BY <1>3, <1>4, Joined
  <2>3. Written' = Written
    BY <2>1 DEF Written
  <2>4. Len(disk \o a) >= Len(disk)
    BY <2>2
  <2> QED BY <1>6, <2>2, <2>3, <2>4
<1>9. CaptureTypes'
  BY <1>2, <1>4, <1>6, <1>7, <1>8 DEF CaptureInv, CaptureTypes
<1>10. End \in Nat /\ End' = End
  BY <1>3, <1>7, Joined DEF Written, End
<1> QED BY <1>2, <1>6, <1>7, <1>8, <1>9, <1>10 DEF Moved

LEMMA KillMoves == ASSUME CaptureInv, Kill PROVE Moved
<1>1. /\ opened /\ opened' = FALSE /\ pending' = << >> /\ killed' = killed \cup {session}
      /\ UNCHANGED <<compressed, cut, disk, sinceFlush, session, records>>
  BY DEF Kill
<1>2. disk \in Seq(Token) /\ pending \in Seq(Token)
  BY DEF CaptureInv, CaptureTypes
<1>3. Written' = disk
  BY <1>1, <1>2, ConcatEmptySeq DEF Written
<1>4. CaptureTypes'
  <2>1. session \in 1 .. session
    BY <1>1 DEF CaptureInv, CaptureTypes
  <2> QED BY <1>1, <2>1, EmptyIsSeq DEF CaptureInv, CaptureTypes
<1>5. /\ End' = Len(disk) /\ End = Len(disk) + Len(pending) /\ Len(disk) \in Nat
      /\ Len(pending) \in Nat /\ \A i \in 1 .. Len(disk) : Written[i] = disk[i]
  BY <1>2, <1>3, Joined DEF End, Written
<1> QED BY <1>1, <1>3, <1>4, <1>5 DEF CaptureInv, SpoiledIsTorn, Moved

-----------------------------------------------------------------------------
LEMMA InitCaptureInv == Init => CaptureInv
<1> SUFFICES ASSUME Init PROVE CaptureInv
  OBVIOUS
<1>1. /\ disk = << >> /\ pending = << >> /\ records = << >> /\ session = 0 /\ sinceFlush = 0
      /\ opened = FALSE /\ killed = {} /\ cut = Whole /\ compressed \in BOOLEAN
  BY CaptureAssumption DEF Init
<1>2. Written = << >>
  BY <1>1, EmptyIsSeq, ConcatEmptySeq DEF Written
<1>3. CaptureTypes
  <2>1. << >> \in Seq(Record)
    BY EmptySeq
  <2>2. Whole \in Nat
    BY CaptureAssumption DEF Whole
  <2>3. /\ records \in Seq(Record) /\ disk \in Seq(Token) /\ pending \in Seq(Token)
        /\ cut \in Nat
    BY <1>1, <2>1, <2>2, EmptyIsSeq
  <2> QED BY <1>1, <2>3 DEF CaptureTypes
<1>4. Bounded /\ HeadersFirst /\ InOrder /\ LiveIsWhole
  BY <1>1, <1>2, CaptureAssumption DEF Bounded, HeadersFirst, InOrder, LiveIsWhole
<1>5. ClosedIsSafe /\ ControlIsSafe /\ ExposureIsBounded /\ SpoiledIsTorn
  BY <1>1 DEF ClosedIsSafe, ControlIsSafe, ExposureIsBounded, SpoiledIsTorn
<1> QED BY <1>3, <1>4, <1>5 DEF CaptureInv

(* A line that is whole on the disk is decoded, if the file can be read.   *)
LEMMA PlacedDecodes ==
    ASSUME CaptureInv, Legible, NEW n, Placed(Written, Len(disk), n)
    PROVE  Decodes(n)
<1>1. /\ disk \in Seq(Token) /\ Len(disk) \in Nat /\ Len(disk) <= Len(Written)
      /\ \A i \in 1 .. Len(disk) : Written[i] = disk[i]
      /\ Len(records) \in Nat /\ Len(Written) \in Nat
  BY WrittenIsSeq DEF CaptureInv, CaptureTypes
<1>2. Len(disk) <= cut
  BY <1>1, CaptureAssumption DEF CaptureInv, Bounded, Legible, Whole
<1>3. SubSeq(disk, 1, Len(disk)) = disk
  BY <1>1, SubSeqFull
<1>4. Text = disk
  <2>1. cut \in Nat
    BY DEF CaptureInv, CaptureTypes
  <2>2. ~(cut < Len(disk))
    BY <1>1, <1>2, <2>1
  <2>3. (IF cut < Len(disk) THEN cut ELSE Len(disk)) = Len(disk)
    BY <2>2
  <2> QED BY <1>3, <2>3 DEF Text
<1>5. PICK i \in 2 .. Len(disk) - 2 :
        /\ Written[i - 1].part = "newline"
        /\ Written[i] = [record |-> n, part |-> "head"]
        /\ Written[i + 1] = [record |-> n, part |-> "tail"]
        /\ Written[i + 2] = [record |-> n, part |-> "newline"]
  BY DEF Placed
<1>6. /\ Text[i - 1].part = "newline"
      /\ Text[i] = [record |-> n, part |-> "head"]
      /\ Text[i + 1] = [record |-> n, part |-> "tail"]
      /\ Text[i + 2].part = "newline"
      /\ i \in 1 .. Len(Text) /\ i + 1 \in 1 .. Len(Text) /\ i + 1 # Len(Text)
      /\ (i + 1) + 1 = i + 2
  BY <1>1, <1>4, <1>5
<1>7. DOMAIN Text = 1 .. Len(Text)
  BY <1>1, <1>4, LenProperties
<1>8. StartsLine(i) /\ EndsLine(i + 1)
  BY <1>6 DEF StartsLine, EndsLine
<1> QED BY <1>6, <1>7, <1>8 DEF Decodes, IsPart

LEMMA KeepsControl == CaptureInv => ControlSurvives
BY PlacedDecodes DEF CaptureInv, ControlIsSafe, ControlSurvives

(* What a session lost was exposed, and behind a lost frame nothing of the *)
(* session has begun.                                                      *)
LEMMA KeepsAllButATail == CaptureInv => LossIsATail
<1> SUFFICES ASSUME CaptureInv, Legible, NEW s \in 1 .. session
             PROVE  /\ Cheap(s)
                    /\ \A n \in Lost(s), m \in Of(s) : m > n => m \in Lost(s)
                    /\ Over(s) /\ s \notin killed => Lost(s) = {}
  BY DEF LossIsATail
<1>1. Lost(s) \subseteq Exposed(records, Written, Len(disk), s)
  BY PlacedDecodes DEF Lost, Of, Exposed, Frames
<1>2. Cheap(s)
  <2> DEFINE E == Exposed(records, Written, Len(disk), s)
  <2>1. Len(records) \in Nat /\ DOMAIN records = 1 .. Len(records)
    BY WrittenIsSeq DEF CaptureInv
  <2>2. IsFiniteSet(E)
    <3>1. IsFiniteSet(1 .. Len(records))
      BY <2>1, FS_Interval
    <3>2. E \subseteq 1 .. Len(records)
      BY <2>1 DEF Exposed, Frames
    <3> QED BY <3>1, <3>2, FS_Subset
  <2>3. Cardinality(E) < FlushEvery
    BY DEF CaptureInv, ExposureIsBounded
  <2> HIDE DEF E
  <2>4. IsFiniteSet(Lost(s)) /\ Cardinality(Lost(s)) <= Cardinality(E)
    BY <1>1, <2>2, FS_Subset DEF E
  <2>5. Cardinality(E) \in Nat /\ Cardinality(Lost(s)) \in Nat /\ FlushEvery \in Nat
    BY <2>2, <2>4, FS_CardinalityType, CaptureAssumption
  <2> QED BY <2>3, <2>4, <2>5 DEF Cheap
<1>3. ASSUME NEW n \in Lost(s), NEW m \in Of(s), m > n
      PROVE  m \in Lost(s)
  <2>1. /\ n \in DOMAIN records /\ records[n].session = s /\ records[n].kind # "header"
        /\ m \in DOMAIN records /\ records[m].session = s /\ ~Decodes(n)
        /\ n \in Nat /\ m \in Nat
    BY WrittenIsSeq DEF Lost, Of, CaptureInv
  <2>2. session \in Nat /\ s \in Nat
    BY DEF CaptureInv, CaptureTypes
  <2>3. records[m].kind # "header"
    BY <1>3, <2>1, <2>2 DEF CaptureInv, HeadersFirst
  <2>4. ~Decodes(m)
    <3> SUFFICES ASSUME Decodes(m) PROVE FALSE
      OBVIOUS
    <3>1. PICK i \in DOMAIN Text : Text[i] = [record |-> m, part |-> "head"]
      BY DEF Decodes, IsPart
    <3>2. /\ disk \in Seq(Token) /\ Len(disk) \in Nat /\ DOMAIN Written = 1 .. Len(Written)
          /\ Len(disk) <= Len(Written) /\ Len(Written) \in Nat
          /\ \A j \in 1 .. Len(disk) : Written[j] = disk[j]
      <4>1. CaptureTypes
        BY DEF CaptureInv
      <4>2. disk \in Seq(Token)
        BY <4>1 DEF CaptureTypes
      <4>3. /\ Len(Written) = Len(disk) + Len(pending)
            /\ DOMAIN Written = 1 .. Len(Written)
            /\ \A j \in 1 .. Len(disk) : Written[j] = disk[j]
            /\ Len(disk) \in Nat /\ Len(pending) \in Nat
        BY <4>1, WrittenIsSeq
      <4> QED BY <4>2, <4>3
    <3>3. cut \in Nat /\ Text = SubSeq(disk, 1, IF cut < Len(disk) THEN cut ELSE Len(disk))
      BY DEF Text, CaptureInv, CaptureTypes
    <3>4. i \in 1 .. Len(disk) /\ disk[i] = Text[i]
      BY <3>1, <3>2, <3>3, SubSeqProperties
    <3>5. i \in DOMAIN Written /\ Written[i].record = m
      BY <3>1, <3>2, <3>4
    <3>6. Placed(Written, i - 1, n)
      BY <1>3, <2>1, <3>5 DEF CaptureInv, InOrder, Frames
    <3>7. Placed(Written, Len(disk), n)
      <4>1. i - 1 \in Nat /\ i - 1 <= Len(disk) /\ \A j \in 1 .. i - 1 : Written[j] = Written[j]
        BY <3>2, <3>4
      <4> QED BY <3>2, <3>6, <4>1, PlacedStays
    <3> QED BY <2>1, <3>7, PlacedDecodes
  <2> QED BY <2>1, <2>3, <2>4 DEF Lost, Of
<1>4. Over(s) /\ s \notin killed => Lost(s) = {}
  BY PlacedDecodes DEF CaptureInv, ClosedIsSafe, Lost, Of, Frames
<1> QED BY <1>2, <1>3, <1>4

-----------------------------------------------------------------------------
(* The two tasks around it.                                                *)

(* The main task is in its block exactly while the recorder is open, and   *)
(* the pump lives inside it.                                               *)
SessionInv ==
    /\ opened \in BOOLEAN
    /\ main # "none" <=> opened
    /\ pump # "none" => main # "none"

(* One step of either task, of a signal handler or of a kill keeps them    *)
(* nested (record.py:49-83).                                               *)
THEOREM SessionInvHolds == SessionSpec => []SessionInv
<1> USE DEF SessionInv
<1>1. SessionInit => SessionInv
  BY DEF SessionInit, Init
<1>2. SessionInv /\ [SessionNext]_sessionVars => SessionInv'
  <2> SUFFICES ASSUME SessionInv, [SessionNext]_sessionVars
               PROVE  SessionInv'
    OBVIOUS
  <2>1. CASE Start
    BY <2>1 DEF Start, Open
  <2>2. CASE PumpFrame
    BY <2>2 DEF PumpFrame, WriteMessage
  <2>3. CASE PumpEvent
    BY <2>3 DEF PumpEvent, WriteControl
  <2>4. CASE PumpEnds \/ Signal \/ MainWakes
    BY <2>4 DEF PumpEnds, Signal, MainWakes, vars
  <2>5. CASE MainJoins
    BY <2>5 DEF MainJoins, Close
  <2>6. CASE Killed
    BY <2>6 DEF Killed, Kill
  <2>7. CASE Spilled
    BY <2>7 DEF Spilled, Spill
  <2>8. CASE UNCHANGED sessionVars
    BY <2>8 DEF sessionVars, vars
  <2> QED BY <2>1, <2>2, <2>3, <2>4, <2>5, <2>6, <2>7, <2>8 DEF SessionNext
<1> QED BY <1>1, <1>2, PTL DEF SessionSpec

(* Nothing is written to a recorder that is closed: neither a frame the    *)
(* stream still yields nor an event of the client (record.py:68-83).       *)
THEOREM PumpKeepsItsFile == SessionSpec => []PumpHasItsFile
<1>1. SessionInv => PumpHasItsFile
  BY DEF SessionInv, PumpHasItsFile
<1> QED BY <1>1, SessionInvHolds, PTL

LEMMA IdleKeeps == ASSUME CaptureInv, UNCHANGED vars PROVE CaptureInv'
BY DEF vars, CaptureInv, CaptureTypes, Bounded, HeadersFirst, InOrder, LiveIsWhole,
       ClosedIsSafe, ControlIsSafe, ExposureIsBounded, SpoiledIsTorn, Spoiling, Written, Over, OnDisk

(* The inductive invariant of the capture: every line of a session stands  *)
(* behind a complete one, in the order it was written, and what a kill can *)
(* take is what was written since the last flush (recorder.py:72-154).     *)
THEOREM CaptureInvHolds == SessionSpec => []CaptureInv
<1>1. SessionInit => CaptureInv
  BY InitCaptureInv DEF SessionInit
<1>2. CaptureInv /\ [SessionNext]_sessionVars => CaptureInv'
  <2> SUFFICES ASSUME CaptureInv, [SessionNext]_sessionVars
               PROVE  CaptureInv'
    OBVIOUS
  <2>1. CASE Start \/ PumpFrame \/ PumpEvent
    BY <2>1, AppendsKeep DEF Start, PumpFrame, PumpEvent, Appends
  <2>2. CASE PumpEnds \/ Signal \/ MainWakes \/ UNCHANGED sessionVars
    BY <2>2, IdleKeeps DEF PumpEnds, Signal, MainWakes, sessionVars
  <2>3. CASE MainJoins
    BY <2>3, CloseMoves, MovesKeep DEF MainJoins
  <2>4. CASE Killed
    BY <2>4, KillMoves, MovesKeep DEF Killed
  <2>5. CASE Spilled
    BY <2>5, SpillMoves, MovesKeep DEF Spilled
  <2> QED BY <2>1, <2>2, <2>3, <2>4, <2>5 DEF SessionNext
<1> QED BY <1>1, <1>2, PTL DEF SessionSpec

(* The two theorems below are about a file that is not spoiled.  A plain   *)
(* file never is; a gzip file is only while a killed session that left     *)
(* bytes in it stands before another (recorder.py:79, replay.py:47-51).    *)
THEOREM SpoiledOnlyByAppending ==
    SessionSpec => [](~Legible => /\ compressed
                                 /\ \E s \in killed : s < session /\ OnDisk(s))
<1>1. CaptureInv => (~Legible => /\ compressed
                                 /\ \E s \in killed : s < session /\ OnDisk(s))
  BY DEF CaptureInv, SpoiledIsTorn, Spoiling, Legible
<1> QED BY <1>1, CaptureInvHolds, PTL

(* A control event is on disk once write_control returned, at the start of *)
(* a line of its own, and no kill and no later session changes that, as    *)
(* long as the file is not spoiled (recorder.py:105-109).                  *)
THEOREM EventsSurvive == SessionSpec => []ControlSurvives
BY CaptureInvHolds, KeepsControl, PTL

(* A kill costs fewer than flush_every frames, all at the end of its own   *)
(* session; a session that was closed lost nothing; as long as the file is *)
(* not spoiled (recorder.py:117-154).                                      *)
THEOREM KillsCostATail == SessionSpec => []LossIsATail
BY CaptureInvHolds, KeepsAllButATail, PTL

-----------------------------------------------------------------------------
(* What inspect counts as a gap.                                           *)

(* The file holds the sessions one behind the other.                       *)
SessionsRise ==
    \A m, n \in DOMAIN records : m <= n => records[m].session <= records[n].session

(* A record carries the session that is open when it is written, and no    *)
(* later recorder opens an earlier one (recorder.py:84-103).               *)
THEOREM SessionsKeepRising == SessionSpec => []SessionsRise
<1>1. SessionInit => SessionsRise
  BY DEF SessionInit, Init, SessionsRise
<1>2. CaptureInv /\ SessionsRise /\ [SessionNext]_sessionVars => SessionsRise'
  <2> SUFFICES ASSUME CaptureInv, SessionsRise, [SessionNext]_sessionVars
               PROVE  SessionsRise'
    OBVIOUS
  <2>1. CASE Start \/ PumpFrame \/ PumpEvent
    <3>1. Appends
      BY <2>1 DEF Start, PumpFrame, PumpEvent, Appends
    <3>2. /\ DOMAIN records = 1 .. New - 1 /\ DOMAIN records' = 1 .. New /\ New \in Nat
      BY <3>1, AppendsShape, CaptureAssumption
    <3>3. /\ \A n \in DOMAIN records : records'[n] = records[n]
          /\ records'[New].session = session'
      BY <3>1, AppendsAdds, CaptureAssumption DEF CaptureInv, New
    <3>4. session \in Nat /\ session' \in Nat /\ session <= session'
      BY <3>1, AppendsIs, CaptureAssumption DEF CaptureInv, CaptureTypes
    <3>5. \A n \in DOMAIN records : records[n].session \in 1 .. session
      BY DEF CaptureInv, HeadersFirst
    <3> SUFFICES ASSUME NEW m \in 1 .. New, NEW n \in 1 .. New, m <= n
                 PROVE  records'[m].session <= records'[n].session
      BY <3>2 DEF SessionsRise
    <3>6. CASE n = New
      BY <3>2, <3>3, <3>4, <3>5, <3>6
    <3>7. CASE n # New
      <4>1. m \in DOMAIN records /\ n \in DOMAIN records
        BY <3>2, <3>7
      <4> QED BY <3>3, <4>1 DEF SessionsRise
    <3> QED BY <3>6, <3>7
  <2>2. CASE records' = records
    BY <2>2 DEF SessionsRise
  <2>3. CASE MainJoins \/ Killed \/ Spilled
    BY <2>2, <2>3 DEF MainJoins, Close, Killed, Kill, Spilled, Spill
  <2>4. CASE PumpEnds \/ Signal \/ MainWakes \/ UNCHANGED sessionVars
    BY <2>2, <2>4 DEF PumpEnds, Signal, MainWakes, sessionVars, vars
  <2> QED BY <2>1, <2>3, <2>4 DEF SessionNext
<1> QED BY <1>1, <1>2, CaptureInvHolds, PTL DEF SessionSpec

(* A record that is decoded brings the earlier frames of its session with  *)
(* it, also out of what is left of a file that cannot be read to its end.  *)
LEMMA DecodedWithEarlier ==
    ASSUME CaptureInv, NEW m \in DOMAIN records, Decodes(m),
           NEW n \in Frames(records, records[m].session), n < m
    PROVE  Decodes(n)
<1>1. /\ disk \in Seq(Token) /\ Len(disk) \in Nat /\ DOMAIN Written = 1 .. Len(Written)
      /\ Len(disk) <= Len(Written) /\ Len(Written) \in Nat
      /\ \A j \in 1 .. Len(disk) : Written[j] = disk[j]
  <2>1. CaptureTypes
    BY DEF CaptureInv
  <2>2. disk \in Seq(Token)
    BY <2>1 DEF CaptureTypes
  <2>3. /\ Len(Written) = Len(disk) + Len(pending)
        /\ DOMAIN Written = 1 .. Len(Written)
        /\ \A j \in 1 .. Len(disk) : Written[j] = disk[j]
        /\ Len(disk) \in Nat /\ Len(pending) \in Nat
    BY <2>1, WrittenIsSeq
  <2> QED BY <2>2, <2>3
<1>2. cut \in Nat
  BY DEF CaptureInv, CaptureTypes
<1> DEFINE k == IF cut < Len(disk) THEN cut ELSE Len(disk)
<1>3. k \in 0 .. Len(disk) /\ Text = SubSeq(disk, 1, k)
  BY <1>1, <1>2 DEF Text
<1> HIDE DEF k
<1>4. /\ Text \in Seq(Token) /\ Len(Text) = k /\ DOMAIN Text = 1 .. k
      /\ \A j \in 1 .. k : Text[j] = Written[j]
  BY <1>1, <1>3, SubSeqProperties
<1>5. PICK j \in 1 .. k : Written[j] = [record |-> m, part |-> "head"]
  BY <1>4 DEF Decodes, IsPart
<1>6. j \in DOMAIN Written /\ Written[j].record = m
  BY <1>1, <1>3, <1>5
<1>7. Placed(Written, j - 1, n)
  BY <1>6 DEF CaptureInv, InOrder
<1>8. PICK i \in 2 .. j - 1 - 2 :
        /\ Written[i - 1].part = "newline"
        /\ Written[i] = [record |-> n, part |-> "head"]
        /\ Written[i + 1] = [record |-> n, part |-> "tail"]
        /\ Written[i + 2] = [record |-> n, part |-> "newline"]
  BY <1>7 DEF Placed
<1>9. /\ i - 1 \in 1 .. k /\ i \in 1 .. k /\ i + 1 \in 1 .. k /\ i + 2 \in 1 .. k
      /\ i + 1 # k /\ (i + 1) + 1 = i + 2
  BY <1>3, <1>5
<1>10. /\ Text[i - 1].part = "newline"
       /\ Text[i] = [record |-> n, part |-> "head"]
       /\ Text[i + 1] = [record |-> n, part |-> "tail"]
       /\ Text[i + 2].part = "newline"
  BY <1>4, <1>8, <1>9
<1>11. StartsLine(i) /\ EndsLine(i + 1)
  BY <1>4, <1>9, <1>10 DEF StartsLine, EndsLine
<1> QED BY <1>4, <1>9, <1>10, <1>11 DEF Decodes, IsPart

(* A set of record numbers that is not empty has a greatest.               *)
LEMMA MaxIsGreatest ==
    ASSUME NEW N \in Nat, NEW T \in SUBSET (1 .. N), T # {}
    PROVE  Max(T) \in T /\ \A t \in T : t <= Max(T)
<1> DEFINE R == OpToRel(<, Nat)
           U == {u \in 0 .. N : N - u \in T}
<1>1. \E u \in U : TRUE
  <2>1. PICK t \in T : TRUE
    OBVIOUS
  <2>2. N - t \in 0 .. N /\ N - (N - t) = t
    OBVIOUS
  <2> QED BY <2>1, <2>2
<1>2. IsWellFoundedOn(R, Nat)
  BY NatLessThanWellFounded
<1>3. U \subseteq Nat /\ U # {}
  BY <1>1
<1> HIDE DEF R, U
<1>4. PICK u \in U : \A v \in U : ~(<<v, u>> \in R)
  BY <1>2, <1>3, WFMin
<1>5. \A v \in U : ~(v < u)
  BY <1>3, <1>4 DEF R, OpToRel
<1>6. \A t \in T : t <= N - u
  <2> TAKE t \in T
  <2>1. N - t \in U
    BY DEF U
  <2>2. u \in Nat /\ N - t \in Nat /\ ~(N - t < u)
    BY <1>3, <1>5, <2>1
  <2> QED BY <2>2
<1>7. N - u \in T
  BY <1>4 DEF U
<1>8. \E x \in T : \A y \in T : x >= y
  BY <1>3, <1>6, <1>7
<1>9. Max(T) \in T /\ \A y \in T : Max(T) >= y
  BY <1>8 DEF Max
<1> QED BY <1>9

(* The client's count goes up by one for each message, and for each event  *)
(* of a handshake that lost frames by more than the message behind it      *)
(* shows.                                                                  *)
Counts(k) == records[k].kind = "msg" \/ LosesFrames(k)
CountBegins(n) == records[n].kind = "header" => stamped[n] = 0
CountGoesOn(n) ==
    records[n].kind # "header" =>
        /\ n - 1 \in DOMAIN records /\ records[n - 1].session = records[n].session
        /\ records[n].kind = "msg" => stamped[n] = stamped[n - 1] + 1
        /\ records[n].kind = "control" => stamped[n] >= stamped[n - 1]
HasHeader(n) ==
    \E h \in 1 .. n : records[h].kind = "header" /\ records[h].session = records[n].session
Alike(m, n) == m <= n /\ records[m].session = records[n].session
CountRises(m, n) ==
    Alike(m, n) => /\ stamped[m] <= stamped[n]
                   /\ stamped[m] # stamped[n] => \E k \in m + 1 .. n : Counts(k)

StampInv ==
    /\ stamped \in Seq(Nat) /\ Len(stamped) = Len(records)
    /\ opened => Len(records) > 0 /\ records[Len(records)].session = session
    /\ \A n \in DOMAIN records : CountBegins(n) /\ CountGoesOn(n) /\ HasHeader(n)
    /\ \A m, n \in DOMAIN records : CountRises(m, n)

(* What a step of Appends does to the count.                               *)
CountStep(v) ==
    /\ v \in Nat /\ stamped' = Append(stamped, v)
    /\ records'[New].kind = "header" => v = 0
    /\ records'[New].kind = "msg" => v = stamped[Len(stamped)] + 1
    /\ records'[New].kind = "control" => v >= stamped[Len(stamped)]

LEMMA StampKeeps ==
    ASSUME CaptureInv, StampInv, Appends, NEW v, CountStep(v)
    PROVE  StampInv'
<1>0. /\ stamped \in Seq(Nat) /\ Len(stamped) = Len(records)
      /\ opened => Len(records) > 0 /\ records[Len(records)].session = session
      /\ \A n \in DOMAIN records : CountBegins(n) /\ CountGoesOn(n) /\ HasHeader(n)
      /\ \A m, n \in DOMAIN records : CountRises(m, n)
  BY DEF StampInv
<1> PICK L \in Nat : L = Len(records)
  BY WrittenIsSeq DEF CaptureInv
<1>1. /\ L \in Nat /\ Len(records) = L /\ New = L + 1 /\ DOMAIN records = 1 .. L /\ DOMAIN records' = 1 .. L + 1
      /\ Len(records') = L + 1 /\ records'[L + 1].session = session'
      /\ \A n \in 1 .. L : records'[n] = records[n]
  <2>1. /\ DOMAIN records = 1 .. New - 1 /\ DOMAIN records' = 1 .. New /\ New \in Nat
    BY AppendsShape, CaptureAssumption
  <2>2. /\ \A n \in DOMAIN records : records'[n] = records[n]
        /\ records'[New].session = session' /\ Len(records') = New
    BY AppendsAdds, CaptureAssumption DEF CaptureInv, New
  <2> QED BY <2>1, <2>2 DEF New
<1>2. \/ records'[L + 1].kind = "header"
      \/ session' = session /\ opened /\ records'[L + 1].kind \in {"msg", "control"}
  BY <1>1, AppendsIs, CaptureAssumption DEF CaptureInv, New
<1>3. /\ stamped' \in Seq(Nat) /\ Len(stamped') = L + 1 /\ stamped'[L + 1] = v
      /\ \A n \in 1 .. L : stamped'[n] = stamped[n]
      /\ \A n \in 1 .. L : stamped[n] \in Nat
  BY <1>0, <1>1 DEF CountStep
<1>4. /\ v \in Nat
      /\ records'[L + 1].kind = "header" => v = 0
      /\ records'[L + 1].kind = "msg" => v = stamped[L] + 1
      /\ records'[L + 1].kind = "control" => v >= stamped[L]
  BY <1>0, <1>1 DEF CountStep
<1>5. records'[L + 1].kind # "header" =>
        /\ L \in 1 .. L /\ records[L].session = session'
        /\ stamped'[L] = stamped[L] /\ records'[L] = records[L]
  BY <1>0, <1>1, <1>2, <1>3
<1>6. ASSUME NEW n \in 1 .. L
      PROVE  /\ CountBegins(n)' /\ CountGoesOn(n)' /\ HasHeader(n)'
             /\ Counts(n)' <=> Counts(n)
  <2>1. CountBegins(n) /\ CountGoesOn(n) /\ HasHeader(n)
    BY <1>0, <1>1
  <2>2. records'[n] = records[n] /\ stamped'[n] = stamped[n]
    BY <1>1, <1>3
  <2>3. records[n].kind # "header" =>
          /\ n - 1 \in 1 .. L /\ n - 1 \in 1 .. L + 1
          /\ records'[n - 1] = records[n - 1] /\ stamped'[n - 1] = stamped[n - 1]
    BY <1>1, <1>3, <2>1 DEF CountGoesOn
  <2>4. CountBegins(n)'
    BY <2>1, <2>2 DEF CountBegins
  <2>5. CountGoesOn(n)'
    BY <1>1, <2>1, <2>2, <2>3 DEF CountGoesOn
  <2>6. HasHeader(n)'
    BY <1>1, <2>1, <2>2 DEF HasHeader
  <2>7. Counts(n)' <=> Counts(n)
    BY <2>2, <2>3 DEF Counts, LosesFrames
  <2> QED BY <2>4, <2>5, <2>6, <2>7
<1>7. CountBegins(L + 1)' /\ CountGoesOn(L + 1)'
  <2>1. CountBegins(L + 1)'
    BY <1>3, <1>4 DEF CountBegins
  <2>2. (L + 1) - 1 = L
    BY <1>1
  <2>3. CountGoesOn(L + 1)'
    BY <1>1, <1>3, <1>4, <1>5, <2>2 DEF CountGoesOn
  <2> QED BY <2>1, <2>3
<1>8. HasHeader(L + 1)'
  <2>1. CASE records'[L + 1].kind = "header"
    <3>1. L + 1 \in 1 .. L + 1
      BY <1>1
    <3> QED BY <2>1, <3>1 DEF HasHeader
  <2>2. CASE records'[L + 1].kind # "header"
    <3>1. PICK h \in 1 .. L : records'[h].kind = "header" /\ records'[h].session = records'[L].session
      BY <1>5, <1>6, <2>2 DEF HasHeader
    <3>2. records'[L].session = records'[L + 1].session
      BY <1>1, <1>5, <2>2
    <3>3. h \in 1 .. L + 1
      BY <1>1
    <3> QED BY <3>1, <3>2, <3>3 DEF HasHeader
  <2> QED BY <2>1, <2>2
<1>9. ASSUME NEW m \in 1 .. L, NEW n \in 1 .. L
      PROVE  CountRises(m, n)'
  <2>1. CountRises(m, n)
    BY <1>0, <1>1
  <2>2. /\ records'[m] = records[m] /\ records'[n] = records[n]
        /\ stamped'[m] = stamped[m] /\ stamped'[n] = stamped[n]
    BY <1>1, <1>3
  <2>3. \A k \in m + 1 .. n : k \in 1 .. L
    BY <1>1
  <2> QED BY <1>6, <2>1, <2>2, <2>3 DEF CountRises, Alike
<1>10. ASSUME NEW m \in 1 .. L
       PROVE  CountRises(m, L + 1)'
  <2> SUFFICES ASSUME records'[m].session = records'[L + 1].session
               PROVE  /\ stamped'[m] <= stamped'[L + 1]
                      /\ stamped'[m] # stamped'[L + 1] => \E k \in m + 1 .. L + 1 : Counts(k)'
    BY DEF CountRises, Alike
  <2>1. records'[L + 1].kind # "header"
    <3>1. records'[L + 1].kind = "header" => session' = session + 1
      BY <1>1, AppendsIs, CaptureAssumption DEF CaptureInv, New
    <3>2. records[m].session \in 1 .. session /\ session \in Nat
      BY <1>1 DEF CaptureInv, HeadersFirst, CaptureTypes
    <3> QED BY <1>1, <3>1, <3>2
  <2>2. /\ stamped[m] <= stamped[L]
        /\ stamped[m] # stamped[L] => \E k \in m + 1 .. L : Counts(k)
    <3>1. Alike(m, L)
      BY <1>1, <1>5, <2>1 DEF Alike
    <3>2. CountRises(m, L)
      BY <1>0, <1>1, <1>5, <2>1
    <3> QED BY <3>1, <3>2 DEF CountRises
  <2>3. /\ stamped[m] \in Nat /\ stamped[L] \in Nat /\ v \in Nat /\ v >= stamped[L]
        /\ stamped'[m] = stamped[m] /\ stamped'[L + 1] = v /\ stamped'[L] = stamped[L]
    BY <1>2, <1>3, <1>4, <1>5, <2>1
  <2>4. stamped'[m] <= stamped'[L + 1]
    BY <2>2, <2>3
  <2>5. ASSUME stamped'[m] # stamped'[L + 1]
        PROVE  \E k \in m + 1 .. L + 1 : Counts(k)'
    <3>1. CASE stamped[m] # stamped[L]
      <4>1. PICK k \in m + 1 .. L : Counts(k)
        BY <2>2, <3>1
      <4>2. k \in 1 .. L /\ k \in m + 1 .. L + 1
        BY <1>1
      <4> QED BY <1>6, <4>1, <4>2
    <3>2. CASE stamped[m] = stamped[L]
      <4>1. v > stamped[L]
        BY <2>3, <2>5, <3>2
      <4>2. (L + 1) - 1 = L /\ L + 1 \in m + 1 .. L + 1
        BY <1>1
      <4>3. Counts(L + 1)'
        BY <1>2, <2>1, <2>3, <4>1, <4>2 DEF Counts, LosesFrames
      <4> QED BY <4>2, <4>3
    <3> QED BY <3>1, <3>2
  <2> QED BY <2>4, <2>5
<1>11. CountRises(L + 1, L + 1)'
  BY <1>3, <1>4 DEF CountRises
<1>12. ASSUME NEW n \in 1 .. L
       PROVE  CountRises(L + 1, n)'
  BY <1>1 DEF CountRises, Alike
<1>13. \A m, n \in 1 .. L + 1 : CountRises(m, n)'
  <2> TAKE m, n \in 1 .. L + 1
  <2>1. (m \in 1 .. L \/ m = L + 1) /\ (n \in 1 .. L \/ n = L + 1)
    BY <1>1
  <2> QED BY <1>9, <1>10, <1>11, <1>12, <2>1
<1>14. \A n \in 1 .. L + 1 : CountBegins(n)' /\ CountGoesOn(n)' /\ HasHeader(n)'
  <2> TAKE n \in 1 .. L + 1
  <2>1. n \in 1 .. L \/ n = L + 1
    BY <1>1
  <2> QED BY <1>6, <1>7, <1>8, <2>1
<1>15. Len(records') > 0 /\ records'[Len(records')].session = session'
  BY <1>1
<1> QED BY <1>1, <1>3, <1>13, <1>14, <1>15 DEF StampInv

(* The client numbers what it receives without a hole but for handshakes   *)
(* that fail (client.py:98, 112-113, 192-199, subscription.py:106).        *)
THEOREM StampInvHolds == SessionSpec => []StampInv
<1>1. SessionInit => StampInv
  <2> SUFFICES ASSUME SessionInit PROVE StampInv
    OBVIOUS
  <2>1. stamped = << >> /\ records = << >> /\ opened = FALSE
    BY DEF SessionInit, Init
  <2>2. << >> \in Seq(Nat) /\ Len(<< >>) = 0
    BY EmptySeq
  <2> QED BY <2>1, <2>2 DEF StampInv
<1>2. CaptureInv /\ StampInv /\ [SessionNext]_sessionVars => StampInv'
  <2> SUFFICES ASSUME CaptureInv, StampInv, [SessionNext]_sessionVars
               PROVE  StampInv'
    OBVIOUS
  <2>0. /\ stamped \in Seq(Nat) /\ Len(stamped) = Len(records)
        /\ opened => Len(records) > 0 /\ stamped[Len(stamped)] \in Nat
    BY DEF StampInv
  <2>1. CASE Start
    <3>1. Appends /\ CountStep(0)
      BY <2>1, AppendsIs, CaptureAssumption DEF Start, Appends, CountStep, New, CaptureInv, Open, Log
    <3> QED BY <3>1, StampKeeps
  <2>2. CASE PumpFrame
    <3>1. Appends /\ opened /\ stamped' = Append(stamped, Last(stamped) + 1)
      BY <2>2 DEF PumpFrame, WriteMessage, Appends
    <3>2. Last(stamped) = stamped[Len(stamped)]
      BY DEF Last
    <3>3. records'[New].kind = "msg"
      BY <2>2 DEF PumpFrame, WriteMessage, Log, New, CaptureInv, CaptureTypes
    <3>4. CountStep(Last(stamped) + 1)
      BY <2>0, <3>1, <3>2, <3>3 DEF CountStep
    <3> QED BY <3>1, <3>4, StampKeeps
  <2>3. CASE PumpEvent
    <3>1. Appends /\ opened
      BY <2>3 DEF PumpEvent, WriteControl, Appends
    <3>2. PICK lost \in 0 .. MaxDropped : stamped' = Append(stamped, Last(stamped) + lost)
      BY <2>3 DEF PumpEvent
    <3>3. Last(stamped) = stamped[Len(stamped)] /\ lost \in Nat
      BY SessionAssumption DEF Last
    <3>4. records'[New].kind = "control"
      BY <2>3 DEF PumpEvent, WriteControl, Log, New, CaptureInv, CaptureTypes
    <3>5. CountStep(Last(stamped) + lost)
      BY <2>0, <3>1, <3>2, <3>3, <3>4 DEF CountStep
    <3> QED BY <3>1, <3>5, StampKeeps
  <2>4. ASSUME UNCHANGED <<records, session, stamped>>, opened' => opened
        PROVE  StampInv'
    BY <2>4 DEF StampInv, CountBegins, CountGoesOn, HasHeader, CountRises, Alike, Counts, LosesFrames
  <2>5. CASE MainJoins \/ Killed \/ Spilled
    BY <2>4, <2>5 DEF MainJoins, Close, Killed, Kill, Spilled, Spill
  <2>6. CASE PumpEnds \/ Signal \/ MainWakes \/ UNCHANGED sessionVars
    BY <2>4, <2>6 DEF PumpEnds, Signal, MainWakes, sessionVars, vars
  <2> QED BY <2>1, <2>2, <2>3, <2>5, <2>6 DEF SessionNext
<1> QED BY <1>1, <1>2, CaptureInvHolds, PTL DEF SessionSpec

(* What was written between two messages, the first being the last one     *)
(* decoded before the second, decides whether inspect counts a gap.        *)
LEMMA GapsAreHoles == CaptureInv /\ SessionsRise /\ StampInv => SeqGapsAreExplained
<1> SUFFICES ASSUME CaptureInv, SessionsRise, StampInv, NEW n \in Messages, Earlier(n) # {}
             PROVE  LET p     == Max(Earlier(n))
                        Holes == HolesBetween(p, n) # {}
                    IN  IF records[p].session = records[n].session
                          THEN n \in SeqGaps <=> Holes
                          ELSE n \in SeqGaps \/ Holes
  BY DEF SeqGapsAreExplained
<1> DEFINE p == Max(Earlier(n))
           s == records[n].session
           Gap == stamped[n - 1] # stamped[p]
<1>1. Len(records) \in Nat /\ DOMAIN records = 1 .. Len(records)
  BY WrittenIsSeq DEF CaptureInv
<1>2. /\ n \in DOMAIN records /\ Decodes(n) /\ n \in Nat /\ records[n].kind = "msg"
      /\ Earlier(n) \subseteq DOMAIN records
  BY <1>1 DEF Messages, Earlier
<1>3. p \in Earlier(n) /\ \A m \in Earlier(n) : m <= p
  BY <1>1, <1>2, MaxIsGreatest
<1>4. n \in SeqGaps <=> MessageSeq(n) # MessageSeq(p) + 1
  BY DEF SeqGaps, Expected
<1> HIDE DEF p
<1>5. /\ p \in DOMAIN records /\ p \in Nat /\ p < n /\ records[p].kind = "msg"
  BY <1>1, <1>3 DEF Earlier, Messages
<1>6. /\ \A m \in DOMAIN records : stamped[m] \in Nat
      /\ \A m \in DOMAIN records : CountBegins(m) /\ CountGoesOn(m) /\ HasHeader(m)
      /\ \A l, m \in DOMAIN records : CountRises(l, m)
  BY <1>1 DEF StampInv
<1>7. /\ n - 1 \in DOMAIN records /\ records[n - 1].session = s
      /\ stamped[n] = stamped[n - 1] + 1
  BY <1>2, <1>6 DEF CountGoesOn
<1>8. /\ p - 1 \in DOMAIN records /\ stamped[p] = stamped[p - 1] + 1
  BY <1>5, <1>6 DEF CountGoesOn
<1>9. n \in SeqGaps <=> Gap
  BY <1>2, <1>4, <1>5, <1>6, <1>7 DEF MessageSeq
(* Everything of the session that stands before the message is decoded.    *)
<1>10. ASSUME NEW k \in DOMAIN records, records[k].session = s, k < n, records[k].kind # "header"
       PROVE  Decodes(k)
  <2>1. k \in Frames(records, s)
    BY <1>10 DEF Frames
  <2> QED BY <1>2, <1>10, <2>1, DecodedWithEarlier
<1>11. ASSUME NEW k \in DOMAIN records, records[k].session = s, p < k, k < n, Counts(k)
       PROVE  k \in HolesBetween(p, n)
  <2>1. Decodes(k)
    BY <1>10, <1>11 DEF Counts, LosesFrames
  <2>2. records[k].kind # "msg"
    <3> SUFFICES ASSUME records[k].kind = "msg" PROVE FALSE
      OBVIOUS
    <3>1. k \in Earlier(n)
      BY <1>11, <2>1 DEF Earlier, Messages
    <3>2. k <= p /\ k \in Nat
      BY <1>1, <1>3, <3>1
    <3> QED BY <1>5, <1>11, <3>2
  <2>3. LosesFrames(k)
    BY <1>11, <2>2 DEF Counts
  <2> QED BY <1>11, <2>1, <2>3 DEF HolesBetween, Of
<1>12. ASSUME NEW l \in DOMAIN records, records[l].session = s, l <= n - 1,
              stamped[l] # stamped[n - 1]
       PROVE  \E k \in l + 1 .. n - 1 : k \in DOMAIN records /\ Counts(k) /\ records[k].session = s
  <2>1. Alike(l, n - 1) /\ CountRises(l, n - 1)
    BY <1>6, <1>7, <1>12 DEF Alike
  <2>2. PICK k \in l + 1 .. n - 1 : Counts(k)
    BY <1>12, <2>1 DEF CountRises
  <2>3. k \in DOMAIN records /\ l <= k /\ k <= n
    BY <1>1, <1>2
  <2>4. records[l].session <= records[k].session /\ records[k].session <= s
    BY <1>2, <2>3 DEF SessionsRise
  <2>5. records[k].session \in Nat /\ s \in Nat
    BY <1>2, <2>3 DEF CaptureInv, HeadersFirst
  <2> QED BY <1>12, <2>2, <2>3, <2>4, <2>5
<1> HIDE DEF s
<1>13. CASE records[p].session = s
  <2>1. ASSUME Gap PROVE HolesBetween(p, n) # {}
    <3>1. p <= n - 1
      BY <1>2, <1>5
    <3>2. PICK k \in p + 1 .. n - 1 : k \in DOMAIN records /\ Counts(k) /\ records[k].session = s
      BY <1>5, <1>12, <1>13, <2>1, <3>1
    <3>3. p < k /\ k < n
      BY <1>2, <1>5
    <3> QED BY <1>11, <3>2, <3>3
  <2>2. ASSUME NEW k \in HolesBetween(p, n) PROVE Gap
    <3>1. /\ k \in DOMAIN records /\ records[k].session = s /\ p < k /\ k < n
          /\ records[k].kind = "control" /\ stamped[k] > stamped[k - 1]
      BY DEF HolesBetween, Of, LosesFrames, s
    <3>2. k - 1 \in DOMAIN records /\ records[k - 1].session = s /\ k \in Nat
      BY <1>1, <1>6, <3>1 DEF CountGoesOn
    <3>3. Alike(p, k - 1) /\ Alike(k, n - 1)
      BY <1>2, <1>5, <1>7, <1>13, <3>1, <3>2 DEF Alike, s
    <3>4. stamped[p] <= stamped[k - 1] /\ stamped[k] <= stamped[n - 1]
      BY <1>5, <1>6, <1>7, <3>1, <3>2, <3>3 DEF CountRises
    <3> QED BY <1>5, <1>6, <1>7, <3>1, <3>2, <3>4
  <2>3. n \in SeqGaps <=> HolesBetween(p, n) # {}
    BY <1>9, <2>1, <2>2
  <2> QED BY <1>13, <2>3 DEF p, s
<1>14. CASE records[p].session # s
  <2>1. ASSUME ~Gap PROVE HolesBetween(p, n) # {}
    <3>1. PICK h \in 1 .. n : records[h].kind = "header" /\ records[h].session = s
      BY <1>2, <1>6 DEF HasHeader, s
    <3>2. h \in DOMAIN records /\ h # n /\ h \in Nat /\ h <= n - 1
      BY <1>1, <1>2, <3>1
    <3>3. stamped[h] = 0
      BY <1>6, <3>1, <3>2 DEF CountBegins
    <3>4. stamped[h] # stamped[n - 1]
      BY <1>5, <1>6, <1>8, <2>1, <3>3
    <3>5. PICK k \in h + 1 .. n - 1 : k \in DOMAIN records /\ Counts(k) /\ records[k].session = s
      BY <1>12, <3>1, <3>2, <3>4
    <3>6. k < n /\ k \in Nat
      BY <1>2, <3>2
    <3>7. p < k
      <4> SUFFICES ASSUME k <= p PROVE FALSE
        BY <1>5, <3>6
      <4>1. records[k].session <= records[p].session /\ records[p].session <= records[n].session
        BY <1>2, <1>5, <3>5 DEF SessionsRise
      <4>2. records[p].session \in Nat /\ s \in Nat
        BY <1>2, <1>5 DEF CaptureInv, HeadersFirst, s
      <4> QED BY <1>14, <3>5, <4>1, <4>2 DEF s
    <3> QED BY <1>11, <3>5, <3>6, <3>7
  <2>2. n \in SeqGaps \/ HolesBetween(p, n) # {}
    BY <1>9, <2>1
  <2> QED BY <1>14, <2>2 DEF p, s
<1> QED BY <1>13, <1>14

(* What inspect reports as a gap inside a session is a handshake that      *)
(* failed with frames in hand, and nothing a kill, a torn line or a        *)
(* spoiled gzip member took; and it reports where a session begins, unless *)
(* such handshakes hide it (inspect.py:72-89, client.py:98, 192-199,       *)
(* subscription.py:106, recorder.py:117-154).                              *)
THEOREM GapsAreExplained == SessionSpec => []SeqGapsAreExplained
BY CaptureInvHolds, SessionsKeepRising, StampInvHolds, GapsAreHoles, PTL

-----------------------------------------------------------------------------
(* What becomes of headers.                                                *)

(* The first k tokens of t hold the whole text of record n and its         *)
(* newline, whatever stands before them.                                   *)
Standing(t, k, n) ==
    \E i \in 1 .. k - 2 :
        /\ t[i] = [record |-> n, part |-> "head"]
        /\ t[i + 1] = [record |-> n, part |-> "tail"]
        /\ t[i + 2] = [record |-> n, part |-> "newline"]

IsHeader(n, s) == n \in DOMAIN records /\ records[n].kind = "header" /\ records[n].session = s
SessionAt(i) == records[Written[i].record].session

(* A token that ends no line is followed by the next of its own line, or   *)
(* its session was killed there.                                           *)
GoesOn(i) ==
    \/ /\ i + 1 \in DOMAIN Written
       /\ Written[i + 1].part # "head" /\ Written[i + 1].record = Written[i].record
    \/ SessionAt(i) \in killed /\ (i + 1 \in DOMAIN Written => SessionAt(i) < SessionAt(i + 1))

HeaderBefore(j) ==
    \A h \in DOMAIN records : IsHeader(h, SessionAt(j)) /\ h < Written[j].record => Standing(Written, j - 1, h)

SeamInv ==
    /\ \A i \in DOMAIN Written : Written[i].part # "newline" => GoesOn(i)
    /\ \A i \in Len(disk) + 1 .. End : SessionAt(i) = session
    /\ \A i, j \in DOMAIN Written : i <= j => Written[i].record <= Written[j].record
    /\ \A j \in DOMAIN Written : HeaderBefore(j)
    /\ opened => \A h \in DOMAIN records : IsHeader(h, session) => Standing(Written, End, h)

LEMMA StandingStays ==
    ASSUME NEW t, NEW u, NEW k \in Nat, NEW l \in Nat, NEW n, k <= l,
           \A i \in 1 .. k : u[i] = t[i], Standing(t, k, n)
    PROVE  Standing(u, l, n)
<1>1. PICK i \in 1 .. k - 2 :
        /\ t[i] = [record |-> n, part |-> "head"]
        /\ t[i + 1] = [record |-> n, part |-> "tail"]
        /\ t[i + 2] = [record |-> n, part |-> "newline"]
  BY DEF Standing
<1>2. /\ i \in 1 .. l - 2
      /\ u[i] = t[i] /\ u[i + 1] = t[i + 1] /\ u[i + 2] = t[i + 2]
  OBVIOUS
<1> QED BY <1>1, <1>2 DEF Standing

LEMMA SeamAppends ==
    ASSUME CaptureInv, SeamInv, Appends
    PROVE  SeamInv'
<1> PICK L \in Nat, E \in Nat : L = New /\ E = End
  BY AppendsShape, CaptureAssumption
<1>1. /\ DOMAIN records = 1 .. L - 1 /\ DOMAIN records' = 1 .. L
      /\ \A n \in 1 .. L - 1 : records'[n] = records[n]
      /\ records'[L].session = session' /\ killed' = killed /\ opened'
      /\ Len(records) = L - 1
  BY AppendsShape, AppendsAdds, AppendsIs, CaptureAssumption DEF CaptureInv, New
<1>2. /\ End = E /\ End' = E + 3
      /\ \A i \in 1 .. E : Written'[i] = Written[i]
      /\ Written'[E + 1] = [record |-> L, part |-> "head"]
      /\ Written'[E + 2] = [record |-> L, part |-> "tail"]
      /\ Written'[E + 3] = [record |-> L, part |-> "newline"]
      /\ DOMAIN Written = 1 .. E /\ DOMAIN Written' = 1 .. E + 3
      /\ Len(disk) \in 0 .. E /\ Len(disk') \in Len(disk) .. E + 3
  BY AppendsShape, CaptureAssumption
<1>3. \/ session' = session + 1 /\ ~opened /\ records'[L].kind = "header"
      \/ session' = session /\ opened /\ records'[L].kind \in {"msg", "control"}
  BY AppendsIs, CaptureAssumption DEF CaptureInv, New
<1>4. /\ session \in Nat /\ \A n \in 1 .. L - 1 : records[n].session \in 1 .. session
      /\ ~opened => pending = << >>
  BY <1>1 DEF CaptureInv, CaptureTypes, HeadersFirst
<1>5. \A i \in 1 .. E : /\ Written[i].record \in 1 .. L - 1
                        /\ SessionAt(i)' = SessionAt(i) /\ SessionAt(i) \in 1 .. session
  <2> TAKE i \in 1 .. E
  <2>1. Written[i].record \in 1 .. L - 1 /\ Written'[i] = Written[i]
    BY <1>1, <1>2 DEF CaptureInv, Bounded
  <2> QED BY <1>1, <1>4, <2>1 DEF SessionAt
<1>6. \A i \in E + 1 .. E + 3 : Written'[i].record = L /\ records'[Written'[i].record].session = session'
  <2> TAKE i \in E + 1 .. E + 3
  <2>1. i = E + 1 \/ i = E + 2 \/ i = E + 3
    OBVIOUS
  <2>2. Written'[i].record = L
    BY <1>2, <2>1
  <2> QED BY <1>1, <2>2
<1>7. ASSUME NEW h \in 1 .. L - 1, NEW k \in 0 .. E, NEW l \in Nat, k <= l, Standing(Written, k, h)
      PROVE  Standing(Written', l, h)
  <2>1. k \in Nat /\ \A i \in 1 .. k : Written'[i] = Written[i]
    BY <1>2
  <2> QED BY <1>7, <2>1, StandingStays
<1>8. ASSUME NEW h \in 1 .. L - 1, IsHeader(h, session)'
      PROVE  opened /\ Standing(Written, E, h)
  <2>1. records[h] = records'[h] /\ records[h].kind = "header" /\ records[h].session = session'
    BY <1>1, <1>8 DEF IsHeader
  <2>2. session' = session /\ opened
    BY <1>3, <1>4, <2>1
  <2>3. IsHeader(h, session)
    BY <1>1, <2>1, <2>2 DEF IsHeader
  <2> QED BY <1>1, <1>2, <2>2, <2>3 DEF SeamInv
<1>9. ASSUME NEW i \in 1 .. E + 3, Written'[i].part # "newline"
      PROVE  GoesOn(i)'
  <2>1. CASE i \in E + 1 .. E + 3
    <3>1. i + 1 \in E + 2 .. E + 3 /\ Written'[i + 1].part # "head"
      <4>1. i = E + 1 \/ i = E + 2
        BY <1>2, <1>9, <2>1
      <4>2. (E + 1) + 1 = E + 2 /\ (E + 2) + 1 = E + 3
        OBVIOUS
      <4> QED BY <1>2, <4>1, <4>2
    <3>2. i + 1 \in 1 .. E + 3 /\ i + 1 \in E + 1 .. E + 3
      BY <3>1
    <3>3. Written'[i + 1].record = Written'[i].record
      BY <1>6, <2>1, <3>2
    <3> QED BY <1>2, <3>1, <3>2, <3>3 DEF GoesOn
  <2>2. CASE i \in 1 .. E
    <3>1. GoesOn(i) /\ Written'[i] = Written[i]
      BY <1>2, <1>9, <2>2 DEF SeamInv
    <3>2. CASE /\ i + 1 \in DOMAIN Written
               /\ Written[i + 1].part # "head" /\ Written[i + 1].record = Written[i].record
      <4>1. i + 1 \in 1 .. E /\ i + 1 \in 1 .. E + 3
        BY <1>2, <3>2
      <4> QED BY <1>2, <3>1, <3>2, <4>1 DEF GoesOn
    <3>3. CASE SessionAt(i) \in killed /\ (i + 1 \in DOMAIN Written => SessionAt(i) < SessionAt(i + 1))
      <4>1. SessionAt(i)' \in killed'
        BY <1>1, <1>5, <2>2, <3>3
      <4>2. CASE i + 1 \in 1 .. E
        <5>1. SessionAt(i + 1)' = SessionAt(i + 1) /\ SessionAt(i)' = SessionAt(i)
          BY <1>5, <2>2, <4>2
        <5>2. SessionAt(i)' < SessionAt(i + 1)'
          BY <1>2, <3>3, <4>2, <5>1
        <5>3. (i + 1 \in DOMAIN Written')  => SessionAt(i)' < SessionAt(i + 1)'
          BY <5>2
        <5> QED BY <4>1, <5>3 DEF GoesOn
      <4>3. CASE i = E
        <5>1. ~opened
          BY <1>2, <1>9, <3>1, <4>3 DEF CaptureInv, LiveIsWhole, End
        <5>2. session' = session + 1
          BY <1>3, <5>1
        <5>3. SessionAt(E + 1)' = session'
          BY <1>6 DEF SessionAt
        <5>4. SessionAt(i)' < SessionAt(i + 1)'
          BY <1>4, <1>5, <2>2, <4>3, <5>2, <5>3
        <5> QED BY <4>1, <5>4 DEF GoesOn
      <4> QED BY <2>2, <4>2, <4>3
    <3> QED BY <3>1, <3>2, <3>3 DEF GoesOn
  <2> QED BY <2>1, <2>2
<1>10. ASSUME NEW i \in Len(disk') + 1 .. E + 3
       PROVE  SessionAt(i)' = session'
  <2>1. CASE i \in E + 1 .. E + 3
    BY <1>6, <2>1 DEF SessionAt
  <2>2. CASE i <= E
    <3>1. i \in Len(disk) + 1 .. E /\ i \in 1 .. E
      BY <1>2, <2>2
    <3>2. SessionAt(i) = session
      BY <1>2, <3>1 DEF SeamInv
    <3>3. opened
      <4> SUFFICES ASSUME ~opened PROVE FALSE
        OBVIOUS
      <4>1. Len(pending) = 0 /\ Len(disk) \in Nat
        BY <1>2, <1>4
      <4>2. CaptureTypes
        BY DEF CaptureInv
      <4>3. Len(Written) = Len(disk) + Len(pending)
        BY <4>2, WrittenIsSeq
      <4>4. Len(disk) = E
        BY <1>2, <4>1, <4>3 DEF End
      <4> QED BY <3>1, <4>4
    <3> QED BY <1>3, <1>5, <3>1, <3>2, <3>3
  <2> QED BY <1>2, <2>1, <2>2
<1>11. ASSUME NEW i \in 1 .. E + 3, NEW j \in 1 .. E + 3, i <= j
       PROVE  Written'[i].record <= Written'[j].record
  <2>1. CASE j \in 1 .. E
    <3>1. i \in 1 .. E
      BY <1>11, <2>1
    <3> QED BY <1>2, <1>11, <2>1, <3>1 DEF SeamInv
  <2>2. CASE j \in E + 1 .. E + 3
    <3>1. CASE i \in 1 .. E
      BY <1>2, <1>5, <1>6, <2>2, <3>1
    <3>2. CASE i \in E + 1 .. E + 3
      BY <1>6, <2>2, <3>2
    <3> QED BY <3>1, <3>2
  <2> QED BY <2>1, <2>2
<1>12. ASSUME NEW j \in 1 .. E + 3
       PROVE  HeaderBefore(j)'
  <2> SUFFICES ASSUME NEW h \in 1 .. L, IsHeader(h, SessionAt(j))', h < Written'[j].record
               PROVE  Standing(Written', j - 1, h)
    BY <1>1 DEF HeaderBefore
  <2>1. CASE j \in 1 .. E
    <3>1. Written'[j] = Written[j] /\ SessionAt(j)' = SessionAt(j) /\ Written[j].record \in 1 .. L - 1
      BY <1>2, <1>5, <2>1
    <3>2. h \in 1 .. L - 1 /\ records'[h] = records[h]
      BY <1>1, <3>1
    <3>3. IsHeader(h, SessionAt(j)) /\ h < Written[j].record
      BY <1>1, <3>1, <3>2 DEF IsHeader
    <3>4. Standing(Written, j - 1, h)
      BY <1>1, <1>2, <2>1, <3>2, <3>3 DEF SeamInv, HeaderBefore
    <3> QED BY <1>7, <2>1, <3>2, <3>4
  <2>2. CASE j \in E + 1 .. E + 3
    <3>1. h \in 1 .. L - 1 /\ SessionAt(j)' = session'
      BY <1>6, <2>2 DEF SessionAt
    <3>2. IsHeader(h, session)'
      BY <3>1 DEF IsHeader
    <3>3. Standing(Written, E, h)
      BY <1>8, <3>1, <3>2
    <3>4. j - 1 \in Nat /\ E <= j - 1 /\ E \in 0 .. E
      BY <2>2
    <3> QED BY <1>7, <3>1, <3>3, <3>4
  <2> QED BY <2>1, <2>2
<1>13. ASSUME NEW h \in 1 .. L, IsHeader(h, session)'
       PROVE  Standing(Written', E + 3, h)
  <2>1. CASE h \in 1 .. L - 1
    <3>1. Standing(Written, E, h)
      BY <1>8, <1>13, <2>1
    <3> QED BY <1>7, <2>1, <3>1
  <2>2. CASE h = L
    <3>1. E + 1 \in 1 .. (E + 3) - 2 /\ (E + 1) + 1 = E + 2 /\ (E + 1) + 2 = E + 3
      OBVIOUS
    <3> QED BY <1>2, <2>2, <3>1 DEF Standing
  <2> QED BY <2>1, <2>2
<1> QED BY <1>1, <1>2, <1>9, <1>10, <1>11, <1>12, <1>13 DEF SeamInv

LEMMA LastOfTheRest ==
    ASSUME NEW a \in Nat, NEW b \in Nat, NEW i \in Nat, NEW e \in Nat,
           a <= b, b <= i, i + 1 \in 1 .. e
    PROVE  i + 1 \in a + 1 .. e
OBVIOUS

LEMMA SeamMoves ==
    ASSUME CaptureInv, SeamInv, Moved
    PROVE  SeamInv'
<1> PICK E \in Nat, F \in Nat : E = End /\ F = End'
  <2>1. CaptureTypes /\ CaptureTypes'
    BY DEF CaptureInv, Moved
  <2>2. /\ disk \in Seq(Token) /\ pending \in Seq(Token)
        /\ disk' \in Seq(Token) /\ pending' \in Seq(Token)
    BY <2>1 DEF CaptureTypes
  <2>3. End \in Nat /\ End' \in Nat
    BY <2>2, Joined, LenProperties DEF Written, End
  <2> QED BY <2>3
<1>1. /\ UNCHANGED <<records, session>> /\ killed \subseteq killed'
      /\ Len(disk) <= Len(disk') /\ F <= E
      /\ \A i \in 1 .. F : Written'[i] = Written[i]
      /\ opened' => opened /\ F = E
      /\ F # E => session \in killed'
  BY DEF Moved
<1>2. /\ DOMAIN Written = 1 .. E /\ DOMAIN Written' = 1 .. F
      /\ Len(disk) \in 0 .. E /\ Len(disk') \in 0 .. F
      /\ DOMAIN records = 1 .. Len(records) /\ Len(records) \in Nat
  <2>1. /\ DOMAIN Written = 1 .. End /\ Len(disk) \in 0 .. End
        /\ DOMAIN records = 1 .. Len(records) /\ Len(records) \in Nat
    BY WrittenIsSeq DEF CaptureInv, CaptureTypes, End
  <2>2. disk' \in Seq(Token) /\ pending' \in Seq(Token)
    BY DEF Moved, CaptureTypes
  <2>3. DOMAIN Written' = 1 .. End' /\ Len(disk') \in 0 .. End'
    BY <2>2, Joined DEF Written, End
  <2> QED BY <2>1, <2>3
<1>3. \A i \in 1 .. F : i \in 1 .. E /\ SessionAt(i)' = SessionAt(i)
  BY <1>1 DEF SessionAt
<1>4. ASSUME NEW h, NEW k \in 0 .. F, Standing(Written, k, h)
      PROVE  Standing(Written', k, h)
  <2>1. k \in Nat /\ k <= k /\ \A i \in 1 .. k : Written'[i] = Written[i]
    BY <1>1
  <2> QED BY <1>4, <2>1, StandingStays
<1>5. ASSUME NEW i \in 1 .. F, Written'[i].part # "newline"
      PROVE  GoesOn(i)'
  <2>1. Written'[i] = Written[i] /\ GoesOn(i)
    BY <1>1, <1>2, <1>3, <1>5 DEF SeamInv
  <2>2. CASE /\ i + 1 \in DOMAIN Written
             /\ Written[i + 1].part # "head" /\ Written[i + 1].record = Written[i].record
    <3>1. CASE i + 1 \in 1 .. F
      BY <1>1, <1>2, <2>1, <2>2, <3>1 DEF GoesOn
    <3>2. CASE ~(i + 1 \in 1 .. F)
      <4>1. i = F /\ F # E
        BY <1>2, <2>2, <3>2
      <4>2. i + 1 \in Len(disk) + 1 .. E
        <5>1. i + 1 \in 1 .. E /\ Len(disk) \in Nat /\ Len(disk') \in 0 .. F
          BY <1>2, <2>2
        <5>2. Len(disk) <= Len(disk')
          BY <1>1
        <5>3. i = F /\ i + 1 \in 1 .. E
          BY <4>1, <5>1
        <5>4. Len(disk') \in Nat /\ Len(disk') <= F
          BY <5>1
        <5>5. F + 1 \in 1 .. E
          BY <5>3
        <5>6. F + 1 \in Len(disk) + 1 .. E
          BY <5>1, <5>2, <5>4, <5>5, LastOfTheRest
        <5> QED BY <5>3, <5>6
      <4>3. SessionAt(i + 1) = session
        BY <4>2 DEF SeamInv
      <4>4. SessionAt(i)' = session
        BY <1>3, <2>2, <4>3 DEF SessionAt
      <4> QED BY <1>1, <1>2, <3>2, <4>1, <4>4 DEF GoesOn
    <3> QED BY <3>1, <3>2
  <2>3. CASE SessionAt(i) \in killed /\ (i + 1 \in DOMAIN Written => SessionAt(i) < SessionAt(i + 1))
    <3>1. SessionAt(i)' \in killed'
      BY <1>1, <1>3, <2>3
    <3>2. i + 1 \in 1 .. F => SessionAt(i)' < SessionAt(i + 1)'
      BY <1>2, <1>3, <2>3
    <3> QED BY <1>2, <3>1, <3>2 DEF GoesOn
  <2> QED BY <2>1, <2>2, <2>3 DEF GoesOn
<1>6. ASSUME NEW i \in Len(disk') + 1 .. F
      PROVE  SessionAt(i)' = session'
  <2>1. i \in Len(disk) + 1 .. E /\ i \in 1 .. F
    BY <1>1, <1>2
  <2>2. SessionAt(i) = session
    BY <2>1 DEF SeamInv
  <2> QED BY <1>1, <1>3, <2>1, <2>2
<1>7. ASSUME NEW i \in 1 .. F, NEW j \in 1 .. F, i <= j
      PROVE  Written'[i].record <= Written'[j].record
  BY <1>1, <1>2, <1>3, <1>7 DEF SeamInv
<1>8. ASSUME NEW j \in 1 .. F
      PROVE  HeaderBefore(j)'
  <2>1. HeaderBefore(j) /\ Written'[j] = Written[j]
    BY <1>1, <1>2, <1>3 DEF SeamInv
  <2>2. ASSUME NEW h \in DOMAIN records', IsHeader(h, SessionAt(j))', h < Written'[j].record
        PROVE  Standing(Written', j - 1, h)
    <3>1. IsHeader(h, SessionAt(j)) /\ h < Written[j].record
      BY <1>1, <1>3, <2>1, <2>2 DEF IsHeader
    <3>2. Standing(Written, j - 1, h)
      BY <1>1, <2>1, <3>1 DEF HeaderBefore
    <3> QED BY <1>4, <3>2
  <2> QED BY <2>2 DEF HeaderBefore
<1>9. ASSUME opened', NEW h \in DOMAIN records', IsHeader(h, session)'
      PROVE  Standing(Written', F, h)
  <2>1. opened /\ IsHeader(h, session) /\ F = E
    BY <1>1, <1>9 DEF IsHeader
  <2>2. Standing(Written, F, h)
    BY <1>1, <1>9, <2>1 DEF SeamInv
  <2> QED BY <1>4, <2>2
<1> QED BY <1>2, <1>5, <1>6, <1>7, <1>8, <1>9 DEF SeamInv

(* Records and their tokens follow each other as they were written, and a  *)
(* line is broken off only where its session was killed                    *)
(* (recorder.py:72-103, 124-145).                                          *)
THEOREM SeamInvHolds == SessionSpec => []SeamInv
<1>1. SessionInit => SeamInv
  <2> SUFFICES ASSUME SessionInit PROVE SeamInv
    OBVIOUS
  <2>1. disk = << >> /\ pending = << >> /\ opened = FALSE
    BY DEF SessionInit, Init
  <2>2. Written = << >>
    BY <2>1, EmptyIsSeq, ConcatEmptySeq DEF Written
  <2>3. Len(disk) = 0 /\ End = 0 /\ DOMAIN Written = {}
    BY <2>1, <2>2 DEF End
  <2> QED BY <2>1, <2>3 DEF SeamInv
<1>2. CaptureInv /\ SeamInv /\ [SessionNext]_sessionVars => SeamInv'
  <2> SUFFICES ASSUME CaptureInv, SeamInv, [SessionNext]_sessionVars
               PROVE  SeamInv'
    OBVIOUS
  <2>1. CASE Start \/ PumpFrame \/ PumpEvent
    BY <2>1, SeamAppends DEF Start, PumpFrame, PumpEvent, Appends
  <2>2. CASE MainJoins \/ Killed \/ Spilled
    BY <2>2, CloseMoves, KillMoves, SpillMoves, SeamMoves DEF MainJoins, Killed, Spilled
  <2>3. CASE PumpEnds \/ Signal \/ MainWakes \/ UNCHANGED sessionVars
    <3>1. UNCHANGED <<disk, pending, records, session, killed, opened>>
      BY <2>3 DEF PumpEnds, Signal, MainWakes, sessionVars, vars
    <3>2. Written' = Written
      BY <3>1 DEF Written
    <3>3. \A i : SessionAt(i)' = SessionAt(i)
      BY <3>1, <3>2 DEF SessionAt
    <3>4. ASSUME NEW i, GoesOn(i) PROVE GoesOn(i)'
      BY <3>1, <3>2, <3>3, <3>4 DEF GoesOn
    <3>5. ASSUME NEW j, HeaderBefore(j) PROVE HeaderBefore(j)'
      BY <3>1, <3>2, <3>3, <3>5 DEF HeaderBefore, IsHeader
    <3>6. End' = End
      BY <3>2 DEF End
    <3> QED BY <3>1, <3>2, <3>3, <3>4, <3>5, <3>6 DEF SeamInv, IsHeader
  <2> QED BY <2>1, <2>2, <2>3 DEF SessionNext
<1> QED BY <1>1, <1>2, CaptureInvHolds, PTL DEF SessionSpec

(* What stands in front of a header that is not decoded is the torn line   *)
(* of a killed session.                                                    *)
LEMMA HeadersAreTorn == CaptureInv /\ SessionsRise /\ SeamInv => HeaderLossIsTorn
<1> SUFFICES ASSUME CaptureInv, SessionsRise, SeamInv, NEW n \in DOMAIN records,
                    records[n].kind = "header", ~Decodes(n),
                    NEW m \in Of(records[n].session), Decodes(m)
             PROVE  \E r \in killed : /\ r < records[n].session /\ OnDisk(r)
                                      /\ \A t \in r + 1 .. records[n].session - 1 : ~OnDisk(t)
  BY DEF HeaderLossIsTorn
<1>1. /\ disk \in Seq(Token) /\ Len(disk) \in Nat /\ DOMAIN disk = 1 .. Len(disk)
      /\ DOMAIN Written = 1 .. Len(Written) /\ Len(Written) \in Nat
      /\ Len(disk) <= Len(Written) /\ \A j \in 1 .. Len(disk) : Written[j] = disk[j]
      /\ Len(records) \in Nat /\ DOMAIN records = 1 .. Len(records)
  <2>1. CaptureTypes
    BY DEF CaptureInv
  <2>2. disk \in Seq(Token)
    BY <2>1 DEF CaptureTypes
  <2> QED BY <2>1, <2>2, WrittenIsSeq
<1>2. PICK k \in 0 .. Len(disk) : k = IF cut < Len(disk) THEN cut ELSE Len(disk)
  <2>1. cut \in Nat
    BY DEF CaptureInv, CaptureTypes
  <2>2. (IF cut < Len(disk) THEN cut ELSE Len(disk)) \in 0 .. Len(disk)
    BY <1>1, <2>1
  <2> QED BY <2>2
<1>0. /\ k \in Nat /\ k <= Len(disk) /\ 1 .. k \subseteq 1 .. Len(disk)
      /\ 1 .. k \subseteq DOMAIN Written
  <2>1. PICK d \in Nat, w \in Nat : d = Len(disk) /\ w = Len(Written)
    BY <1>1
  <2>2. d <= w /\ k \in 0 .. d /\ DOMAIN Written = 1 .. w
    BY <1>1, <1>2, <2>1
  <2>3. k \in Nat /\ k <= d /\ 1 .. k \subseteq 1 .. d /\ 1 .. k \subseteq 1 .. w
    BY <2>2
  <2> QED BY <2>1, <2>2, <2>3
<1>3. /\ Text \in Seq(Token) /\ Len(Text) = k /\ DOMAIN Text = 1 .. k
      /\ \A j \in 1 .. k : Text[j] = Written[j]
  <2>1. Text = SubSeq(disk, 1, k)
    BY <1>2 DEF Text
  <2>2. Text \in Seq(Token) /\ Len(Text) = k /\ \A j \in 1 .. k : Text[j] = disk[j]
    BY <1>1, <1>0, <2>1, SubSeqProperties
  <2>3. DOMAIN Text = 1 .. k
    BY <2>2, LenProperties
  <2> QED BY <1>1, <1>0, <2>2, <2>3
<1>4. PICK j \in 1 .. k : Written[j] = [record |-> m, part |-> "head"]
  BY <1>3 DEF Decodes, IsPart
<1>5. /\ j \in DOMAIN Written /\ Written[j].record = m /\ m \in DOMAIN records
      /\ SessionAt(j) = records[n].session /\ m \in Nat /\ n \in Nat
  <2>1. j \in DOMAIN Written /\ Written[j].record = m
    BY <1>0, <1>4
  <2>2. m \in DOMAIN records /\ records[m].session = records[n].session
    BY DEF Of
  <2> QED BY <1>1, <2>1, <2>2 DEF SessionAt
<1>6. n < m
  <2>1. m # n
    OBVIOUS
  <2>2. records[m].session = records[n].session /\ records[n].session \in Nat
    BY DEF Of, CaptureInv, HeadersFirst
  <2>3. ~(m < n)
    BY <1>5, <2>2 DEF CaptureInv, HeadersFirst
  <2> QED BY <1>5, <2>1, <2>3
<1>7. Standing(Written, j - 1, n)
  BY <1>5, <1>6 DEF SeamInv, HeaderBefore, IsHeader
<1>8. PICK i \in 1 .. j - 1 - 2 :
        /\ Written[i] = [record |-> n, part |-> "head"]
        /\ Written[i + 1] = [record |-> n, part |-> "tail"]
        /\ Written[i + 2] = [record |-> n, part |-> "newline"]
  BY <1>7 DEF Standing
<1>9. /\ i \in 1 .. k /\ i + 1 \in 1 .. k /\ i + 2 \in 1 .. k
      /\ i + 1 # k /\ (i + 1) + 1 = i + 2
  BY <1>2
<1>10. ~StartsLine(i)
  <2>1. /\ Text[i] = [record |-> n, part |-> "head"]
        /\ Text[i + 1] = [record |-> n, part |-> "tail"]
        /\ Text[i + 2].part = "newline"
    BY <1>3, <1>8, <1>9
  <2>2. EndsLine(i + 1)
    BY <1>3, <1>9, <2>1 DEF EndsLine
  <2> QED BY <1>3, <1>9, <2>1, <2>2 DEF Decodes, IsPart
<1>11. /\ i - 1 \in 1 .. k /\ (i - 1) + 1 = i /\ Written[i - 1].part # "newline"
  <2>1. i # 1 /\ Text[i - 1].part # "newline"
    BY <1>10 DEF StartsLine
  <2>2. i - 1 \in 1 .. k
    BY <1>2, <1>9, <2>1
  <2> QED BY <1>3, <2>1, <2>2
<1>12. i \in DOMAIN Written /\ i - 1 \in DOMAIN Written /\ i - 1 \in 1 .. Len(disk)
  BY <1>0, <1>9, <1>11
<1>13. SessionAt(i - 1) \in killed /\ SessionAt(i - 1) < SessionAt(i)
  <2>1. GoesOn(i - 1)
    BY <1>11, <1>12 DEF SeamInv
  <2>2. Written[(i - 1) + 1].part = "head" /\ (i - 1) + 1 \in DOMAIN Written
    BY <1>8, <1>11, <1>12
  <2> QED BY <1>11, <2>1, <2>2 DEF GoesOn
<1>14. SessionAt(i) = records[n].session
  BY <1>8 DEF SessionAt
<1>15. PICK r : r = SessionAt(i - 1)
  OBVIOUS
<1>16. OnDisk(r)
  BY <1>1, <1>12, <1>15 DEF OnDisk, SessionAt
<1>17. ASSUME NEW t \in r + 1 .. records[n].session - 1, OnDisk(t)
       PROVE  FALSE
  <2>1. PICK q \in 1 .. Len(disk) : records[disk[q].record].session = t
    BY <1>1, <1>17 DEF OnDisk
  <2>2. q \in DOMAIN Written /\ SessionAt(q) = t /\ q \in Nat /\ i \in Nat
    BY <1>1, <2>1 DEF SessionAt
  <2>3. \A a, b \in DOMAIN Written : a <= b => SessionAt(a) <= SessionAt(b)
    <3> SUFFICES ASSUME NEW a \in DOMAIN Written, NEW b \in DOMAIN Written, a <= b
                 PROVE  SessionAt(a) <= SessionAt(b)
      OBVIOUS
    <3>1. Written[a].record \in DOMAIN records /\ Written[b].record \in DOMAIN records
      BY DEF CaptureInv, Bounded
    <3>2. Written[a].record <= Written[b].record
      BY DEF SeamInv
    <3> QED BY <3>1, <3>2 DEF SessionsRise, SessionAt
  <2>4. SessionAt(i - 1) \in Nat /\ SessionAt(i) \in Nat
    <3>1. Written[i].record \in DOMAIN records /\ Written[i - 1].record \in DOMAIN records
      BY <1>12 DEF CaptureInv, Bounded
    <3> QED BY <3>1 DEF SessionAt, CaptureInv, HeadersFirst
  <2>5. q <= i - 1 \/ i <= q
    BY <2>2
  <2>6. t <= r \/ records[n].session <= t
    BY <1>12, <1>14, <1>15, <2>2, <2>3, <2>5
  <2> QED BY <1>14, <1>15, <2>4, <2>6
<1> QED BY <1>13, <1>14, <1>15, <1>16, <1>17

(* A session that can be read lacks its header only where the session      *)
(* before it in the file was killed (recorder.py:76-103, 124-145).         *)
THEOREM HeadersAreLostToKills == SessionSpec => []HeaderLossIsTorn
BY CaptureInvHolds, SessionsKeepRising, SeamInvHolds, HeadersAreTorn, PTL
=============================================================================
