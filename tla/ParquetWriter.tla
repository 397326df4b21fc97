--------------------------- MODULE ParquetWriter ---------------------------
(***************************************************************************)
(* l2tca.io.writer.PartitionedParquetWriter, used as the CLI uses it: one  *)
(* writer per conversion, inside a `with`, several conversions one after   *)
(* the other against the same root.  What is on disk outlives a writer;    *)
(* its buffers, its part counters and its set of checked partitions do     *)
(* not.  The file system is external: writing a file may fail, and a kill  *)
(* may leave a torn one behind.                                            *)
(***************************************************************************)
EXTENDS Naturals, SequencesExt

CONSTANTS
    Partitions,   \* partition_of's keys: symbol, date and hour
    Schemas,      \* the versions of the table's schema
    MaxRows,      \* max_rows_per_flush
    MaxTaken,     \* bound on the rows one conversion takes
    MaxRuns       \* bound on the conversions

ASSUME WriterAssumption ==
    MaxRows \in Nat \ {0} /\ MaxTaken \in Nat /\ MaxRuns \in Nat \ {0}

VARIABLES
    disk,       \* <<partition, index>> |-> the part file of that name
    run,        \* which conversion this is, and
    schema,     \* self.spec.schema of its writer
    buffers,    \* self._buffers: rows, as their number in the conversion
    partIndex,  \* self._part_index
    checked,    \* self._checked
    phase,      \* where the `with` block is
    due,        \* partitions the running call has yet to flush
    failed,     \* history: an exception was raised in this conversion
    taken       \* history: the rows write_rows took in this conversion

vars == <<disk, run, schema, buffers, partIndex, checked, phase, due, failed, taken>>

(* A row belongs to a partition; a row that is not sound has no value for  *)
(* a non-nullable column, and no Arrow table can be built with it.         *)
Row == [key : Partitions, sound : BOOLEAN]
File == [run : 1 .. MaxRuns, schema : Schemas, torn : BOOLEAN, rows : Seq(1 .. MaxTaken)]

TypeOK ==
    /\ DOMAIN disk \subseteq Partitions \X Nat
    /\ \A path \in DOMAIN disk : disk[path] \in File
    /\ run \in 1 .. MaxRuns /\ schema \in Schemas
    /\ taken \in Seq(Row) /\ Len(taken) <= MaxTaken
    /\ buffers \in [Partitions -> Seq(1 .. Len(taken))]
    /\ partIndex \in [Partitions -> Nat]
    /\ checked \subseteq Partitions /\ due \subseteq Partitions
    /\ phase \in {"open", "exiting", "closed", "raised", "killed"}
    /\ failed \in BOOLEAN

Filled(buf) == {k \in Partitions : buf[k] # << >>}
NoRows == [k \in Partitions |-> << >>]
NoParts == [k \in Partitions |-> 0]

Init ==
    /\ disk = << >>
    /\ run = 1
    /\ schema \in Schemas
    /\ buffers = NoRows /\ partIndex = NoParts /\ checked = {}
    /\ phase = "open" /\ due = {} /\ failed = FALSE
    /\ taken = << >>

(* Mutant of WriteRow: the cap is looked at one row late.                  *)
WriteRowLate(k) ==
    /\ phase = "open" /\ due = {}
    /\ Len(taken) < MaxTaken
    /\ \E sound \in BOOLEAN : taken' = Append(taken, [key |-> k, sound |-> sound])
    /\ buffers' = [buffers EXCEPT ![k] = Append(@, Len(taken'))]
    /\ due' = IF Len(buffers'[k]) > MaxRows THEN {k} ELSE {}
    /\ UNCHANGED <<disk, run, schema, partIndex, checked, phase, failed>>

(***************************************************************************)
(* write_rows, one row per step; a full buffer is flushed before the next. *)
(***************************************************************************)
WriteRow(k) ==
    /\ phase = "open" /\ due = {}
    /\ Len(taken) < MaxTaken
    /\ \E sound \in BOOLEAN : taken' = Append(taken, [key |-> k, sound |-> sound])
    /\ buffers' = [buffers EXCEPT ![k] = Append(@, Len(taken'))]
    /\ due' = IF Len(buffers'[k]) >= MaxRows THEN {k} ELSE {}
    /\ UNCHANGED <<disk, run, schema, partIndex, checked, phase, failed>>

(* flush(), called between two rows.                                       *)
FlushAll ==
    /\ phase = "open" /\ due = {} /\ Filled(buffers) # {}
    /\ due' = Filled(buffers)
    /\ UNCHANGED <<disk, run, schema, buffers, partIndex, checked, phase, failed, taken>>

(* The rows end, or reading them raises: __exit__, close, flush.           *)
Exit ==
    /\ phase = "open" /\ due = {}
    /\ phase' = "exiting"
    /\ due' = Filled(buffers)
    /\ UNCHANGED <<disk, run, schema, buffers, partIndex, checked, failed, taken>>

(***************************************************************************)
(* _flush_partition.                                                       *)
(***************************************************************************)
Parts(k) == {i \in {path[2] : path \in DOMAIN disk} : <<k, i>> \in DOMAIN disk}
Least(S) == CHOOSE i \in S : \A j \in S : i <= j

(* _check_existing looks at one file, and once per partition and writer.   *)
Matches(file) == ~file.torn /\ file.schema = schema

(* Mutant of Drifted: the file is opened, its columns are not compared.    *)
DriftedIfTorn(k) ==
    k \notin checked /\ Parts(k) # {} /\ disk[<<k, Least(Parts(k))>>].torn

Drifted(k) == k \notin checked /\ Parts(k) # {} /\ ~Matches(disk[<<k, Least(Parts(k))>>])

(* Mutant of FreeIndex: the files of earlier conversions are not looked at.*)
NextIndex(k) == partIndex[k]

FreeIndex(k) == Least({i \in partIndex[k] .. partIndex[k] + Cardinality(Parts(k)) :
                          i \notin Parts(k)})

(* An exception leaves write_rows for the `with`, whose __exit__ flushes   *)
(* what is buffered; one raised there leaves the `with`.                   *)
Raise ==
    /\ failed' = TRUE
    /\ IF phase = "open" THEN phase' = "exiting" /\ due' = Filled(buffers)
                         ELSE phase' = "raised" /\ due' = {}
    /\ UNCHANGED <<disk, run, schema, buffers, taken>>

Flushes(k) == k \in due /\ checked' = checked \cup {k}

FlushDrifted(k) ==
    /\ Flushes(k) /\ Drifted(k)
    /\ Raise
    /\ UNCHANGED partIndex

(* Arrow refuses a row, or the file cannot be written (and is removed).    *)
FlushFails(k) ==
    /\ Flushes(k) /\ ~Drifted(k)
    /\ partIndex' = [partIndex EXCEPT ![k] = FreeIndex(k) + 1]
    /\ Raise

Part(k, torn) == [run |-> run, schema |-> schema, torn |-> torn, rows |-> buffers[k]]
Saved(path, file) == [p \in DOMAIN disk \cup {path} |-> IF p = path THEN file ELSE disk[p]]

(* Mutant of FlushWrites: the buffer is not emptied.                       *)
FlushKeepsRows(k) ==
    /\ Flushes(k) /\ ~Drifted(k)
    /\ \A i \in DOMAIN buffers[k] : taken[buffers[k][i]].sound
    /\ disk' = Saved(<<k, FreeIndex(k)>>, Part(k, FALSE))
    /\ partIndex' = [partIndex EXCEPT ![k] = FreeIndex(k) + 1]
    /\ due' = due \ {k}
    /\ UNCHANGED <<run, schema, buffers, phase, failed, taken>>

FlushWrites(k) ==
    /\ Flushes(k) /\ ~Drifted(k)
    /\ \A i \in DOMAIN buffers[k] : taken[buffers[k][i]].sound
    /\ disk' = Saved(<<k, FreeIndex(k)>>, Part(k, FALSE))
    /\ partIndex' = [partIndex EXCEPT ![k] = FreeIndex(k) + 1]
    /\ buffers' = [buffers EXCEPT ![k] = << >>]
    /\ due' = due \ {k}
    /\ UNCHANGED <<run, schema, phase, failed, taken>>

Close ==
    /\ phase = "exiting" /\ due = {}
    /\ phase' = "closed"
    /\ UNCHANGED <<disk, run, schema, buffers, partIndex, checked, due, failed, taken>>

(***************************************************************************)
(* The process is killed, perhaps while a file is being written; and the   *)
(* next conversion, with the same schema or another.                       *)
(***************************************************************************)
Kill ==
    /\ phase \in {"open", "exiting"}
    /\ phase' = "killed"
    /\ \/ UNCHANGED disk
       \/ \E k \in due : ~Drifted(k) /\ disk' = Saved(<<k, FreeIndex(k)>>, Part(k, TRUE))
    /\ UNCHANGED <<run, schema, buffers, partIndex, checked, due, failed, taken>>

Rerun ==
    /\ phase \in {"closed", "raised", "killed"} /\ run < MaxRuns
    /\ run' = run + 1
    /\ schema' \in Schemas
    /\ buffers' = NoRows /\ partIndex' = NoParts /\ checked' = {}
    /\ phase' = "open" /\ due' = {} /\ failed' = FALSE
    /\ taken' = << >>
    /\ UNCHANGED disk

Flush(k) == FlushDrifted(k) \/ FlushFails(k) \/ FlushWrites(k)

Next ==
    \/ \E k \in Partitions : WriteRow(k) \/ Flush(k)
    \/ FlushAll \/ Exit \/ Close \/ Kill \/ Rerun

Spec == Init /\ [][Next]_vars

-----------------------------------------------------------------------------
(* The part files of k that this conversion wrote, and the rows it took.   *)
Mine(k) == {i \in Parts(k) : disk[<<k, i>>].run = run /\ ~disk[<<k, i>>].torn}
Taken(k) == {n \in DOMAIN taken : taken[n].key = k}

Rises(rows) == \A m, n \in DOMAIN rows : m < n => rows[m] < rows[n]
Precedes(rows, others) == \A m \in Range(rows), n \in Range(others) : m < n

(* What a reader meets part by part, by index, and the buffer behind it,   *)
(* is what was taken, each row once and in order.                          *)
InPlace(k) ==
    LET rows(i) == disk[<<k, i>>].rows
    IN  /\ Range(buffers[k]) \cup UNION {Range(rows(i)) : i \in Mine(k)} = Taken(k)
        /\ \A i \in Mine(k) : Rises(rows(i)) /\ Precedes(rows(i), buffers[k])
        /\ \A i, j \in Mine(k) : i < j => Precedes(rows(i), rows(j))
        /\ Rises(buffers[k])

(* Every row a conversion took is in exactly one place, in order: in its   *)
(* part files by index or behind them in the buffer, also after a flush    *)
(* failed, was retried by __exit__ or stopped the ones behind it; and once *)
(* the writer is closed every row is on disk (writer.py:93-102, 158-179).  *)
RowsConserved ==
    \A k \in Partitions :
        /\ InPlace(k)
        /\ phase = "closed" => buffers[k] = << >>

(* No part file ever changes or disappears, whatever earlier conversions   *)
(* left: "a rerun against the same root appends new parts rather than      *)
(* clobbering an existing capture" (writer.py:167-170).                    *)
NothingOverwritten ==
    [][\A path \in DOMAIN disk : path \in DOMAIN disk' /\ disk'[path] = disk[path]]_vars

(* max_rows_per_flush bounds every file, and no file is empty, wherever    *)
(* the flush came from (writer.py:86-91).                                  *)
PartsAreBounded == \A path \in DOMAIN disk : Len(disk[path].rows) \in 1 .. MaxRows

SchemasIn(files, k) ==
    {files[path].schema : path \in {p \in DOMAIN files : p[1] = k /\ ~files[p].torn}}

(* "every file in a directory was written by this class, so they agree     *)
(* with each other or the run that mixed them already failed here"         *)
(* (writer.py:133-135): a partition that comes to hold a second schema     *)
(* does so in a conversion that raised.  A later conversion may add to the *)
(* mixed partition without an error.                                       *)
MixingFails ==
    [][\A k \in Partitions :
          Cardinality(SchemasIn(disk, k)) <= 1 /\ Cardinality(SchemasIn(disk', k)) > 1
             => failed']_vars

(* "Refuse to append into a partition written under a different schema"    *)
(* (writer.py:124): no partition ever holds files of two schemas.          *)
OneShapePerPartition == \A k \in Partitions : Cardinality(SchemasIn(disk, k)) <= 1
=============================================================================
