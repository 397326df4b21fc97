------------------------ MODULE ParquetWriterProofs ------------------------
(***************************************************************************)
(* What PartitionedParquetWriter leaves on disk, for any partitions,       *)
(* schema versions, cap on rows, and any number of conversions, kills and  *)
(* failed flushes.                                                         *)
(***************************************************************************)
EXTENDS ParquetWriter, FiniteSetTheorems, SequenceTheorems, WellFoundedInduction, TLAPS

WriterTypes ==
    /\ \A k \in Partitions : IsFiniteSet(Parts(k)) /\ Parts(k) \subseteq Nat
    /\ \A path \in DOMAIN disk : disk[path].rows \in Seq(Nat) /\ path = <<path[1], path[2]>>
    /\ buffers \in [Partitions -> Seq(Nat)]
    /\ partIndex \in [Partitions -> Nat]
    /\ checked \subseteq Partitions /\ due \subseteq Partitions
    /\ taken \in Seq(Row)
    /\ phase \in {"open", "exiting", "closed", "raised", "killed"}

(* A buffer that has reached the cap waits for nothing but its flush.      *)
Capped ==
    /\ \A k \in Partitions : Len(buffers[k]) <= MaxRows
    /\ phase = "open" => \A k \in Partitions \ due : Len(buffers[k]) < MaxRows
    /\ \A k \in due : buffers[k] # << >>

(* A partition that was found to be of one schema is of the writer's, as   *)
(* long as nothing was raised.                                             *)
CheckedIsMine ==
    /\ \A k \in Partitions : IsFiniteSet(SchemasIn(disk, k))
    /\ ~failed => \A k \in checked :
          Cardinality(SchemasIn(disk, k)) <= 1 => SchemasIn(disk, k) \subseteq {schema}

WriterInv == WriterTypes /\ Capped /\ PartsAreBounded /\ CheckedIsMine

-----------------------------------------------------------------------------
LEMMA LeastIsLeast ==
    ASSUME NEW S \in SUBSET Nat, S # {}
    PROVE  Least(S) \in S /\ \A j \in S : Least(S) <= j
<1> DEFINE R == OpToRel(<, Nat)
<1>1. IsWellFoundedOn(R, Nat)
  BY NatLessThanWellFounded
<1> HIDE DEF R
<1>2. PICK m \in S : \A n \in S : ~(<<n, m>> \in R)
  BY <1>1, WFMin
<1>3. \A n \in S : ~(n < m)
  BY <1>2 DEF R, OpToRel
<1>4. \A n \in S : m <= n
  BY <1>3
<1> QED BY <1>4 DEF Least

(* Among one more number than there are part files, one names no file.     *)
LEMMA FreeIndexIsFree ==
    ASSUME WriterTypes, NEW k \in Partitions
    PROVE  FreeIndex(k) \in Nat \ Parts(k) /\ partIndex[k] <= FreeIndex(k)
<1> DEFINE P == Parts(k)
           a == partIndex[k]
           c == Cardinality(P)
           F == {i \in a .. a + c : i \notin P}
<1>1. a \in Nat /\ IsFiniteSet(P) /\ c \in Nat
  BY FS_CardinalityType DEF WriterTypes
<1> HIDE DEF P, a, c
<1>2. F # {}
  <2> SUFFICES ASSUME F = {}
               PROVE  FALSE
    OBVIOUS
  <2>1. a .. a + c \in SUBSET P
    OBVIOUS
  <2>2. Cardinality(a .. a + c) <= c
    BY <1>1, <2>1, FS_Subset DEF c
  <2>3. Cardinality(a .. a + c) = a + c - a + 1
    BY <1>1, FS_Interval
  <2> QED BY <1>1, <2>2, <2>3
<1>3. F \in SUBSET Nat
  BY <1>1
<1>4. Least(F) \in F
  BY <1>2, <1>3, LeastIsLeast
<1>5. Least(F) = FreeIndex(k)
  BY DEF FreeIndex, P, a, c
<1>6. a <= Least(F)
  BY <1>1, <1>4
<1> QED BY <1>3, <1>4, <1>5, <1>6 DEF P, a

LEMMA AtMostOne ==
    ASSUME NEW S, IsFiniteSet(S)
    PROVE  /\ Cardinality(S) <= 1 <=> \A x, y \in S : x = y
<1>1. CASE S = {}
  BY <1>1, FS_EmptySet
<1>2. CASE \E x : S = {x}
  BY <1>2, FS_Singleton
<1>3. CASE S # {} /\ ~ \E x : S = {x}
  <2>1. Cardinality(S) \in Nat /\ Cardinality(S) # 0 /\ Cardinality(S) # 1
    BY <1>3, FS_CardinalityType, FS_EmptySet, FS_Singleton
  <2>2. PICK x \in S : TRUE
    BY <1>3
  <2>3. \E y \in S : y # x
    BY <1>3, <2>2
  <2> QED BY <2>1, <2>2, <2>3
<1> QED BY <1>1, <1>2, <1>3

(* A file saved under a free name changes no other.                        *)
LEMMA SavedAdds ==
    ASSUME WriterTypes, NEW k \in Partitions, NEW file,
           disk' = Saved(<<k, FreeIndex(k)>>, file)
    PROVE  /\ <<k, FreeIndex(k)>> \notin DOMAIN disk
           /\ DOMAIN disk' = DOMAIN disk \cup {<<k, FreeIndex(k)>>}
           /\ disk'[<<k, FreeIndex(k)>>] = file
           /\ \A path \in DOMAIN disk : disk'[path] = disk[path]
<1> DEFINE new == <<k, FreeIndex(k)>>
<1>1. new \notin DOMAIN disk
  <2>1. FreeIndex(k) \notin Parts(k)
    BY FreeIndexIsFree
  <2>2. new[2] = FreeIndex(k)
    OBVIOUS
  <2> QED BY <2>1, <2>2 DEF Parts
<1> HIDE DEF new
<1>2. disk' = [p \in DOMAIN disk \cup {new} |-> IF p = new THEN file ELSE disk[p]]
  BY DEF Saved, new
<1> QED BY <1>1, <1>2 DEF new

(* The files of a partition, and their schemas, after one more.            *)
LEMMA SavedFiles ==
    ASSUME WriterTypes, NEW k \in Partitions, NEW file,
           disk' = Saved(<<k, FreeIndex(k)>>, file)
    PROVE  /\ Parts(k)' = Parts(k) \cup {FreeIndex(k)}
           /\ \A l \in Partitions \ {k} : Parts(l)' = Parts(l)
           /\ SchemasIn(disk', k) = SchemasIn(disk, k) \cup
                                       (IF file.torn THEN {} ELSE {file.schema})
           /\ \A l \in Partitions \ {k} : SchemasIn(disk', l) = SchemasIn(disk, l)
<1> DEFINE i == FreeIndex(k)
           new == <<k, i>>
<1>1. /\ new \notin DOMAIN disk /\ DOMAIN disk' = DOMAIN disk \cup {new}
      /\ disk'[new] = file
      /\ \A path \in DOMAIN disk : disk'[path] = disk[path]
  BY SavedAdds
<1>2. new[1] = k /\ new[2] = i
  OBVIOUS
<1> HIDE DEF i
<1>3. \A l, j : <<l, j>> \in DOMAIN disk' <=> <<l, j>> \in DOMAIN disk \/ (l = k /\ j = i)
  BY <1>1
<1>4. \A l : Parts(l) = {j \in {path[2] : path \in DOMAIN disk} : <<l, j>> \in DOMAIN disk}
  BY DEF Parts
<1>5. \A l : Parts(l)' = {j \in {path[2] : path \in DOMAIN disk'} : <<l, j>> \in DOMAIN disk'}
  BY DEF Parts
<1>6. \A l, j : j \in Parts(l) <=> <<l, j>> \in DOMAIN disk
  <2> TAKE l, j
  <2>1. <<l, j>>[2] = j
    OBVIOUS
  <2> QED BY <1>4, <2>1
<1>7. \A l, j : j \in Parts(l)' <=> <<l, j>> \in DOMAIN disk'
  <2> TAKE l, j
  <2>1. <<l, j>>[2] = j
    OBVIOUS
  <2> QED BY <1>5, <2>1
<1>8. Parts(k)' = Parts(k) \cup {i}
  BY <1>3, <1>6, <1>7
<1>9. \A l \in Partitions \ {k} : Parts(l)' = Parts(l)
  <2> TAKE l \in Partitions \ {k}
  <2>1. \A j : j \in Parts(l)' <=> j \in Parts(l)
    BY <1>3, <1>6, <1>7
  <2> QED BY <2>1
<1>10. \A l : {p \in DOMAIN disk' : p[1] = l /\ ~disk'[p].torn} =
              {p \in DOMAIN disk : p[1] = l /\ ~disk[p].torn}
                 \cup (IF l = k /\ ~file.torn THEN {new} ELSE {})
  BY <1>1, <1>2
<1>11. SchemasIn(disk', k) = SchemasIn(disk, k) \cup (IF file.torn THEN {} ELSE {file.schema})
  <2> DEFINE Old == {p \in DOMAIN disk : p[1] = k /\ ~disk[p].torn}
             New == {p \in DOMAIN disk' : p[1] = k /\ ~disk'[p].torn}
  <2>1. SchemasIn(disk, k) = {disk[p].schema : p \in Old}
    BY DEF SchemasIn
  <2>2. SchemasIn(disk', k) = {disk'[p].schema : p \in New}
    BY DEF SchemasIn
  <2>3. New = Old \cup (IF file.torn THEN {} ELSE {new}) /\ Old \subseteq DOMAIN disk
    BY <1>10
  <2> HIDE DEF Old, New, new
  <2> QED BY <1>1, <2>1, <2>2, <2>3
<1>12. \A l \in Partitions \ {k} : SchemasIn(disk', l) = SchemasIn(disk, l)
  <2> TAKE l \in Partitions \ {k}
  <2> DEFINE Old == {p \in DOMAIN disk : p[1] = l /\ ~disk[p].torn}
             New == {p \in DOMAIN disk' : p[1] = l /\ ~disk'[p].torn}
  <2>1. SchemasIn(disk, l) = {disk[p].schema : p \in Old}
    BY DEF SchemasIn
  <2>2. SchemasIn(disk', l) = {disk'[p].schema : p \in New}
    BY DEF SchemasIn
  <2>3. New = Old /\ Old \subseteq DOMAIN disk
    BY <1>10
  <2> HIDE DEF Old, New, new
  <2> QED BY <1>1, <2>1, <2>2, <2>3
<1> QED BY <1>8, <1>9, <1>11, <1>12 DEF i

-----------------------------------------------------------------------------
(* What a flush that writes, or is killed at it, finds and leaves.         *)
LEMMA PartIsSound ==
    ASSUME WriterTypes, Capped, NEW k \in due, NEW torn \in BOOLEAN
    PROVE  /\ Part(k, torn).rows \in Seq(Nat) /\ Len(Part(k, torn).rows) \in 1 .. MaxRows
           /\ Part(k, torn).schema = schema /\ Part(k, torn).torn = torn
           /\ k \in Partitions
<1>1. k \in Partitions /\ buffers[k] \in Seq(Nat) /\ buffers[k] # << >>
  BY DEF WriterTypes, Capped
<1>2. Len(buffers[k]) \in Nat /\ Len(buffers[k]) # 0
  BY <1>1, LenProperties, EmptySeq
<1> QED BY <1>1, <1>2 DEF Part, Capped

LEMMA SaveKeeps ==
    ASSUME WriterInv, NEW k \in due, NEW torn \in BOOLEAN,
           disk' = Saved(<<k, FreeIndex(k)>>, Part(k, torn))
    PROVE  /\ \A l \in Partitions : IsFiniteSet(Parts(l)') /\ Parts(l)' \subseteq Nat
           /\ \A path \in DOMAIN disk' :
                 disk'[path].rows \in Seq(Nat) /\ path = <<path[1], path[2]>>
           /\ PartsAreBounded'
           /\ \A l \in Partitions : IsFiniteSet(SchemasIn(disk', l))
<1> USE DEF WriterInv
<1>1. k \in Partitions
  BY PartIsSound
<1>2. FreeIndex(k) \in Nat
  BY <1>1, FreeIndexIsFree
<1>3. \A l \in Partitions : IsFiniteSet(Parts(l)') /\ Parts(l)' \subseteq Nat
  <2>1. IsFiniteSet(Parts(k) \cup {FreeIndex(k)})
    BY <1>1, FS_AddElement DEF WriterTypes
  <2>2. /\ Parts(k)' = Parts(k) \cup {FreeIndex(k)}
        /\ \A l \in Partitions \ {k} : Parts(l)' = Parts(l)
    BY <1>1, SavedFiles
  <2>3. Parts(k) \subseteq Nat
    BY <1>1 DEF WriterTypes
  <2>4. IsFiniteSet(Parts(k)') /\ Parts(k)' \subseteq Nat
    BY <1>2, <2>1, <2>2, <2>3
  <2>5. \A l \in Partitions \ {k} : IsFiniteSet(Parts(l)') /\ Parts(l)' \subseteq Nat
    BY <2>2 DEF WriterTypes
  <2> QED BY <2>4, <2>5
<1>4. \A path \in DOMAIN disk' :
         /\ disk'[path].rows \in Seq(Nat) /\ path = <<path[1], path[2]>>
         /\ Len(disk'[path].rows) \in 1 .. MaxRows
  <2> DEFINE new == <<k, FreeIndex(k)>>
  <2>1. /\ DOMAIN disk' = DOMAIN disk \cup {new} /\ disk'[new] = Part(k, torn)
        /\ \A path \in DOMAIN disk : disk'[path] = disk[path]
    BY <1>1, SavedAdds
  <2>2. new = <<new[1], new[2]>>
    OBVIOUS
  <2> HIDE DEF new
  <2> QED BY <2>1, <2>2, PartIsSound DEF WriterTypes, PartsAreBounded
<1>5. \A l \in Partitions : IsFiniteSet(SchemasIn(disk', l))
  <2>1. IsFiniteSet(SchemasIn(disk, k)) /\ IsFiniteSet(SchemasIn(disk, k) \cup {schema})
    BY <1>1, FS_AddElement DEF CheckedIsMine
  <2>2. SchemasIn(disk', k) = SchemasIn(disk, k) \cup (IF torn THEN {} ELSE {schema})
    BY <1>1, SavedFiles, PartIsSound
  <2>3. IsFiniteSet(SchemasIn(disk', k))
    BY <2>1, <2>2
  <2> QED BY <1>1, <2>3, SavedFiles DEF CheckedIsMine
<1> QED BY <1>3, <1>4, <1>5 DEF PartsAreBounded

(* A partition that passes the check and is of one schema is of ours.      *)
LEMMA PassedIsMine ==
    ASSUME WriterInv, NEW k \in Partitions, ~Drifted(k), ~failed,
           Cardinality(SchemasIn(disk, k)) <= 1
    PROVE  SchemasIn(disk, k) \subseteq {schema}
<1> USE DEF WriterInv
<1>1. CASE k \in checked
  BY <1>1 DEF CheckedIsMine
<1>2. CASE Parts(k) = {}
  <2>1. \A path \in DOMAIN disk : path[1] # k
    BY <1>2 DEF Parts, WriterTypes
  <2> QED BY <2>1 DEF SchemasIn
<1>3. CASE k \notin checked /\ Parts(k) # {}
  <2> DEFINE path == <<k, Least(Parts(k))>>
  <2>1. Least(Parts(k)) \in Parts(k)
    BY <1>3, LeastIsLeast DEF WriterTypes
  <2>2. path \in DOMAIN disk /\ path[1] = k
    BY <2>1 DEF Parts
  <2>3. ~disk[path].torn /\ disk[path].schema = schema
    BY <1>3 DEF Drifted, Matches
  <2> HIDE DEF path
  <2>4. schema \in SchemasIn(disk, k)
    BY <2>2, <2>3 DEF SchemasIn
  <2>5. \A x, y \in SchemasIn(disk, k) : x = y
    BY AtMostOne DEF CheckedIsMine
  <2> QED BY <2>4, <2>5
<1> QED BY <1>1, <1>2, <1>3

-----------------------------------------------------------------------------
LEMMA FlushKeeps ==
    ASSUME WriterInv, NEW k \in Partitions, Flush(k)
    PROVE  WriterInv'
<1> USE DEF WriterInv
<1>0. /\ k \in due /\ checked' = checked \cup {k} /\ UNCHANGED <<schema, taken>>
  BY DEF Flush, FlushDrifted, FlushFails, FlushWrites, Flushes, Raise
<1>1. ASSUME Raise, partIndex' \in [Partitions -> Nat]
      PROVE  WriterInv'
  <2>1. /\ failed' = TRUE /\ UNCHANGED <<disk, buffers>>
        /\ \/ phase' = "exiting" /\ due' = Filled(buffers)
           \/ phase' = "raised" /\ due' = {}
    BY <1>1 DEF Raise
  <2>2. WriterTypes'
    BY <1>0, <1>1, <2>1 DEF WriterTypes, Parts, Filled
  <2>3. Capped'
    BY <2>1 DEF Capped, Filled
  <2>4. PartsAreBounded' /\ CheckedIsMine'
    BY <2>1 DEF PartsAreBounded, CheckedIsMine, SchemasIn
  <2> QED BY <2>2, <2>3, <2>4
<1>2. CASE FlushDrifted(k)
  BY <1>1, <1>2 DEF FlushDrifted, WriterTypes
<1>3. FreeIndex(k) \in Nat
  BY FreeIndexIsFree
<1>4. CASE FlushFails(k)
  BY <1>1, <1>3, <1>4 DEF FlushFails, WriterTypes
<1>5. CASE FlushWrites(k)
  <2>1. /\ disk' = Saved(<<k, FreeIndex(k)>>, Part(k, FALSE))
        /\ partIndex' = [partIndex EXCEPT ![k] = FreeIndex(k) + 1]
        /\ buffers' = [buffers EXCEPT ![k] = << >>]
        /\ due' = due \ {k} /\ ~Drifted(k)
        /\ UNCHANGED <<phase, failed>>
    BY <1>5 DEF FlushWrites
  <2>2. WriterTypes' /\ PartsAreBounded'
    <3>1. buffers' \in [Partitions -> Seq(Nat)] /\ partIndex' \in [Partitions -> Nat]
      BY <1>3, <2>1 DEF WriterTypes
    <3>2. checked' \subseteq Partitions /\ due' \subseteq Partitions
      BY <1>0, <2>1 DEF WriterTypes
    <3>3. /\ \A l \in Partitions : IsFiniteSet(Parts(l)') /\ Parts(l)' \subseteq Nat
          /\ \A path \in DOMAIN disk' :
                disk'[path].rows \in Seq(Nat) /\ path = <<path[1], path[2]>>
          /\ PartsAreBounded'
      BY <1>0, <2>1, SaveKeeps
    <3> QED BY <1>0, <2>1, <3>1, <3>2, <3>3 DEF WriterTypes
  <2>3. Capped'
    <3>1. Len(<< >>) = 0 /\ MaxRows \in Nat /\ MaxRows # 0
      BY WriterAssumption
    <3>2. \A l \in Partitions : buffers'[l] = IF l = k THEN << >> ELSE buffers[l]
      BY <2>1 DEF WriterTypes
    <3> QED BY <2>1, <3>1, <3>2 DEF Capped, WriterTypes
  <2>4. \A l \in Partitions : IsFiniteSet(SchemasIn(disk', l))
    BY <1>0, <2>1, SaveKeeps
  <2>5. SchemasIn(disk', k) = SchemasIn(disk, k) \cup {schema}
    <3>1. Part(k, FALSE).schema = schema /\ Part(k, FALSE).torn = FALSE
      BY <1>0, PartIsSound
    <3> QED BY <2>1, <3>1, SavedFiles
  <2>6. ASSUME ~failed, Cardinality(SchemasIn(disk', k)) <= 1
        PROVE  SchemasIn(disk', k) \subseteq {schema}
    <3>1. \A x, y \in SchemasIn(disk', k) : x = y
      BY <2>4, <2>6, AtMostOne
    <3> QED BY <2>5, <3>1
  <2>7. ASSUME ~failed, NEW l \in checked', l # k, Cardinality(SchemasIn(disk', l)) <= 1
        PROVE  SchemasIn(disk', l) \subseteq {schema}
    <3>1. l \in checked /\ l \in Partitions /\ SchemasIn(disk', l) = SchemasIn(disk, l)
      BY <1>0, <2>1, <2>7, SavedFiles DEF WriterTypes
    <3> QED BY <2>7, <3>1 DEF CheckedIsMine
  <2>8. CheckedIsMine'
    BY <1>0, <2>1, <2>4, <2>6, <2>7 DEF CheckedIsMine
  <2> QED BY <2>2, <2>3, <2>8
<1> QED BY <1>2, <1>4, <1>5 DEF Flush

(* The inductive invariant: file names, buffers below the cap and the      *)
(* schema check hang together between any two steps (writer.py:49-179).    *)
THEOREM WriterInvHolds == Spec => []WriterInv
<1> USE DEF WriterInv
<1>1. Init => WriterInv
  <2> SUFFICES ASSUME Init PROVE WriterInv
    OBVIOUS
  <2>1. DOMAIN disk = {}
    BY DEF Init
  <2>2. \A k : Parts(k) = {} /\ SchemasIn(disk, k) = {}
    BY <2>1 DEF Parts, SchemasIn
  <2>3. WriterTypes
    <3>1. buffers \in [Partitions -> Seq(Nat)] /\ partIndex \in [Partitions -> Nat]
      BY DEF Init, NoRows, NoParts
    <3>2. taken \in Seq(Row) /\ checked \subseteq Partitions /\ due \subseteq Partitions
      BY DEF Init
    <3> QED BY <2>1, <2>2, <3>1, <3>2, FS_EmptySet DEF Init, WriterTypes
  <2>4. Capped /\ PartsAreBounded
    BY <2>1, WriterAssumption DEF Init, Capped, PartsAreBounded, NoRows
  <2>5. CheckedIsMine
    BY <2>2, FS_EmptySet DEF Init, CheckedIsMine
  <2> QED BY <2>3, <2>4, <2>5
<1>2. WriterInv /\ [Next]_vars => WriterInv'
  <2> SUFFICES ASSUME WriterInv, [Next]_vars
               PROVE  WriterInv'
    OBVIOUS
  <2>1. CASE \E k \in Partitions : WriteRow(k)
    <3>1. PICK k \in Partitions : WriteRow(k)
      BY <2>1
    <3>2. PICK sound \in BOOLEAN : taken' = Append(taken, [key |-> k, sound |-> sound])
      BY <3>1 DEF WriteRow
    <3>3. taken' \in Seq(Row) /\ Len(taken') \in Nat
      BY <3>2, AppendProperties, LenProperties DEF WriterTypes, Row
    <3>4. /\ phase = "open" /\ due = {}
          /\ buffers' = [buffers EXCEPT ![k] = Append(@, Len(taken'))]
          /\ due' = IF Len(buffers'[k]) >= MaxRows THEN {k} ELSE {}
          /\ UNCHANGED <<disk, run, schema, partIndex, checked, phase, failed>>
      BY <3>1 DEF WriteRow
    <3>5. /\ buffers'[k] \in Seq(Nat) /\ Len(buffers'[k]) = Len(buffers[k]) + 1
          /\ buffers'[k] # << >> /\ Len(buffers[k]) \in Nat
          /\ \A l \in Partitions \ {k} : buffers'[l] = buffers[l]
      BY <3>3, <3>4, AppendProperties, LenProperties DEF WriterTypes
    <3>6. WriterTypes'
      BY <3>3, <3>4, <3>5 DEF WriterTypes, Parts
    <3>7. Capped'
      BY <3>4, <3>5, WriterAssumption DEF Capped
    <3>8. PartsAreBounded' /\ CheckedIsMine'
      BY <3>4 DEF PartsAreBounded, CheckedIsMine
    <3> QED BY <3>6, <3>7, <3>8
  <2>2. CASE \E k \in Partitions : Flush(k)
    BY <2>2, FlushKeeps
  <2>3. CASE FlushAll \/ Exit
    <3>1. /\ due' = Filled(buffers) /\ phase' \in {"open", "exiting"} /\ phase = "open" /\ due = {}
          /\ UNCHANGED <<disk, schema, buffers, partIndex, checked, failed, taken>>
      BY <2>3 DEF FlushAll, Exit
    <3>2. WriterTypes' /\ Capped'
      BY <3>1 DEF WriterTypes, Capped, Parts, Filled
    <3>3. PartsAreBounded' /\ CheckedIsMine'
      BY <3>1 DEF PartsAreBounded, CheckedIsMine
    <3> QED BY <3>2, <3>3
  <2>4. CASE Close
    <3>1. WriterTypes' /\ Capped'
      BY <2>4 DEF Close, WriterTypes, Capped, Parts
    <3>2. PartsAreBounded' /\ CheckedIsMine'
      BY <2>4 DEF Close, PartsAreBounded, CheckedIsMine
    <3> QED BY <3>1, <3>2
  <2>5. CASE Kill
    <3>1. /\ phase' = "killed"
          /\ UNCHANGED <<schema, buffers, partIndex, checked, due, failed, taken>>
      BY <2>5 DEF Kill
    <3>2. Capped'
      BY <3>1 DEF Capped
    <3>3. CASE UNCHANGED disk
      <4>1. WriterTypes'
        BY <3>1, <3>3 DEF WriterTypes, Parts
      <4>2. PartsAreBounded' /\ CheckedIsMine'
        BY <3>1, <3>3 DEF PartsAreBounded, CheckedIsMine
      <4> QED BY <3>2, <4>1, <4>2
    <3>4. CASE \E k \in due : disk' = Saved(<<k, FreeIndex(k)>>, Part(k, TRUE))
      <4>1. PICK k \in due : disk' = Saved(<<k, FreeIndex(k)>>, Part(k, TRUE))
        BY <3>4
      <4>2. WriterTypes' /\ PartsAreBounded' /\ \A l \in Partitions : IsFiniteSet(SchemasIn(disk', l))
        BY <3>1, <4>1, SaveKeeps DEF WriterTypes
      <4>3. \A l \in Partitions : SchemasIn(disk', l) = SchemasIn(disk, l)
        BY <4>1, SavedFiles, PartIsSound
      <4>4. CheckedIsMine'
        BY <3>1, <4>2, <4>3 DEF CheckedIsMine, WriterTypes
      <4> QED BY <3>2, <4>2, <4>4
    <3> QED BY <2>5, <3>3, <3>4 DEF Kill
  <2>6. CASE Rerun
    <3>1. /\ buffers' = NoRows /\ partIndex' = NoParts /\ checked' = {} /\ due' = {}
          /\ phase' = "open" /\ taken' = << >> /\ UNCHANGED disk
      BY <2>6 DEF Rerun
    <3>2. WriterTypes'
      <4>1. buffers' \in [Partitions -> Seq(Nat)] /\ partIndex' \in [Partitions -> Nat]
        BY <3>1 DEF NoRows, NoParts
      <4>2. taken' \in Seq(Row) /\ checked' \subseteq Partitions /\ due' \subseteq Partitions
        BY <3>1
      <4> QED BY <3>1, <4>1, <4>2 DEF WriterTypes, Parts
    <3>3. Capped'
      BY <3>1, WriterAssumption DEF Capped, NoRows
    <3>4. PartsAreBounded' /\ CheckedIsMine'
      BY <3>1 DEF PartsAreBounded, CheckedIsMine
    <3> QED BY <3>2, <3>3, <3>4
  <2>7. CASE UNCHANGED vars
    <3>1. WriterTypes' /\ Capped'
      BY <2>7 DEF vars, WriterTypes, Capped, Parts
    <3>2. PartsAreBounded' /\ CheckedIsMine'
      BY <2>7 DEF vars, PartsAreBounded, CheckedIsMine
    <3> QED BY <3>1, <3>2
  <2> QED BY <2>1, <2>2, <2>3, <2>4, <2>5, <2>6, <2>7 DEF Next
<1> QED BY <1>1, <1>2, PTL DEF Spec

(* No file exceeds the cap or is empty, whichever of the three places the  *)
(* flush came from and however often it failed before (writer.py:86-96).   *)
THEOREM PartsStayBounded == Spec => []PartsAreBounded
<1>1. WriterInv => PartsAreBounded
  BY DEF WriterInv
<1> QED BY <1>1, WriterInvHolds, PTL

(* What a step does to the disk: nothing, or one more file.                *)
LEMMA DiskGrows ==
    ASSUME WriterInv, [Next]_vars
    PROVE  \/ UNCHANGED disk
           \/ \E k \in due : disk' = Saved(<<k, FreeIndex(k)>>, Part(k, TRUE))
           \/ \E k \in due : FlushWrites(k)
<1>1. CASE \E k \in Partitions : WriteRow(k)
  BY <1>1 DEF WriteRow
<1>2. CASE \E k \in Partitions : Flush(k)
  BY <1>2 DEF Flush, FlushDrifted, FlushFails, FlushWrites, Flushes, Raise
<1>3. CASE FlushAll \/ Exit \/ Close \/ Rerun
  BY <1>3 DEF FlushAll, Exit, Close, Rerun
<1>4. CASE Kill
  BY <1>4 DEF Kill
<1>5. CASE UNCHANGED vars
  BY <1>5 DEF vars
<1> QED BY <1>1, <1>2, <1>3, <1>4, <1>5 DEF Next

(* A rerun, a retry or a rerun after a kill only ever adds files: whatever *)
(* index the counter stands at, the one taken is free (writer.py:167-170). *)
THEOREM FilesAreForever == Spec => NothingOverwritten
<1>1. WriterInv /\ [Next]_vars =>
         [\A path \in DOMAIN disk : path \in DOMAIN disk' /\ disk'[path] = disk[path]]_vars
  <2> SUFFICES ASSUME WriterInv, [Next]_vars, NEW path \in DOMAIN disk
               PROVE  path \in DOMAIN disk' /\ disk'[path] = disk[path]
    OBVIOUS
  <2>1. CASE UNCHANGED disk
    BY <2>1
  <2>2. ASSUME NEW k \in due, NEW file, disk' = Saved(<<k, FreeIndex(k)>>, file)
        PROVE  path \in DOMAIN disk' /\ disk'[path] = disk[path]
    BY <2>2, SavedAdds DEF WriterInv, WriterTypes
  <2> QED BY <2>1, <2>2, DiskGrows DEF FlushWrites
<1> QED BY <1>1, WriterInvHolds, PTL DEF Spec, NothingOverwritten

(* A partition comes to hold two schemas only in a conversion that raised, *)
(* although _check_existing looks at a single file, once for each writer   *)
(* (writer.py:123-156).  It says nothing of conversions that add to a      *)
(* partition which is mixed already.                                       *)
THEOREM MixingIsLoud == Spec => MixingFails
<1>1. WriterInv /\ [Next]_vars =>
         [\A k \in Partitions :
             Cardinality(SchemasIn(disk, k)) <= 1 /\ Cardinality(SchemasIn(disk', k)) > 1
                => failed']_vars
  <2> SUFFICES ASSUME WriterInv, [Next]_vars, NEW k \in Partitions,
                      Cardinality(SchemasIn(disk, k)) <= 1,
                      Cardinality(SchemasIn(disk', k)) > 1
               PROVE  failed'
    OBVIOUS
  <2> USE DEF WriterInv
  <2>0. IsFiniteSet(SchemasIn(disk, k)) /\ Cardinality(SchemasIn(disk, k)) \in Nat
    BY FS_CardinalityType DEF CheckedIsMine
  <2>1. CASE UNCHANGED disk
    <3>1. SchemasIn(disk', k) = SchemasIn(disk, k)
      BY <2>1
    <3> QED BY <2>0, <3>1
  <2>2. ASSUME NEW l \in due, disk' = Saved(<<l, FreeIndex(l)>>, Part(l, TRUE))
        PROVE  failed'
    <3>1. SchemasIn(disk', k) = SchemasIn(disk, k)
      BY <2>2, SavedFiles, PartIsSound
    <3> QED BY <2>0, <3>1
  <2>3. ASSUME NEW l \in due, FlushWrites(l)
        PROVE  failed'
    <3>1. /\ disk' = Saved(<<l, FreeIndex(l)>>, Part(l, FALSE)) /\ ~Drifted(l)
          /\ failed' = failed /\ l \in Partitions
      BY <2>3 DEF FlushWrites, WriterTypes
    <3>2. Part(l, FALSE).schema = schema /\ Part(l, FALSE).torn = FALSE
      BY PartIsSound
    <3>3. CASE k # l
      <4>1. SchemasIn(disk', k) = SchemasIn(disk, k)
        BY <3>1, <3>3, SavedFiles
      <4> QED BY <2>0, <4>1
    <3>4. CASE k = l
      <4> SUFFICES ASSUME ~failed
                   PROVE  FALSE
        BY <3>1
      <4>1. SchemasIn(disk, k) \subseteq {schema}
        BY <3>1, <3>4, PassedIsMine
      <4>2. SchemasIn(disk', k) = SchemasIn(disk, k) \cup {schema}
        BY <3>1, <3>2, <3>4, SavedFiles
      <4>3. SchemasIn(disk', k) = {schema}
        BY <4>1, <4>2
      <4>4. Cardinality({schema}) = 1
        BY FS_Singleton
      <4> QED BY <4>3, <4>4
    <3> QED BY <3>3, <3>4
  <2> QED BY <2>1, <2>2, <2>3, DiskGrows
<1> QED BY <1>1, WriterInvHolds, PTL DEF Spec, MixingFails

-----------------------------------------------------------------------------
(* InPlace of any parts, buffer and rows taken: R[i] holds the rows of     *)
(* part i.                                                                 *)
Stacked(P, R, buffer, T) ==
    /\ Range(buffer) \cup UNION {Range(R[i]) : i \in P} = T
    /\ \A i \in P : Rises(R[i]) /\ Precedes(R[i], buffer)
    /\ \A i, j \in P : i < j => Precedes(R[i], R[j])
    /\ Rises(buffer)

PartRows(k) == [i \in Mine(k) |-> disk[<<k, i>>].rows]

LEMMA InPlaceIsStacked ==
    ASSUME NEW k
    PROVE  InPlace(k) <=> Stacked(Mine(k), PartRows(k), buffers[k], Taken(k))
<1>1. \A i \in Mine(k) : PartRows(k)[i] = disk[<<k, i>>].rows
  BY DEF PartRows
<1>2. {Range(PartRows(k)[i]) : i \in Mine(k)} = {Range(disk[<<k, i>>].rows) : i \in Mine(k)}
  BY <1>1
<1> QED BY <1>1, <1>2 DEF InPlace, Stacked

LEMMA InPlaceIsStackedNext ==
    ASSUME NEW k
    PROVE  InPlace(k)' <=> Stacked(Mine(k)', PartRows(k)', buffers'[k], Taken(k)')
<1>1. \A i \in Mine(k)' : PartRows(k)'[i] = disk'[<<k, i>>].rows
  BY DEF PartRows
<1>2. {Range(PartRows(k)'[i]) : i \in Mine(k)'} = {Range(disk'[<<k, i>>].rows) : i \in Mine(k)'}
  BY <1>1
<1> QED BY <1>1, <1>2 DEF InPlace, Stacked

(* A row behind all others is appended to the buffer.                      *)
LEMMA StackedTakes ==
    ASSUME NEW P, NEW R, NEW buffer \in Seq(Nat), NEW T \in SUBSET Nat, Stacked(P, R, buffer, T),
           NEW n \in Nat, \A m \in T : m < n
    PROVE  Stacked(P, R, Append(buffer, n), T \cup {n})
<1> DEFINE after == Append(buffer, n)
<1>1. /\ Len(buffer) \in Nat /\ DOMAIN buffer = 1 .. Len(buffer)
      /\ DOMAIN after = 1 .. Len(buffer) + 1
      /\ after[Len(buffer) + 1] = n
      /\ \A i \in 1 .. Len(buffer) : after[i] = buffer[i]
  BY AppendProperties, LenProperties
<1> HIDE DEF after
<1>2. \A x : x \in Range(after) <=> x \in Range(buffer) \/ x = n
  <2>1. \A x : x \in Range(after) <=> \E i \in 1 .. Len(buffer) + 1 : x = after[i]
    BY <1>1 DEF Range
  <2>2. \A x : x \in Range(buffer) <=> \E i \in 1 .. Len(buffer) : x = buffer[i]
    BY <1>1 DEF Range
  <2>3. \A i \in 1 .. Len(buffer) + 1 : i = Len(buffer) + 1 \/ i \in 1 .. Len(buffer)
    BY <1>1
  <2>4. Len(buffer) + 1 \in 1 .. Len(buffer) + 1 /\ \A i \in 1 .. Len(buffer) : i \in 1 .. Len(buffer) + 1
    BY <1>1
  <2> HIDE <1>1
  <2> QED BY <1>1, <2>1, <2>2, <2>3, <2>4
<1>3. Range(after) \cup UNION {Range(R[i]) : i \in P} = T \cup {n}
  BY <1>2 DEF Stacked
<1>4. \A i \in P : Precedes(R[i], after)
  <2> SUFFICES ASSUME NEW i \in P, NEW x \in Range(R[i]), NEW y \in Range(after)
               PROVE  x < y
    BY DEF Precedes
  <2>1. x \in T
    BY DEF Stacked
  <2>2. CASE y = n
    BY <2>1, <2>2
  <2>3. CASE y \in Range(buffer)
    BY <2>3 DEF Stacked, Precedes
  <2> QED BY <1>2, <2>2, <2>3
<1>5. Rises(after)
  <2> SUFFICES ASSUME NEW i \in DOMAIN after, NEW j \in DOMAIN after, i < j
               PROVE  after[i] < after[j]
    BY DEF Rises
  <2>1. i \in 1 .. Len(buffer)
    <3>1. i \in 1 .. Len(buffer) + 1 /\ j \in 1 .. Len(buffer) + 1
      BY <1>1
    <3> QED BY <1>1, <3>1
  <2>2. CASE j = Len(buffer) + 1
    <3>1. buffer[i] \in T
      BY <1>1, <2>1 DEF Stacked, Range
    <3> QED BY <1>1, <2>1, <2>2, <3>1
  <2>3. CASE j \in 1 .. Len(buffer)
    <3>1. buffer[i] < buffer[j]
      BY <1>1, <2>1, <2>3 DEF Stacked, Rises
    <3> QED BY <1>1, <2>1, <2>3, <3>1
  <2> QED BY <1>1, <2>2, <2>3
<1>6. Stacked(P, R, after, T \cup {n})
  BY <1>3, <1>4, <1>5 DEF Stacked
<1> QED BY <1>6 DEF after

(* The buffer becomes the last part.                                       *)
LEMMA StackedFlushes ==
    ASSUME NEW P \in SUBSET Nat, NEW R, NEW buffer, NEW T, Stacked(P, R, buffer, T),
           NEW j \in Nat, \A i \in P : i < j,
           NEW R2, R2[j] = buffer, \A i \in P : R2[i] = R[i]
    PROVE  Stacked(P \cup {j}, R2, << >>, T)
<1>1. Range(<< >>) = {} /\ Rises(<< >>) /\ \A q : Precedes(q, << >>)
  BY DEF Range, Rises, Precedes
<1>2. UNION {Range(R2[i]) : i \in P \cup {j}} = Range(buffer) \cup UNION {Range(R[i]) : i \in P}
  <2> DEFINE A == UNION {Range(R2[i]) : i \in P \cup {j}}
             B == UNION {Range(R[i]) : i \in P}
  <2>1. \A x : x \in A <=> \E i \in P \cup {j} : x \in Range(R2[i])
    OBVIOUS
  <2>2. \A x : x \in B <=> \E i \in P : x \in Range(R[i])
    OBVIOUS
  <2> HIDE DEF A, B
  <2>3. \A x : x \in A <=> x \in B \/ x \in Range(buffer)
    BY <2>1, <2>2
  <2>4. A = Range(buffer) \cup B
    BY <2>3
  <2> QED BY <2>4 DEF A, B
<1>3. Range(<< >>) \cup UNION {Range(R2[i]) : i \in P \cup {j}} = T
  BY <1>1, <1>2 DEF Stacked
<1>4. \A i \in P \cup {j} : Rises(R2[i])
  BY DEF Stacked
<1>5. \A h, i \in P \cup {j} : h < i => Precedes(R2[h], R2[i])
  <2> TAKE h, i \in P \cup {j}
  <2> HAVE h < i
  <2>1. h \in P
    <3>1. h \in Nat /\ i \in Nat
      OBVIOUS
    <3> QED BY <3>1
  <2>2. CASE i = j
    BY <2>1, <2>2 DEF Stacked
  <2>3. CASE i \in P
    BY <2>1, <2>3 DEF Stacked
  <2> QED BY <2>2, <2>3
<1> QED BY <1>1, <1>3, <1>4, <1>5 DEF Stacked

(* The parts a conversion wrote stand below its counter, and none is of a  *)
(* later one; a partition that is not due at the exit has no row buffered. *)
RowsInv ==
    /\ run \in Nat
    /\ \A path \in DOMAIN disk : disk[path].run \in Nat /\ disk[path].run <= run
    /\ \A k \in Partitions : \A i \in Mine(k) : i < partIndex[k]
    /\ \A k \in Partitions : InPlace(k)
    /\ phase = "exiting" => \A k \in Partitions \ due : buffers[k] = << >>
    /\ phase = "closed" => \A k \in Partitions : buffers[k] = << >>

LEMMA IdleInPlace ==
    ASSUME UNCHANGED <<disk, run, buffers, taken>>, NEW k
    PROVE  Mine(k)' = Mine(k) /\ (InPlace(k) => InPlace(k)')
<1>1. Mine(k)' = Mine(k) /\ Taken(k)' = Taken(k)
  BY DEF Mine, Parts, Taken
<1> QED BY <1>1 DEF InPlace

(* What becomes of a conversion's own parts when a file is saved.          *)
LEMMA SavedMine ==
    ASSUME WriterTypes, RowsInv, NEW k \in Partitions, NEW torn \in BOOLEAN, run' = run,
           disk' = Saved(<<k, FreeIndex(k)>>, Part(k, torn))
    PROVE  /\ Mine(k)' = Mine(k) \cup (IF torn THEN {} ELSE {FreeIndex(k)})
           /\ PartRows(k)' = [i \in Mine(k)' |-> IF i \in Mine(k) THEN PartRows(k)[i] ELSE buffers[k]]
           /\ FreeIndex(k) \in Nat \ Mine(k) /\ \A i \in Mine(k) : i < FreeIndex(k)
           /\ \A l \in Partitions \ {k} : Mine(l)' = Mine(l) /\ PartRows(l)' = PartRows(l)
           /\ \A path \in DOMAIN disk' : disk'[path].run \in Nat /\ disk'[path].run <= run'
<1> DEFINE j == FreeIndex(k)
           new == <<k, j>>
           file == Part(k, torn)
<1>0. /\ file.run = run /\ file.torn = torn /\ file.rows = buffers[k]
      /\ new = <<k, j>>
  BY DEF Part
<1>1. /\ new \notin DOMAIN disk /\ DOMAIN disk' = DOMAIN disk \cup {new}
      /\ disk'[new] = file
      /\ \A path \in DOMAIN disk : disk'[path] = disk[path]
  BY SavedAdds
<1>2. j \in Nat \ Parts(k) /\ partIndex[k] <= j
  BY FreeIndexIsFree
<1>3. Parts(k)' = Parts(k) \cup {j} /\ \A l \in Partitions \ {k} : Parts(l)' = Parts(l)
  BY SavedFiles
<1> HIDE DEF j, new, file
<1>4. \A l \in Partitions : \A i \in Parts(l) : <<l, i>> \in DOMAIN disk /\ disk'[<<l, i>>] = disk[<<l, i>>]
  BY <1>1 DEF Parts
<1>5. ASSUME NEW l \in Partitions \ {k}
      PROVE  Mine(l)' = Mine(l) /\ PartRows(l)' = PartRows(l)
  <2>1. Mine(l)' = Mine(l)
    BY <1>3, <1>4 DEF Mine
  <2>2. \A i \in Mine(l) : disk'[<<l, i>>].rows = disk[<<l, i>>].rows
    BY <1>4 DEF Mine
  <2> QED BY <2>1, <2>2 DEF PartRows
<1>6. Mine(k)' = Mine(k) \cup (IF torn THEN {} ELSE {j})
  <2>1. \A i : i \in Mine(k) <=> i \in Parts(k) /\ disk[<<k, i>>].run = run /\ ~disk[<<k, i>>].torn
    BY DEF Mine
  <2>2. \A i : i \in Mine(k)' <=> i \in Parts(k)' /\ disk'[<<k, i>>].run = run' /\ ~disk'[<<k, i>>].torn
    BY DEF Mine
  <2>3. disk'[<<k, j>>].run = run /\ disk'[<<k, j>>].torn = torn
    BY <1>0, <1>1
  <2> QED BY <1>3, <1>4, <2>1, <2>2, <2>3
<1>7. j \notin Mine(k) /\ Mine(k) \in SUBSET Nat
  BY <1>2 DEF Mine, WriterTypes
<1>8. \A i \in Mine(k) : i < j
  <2> TAKE i \in Mine(k)
  <2>1. i < partIndex[k] /\ partIndex[k] \in Nat /\ i \in Nat /\ j \in Nat
    BY <1>2, <1>7 DEF RowsInv, WriterTypes
  <2> QED BY <1>2, <2>1
<1>9. PartRows(k)' = [i \in Mine(k)' |-> IF i \in Mine(k) THEN PartRows(k)[i] ELSE buffers[k]]
  <2>1. \A i \in Mine(k)' : disk'[<<k, i>>].rows = IF i \in Mine(k) THEN PartRows(k)[i] ELSE buffers[k]
    <3> TAKE i \in Mine(k)'
    <3>1. CASE i \in Mine(k)
      <4>1. i \in Parts(k) /\ PartRows(k)[i] = disk[<<k, i>>].rows
        BY <3>1 DEF Mine, PartRows
      <4> QED BY <1>4, <3>1, <4>1
    <3>2. CASE i \notin Mine(k)
      BY <1>0, <1>1, <1>6, <3>2
    <3> QED BY <3>1, <3>2
  <2>2. PartRows(k)' = [i \in Mine(k)' |-> disk'[<<k, i>>].rows]
    BY DEF PartRows
  <2> QED BY <2>1, <2>2
<1>10. \A path \in DOMAIN disk' : disk'[path].run \in Nat /\ disk'[path].run <= run'
  BY <1>0, <1>1 DEF RowsInv
<1> QED BY <1>2, <1>5, <1>6, <1>7, <1>8, <1>9, <1>10 DEF j

LEMMA FlushInPlace ==
    ASSUME WriterInv, RowsInv, NEW k \in Partitions, FlushWrites(k)
    PROVE  RowsInv'
<1> USE DEF WriterInv
<1>0. /\ disk' = Saved(<<k, FreeIndex(k)>>, Part(k, FALSE))
      /\ partIndex' = [partIndex EXCEPT ![k] = FreeIndex(k) + 1]
      /\ buffers' = [buffers EXCEPT ![k] = << >>]
      /\ due' = due \ {k} /\ UNCHANGED <<run, phase, taken>>
  BY DEF FlushWrites
<1>1. /\ Mine(k)' = Mine(k) \cup {FreeIndex(k)}
      /\ PartRows(k)' = [i \in Mine(k)' |-> IF i \in Mine(k) THEN PartRows(k)[i] ELSE buffers[k]]
      /\ FreeIndex(k) \in Nat \ Mine(k) /\ \A i \in Mine(k) : i < FreeIndex(k)
      /\ \A l \in Partitions \ {k} : Mine(l)' = Mine(l) /\ PartRows(l)' = PartRows(l)
      /\ \A path \in DOMAIN disk' : disk'[path].run \in Nat /\ disk'[path].run <= run'
  BY <1>0, SavedMine
<1>2. \A l \in Partitions : /\ buffers'[l] = IF l = k THEN << >> ELSE buffers[l]
                            /\ partIndex'[l] = IF l = k THEN FreeIndex(k) + 1 ELSE partIndex[l]
                            /\ Taken(l)' = Taken(l)
  BY <1>0 DEF WriterTypes, Taken
<1>3. Mine(k) \in SUBSET Nat
  BY DEF Mine, WriterTypes
<1>4. InPlace(k)'
  <2>1. Stacked(Mine(k), PartRows(k), buffers[k], Taken(k))
    BY InPlaceIsStacked DEF RowsInv
  <2> DEFINE now == PartRows(k)'
             P == Mine(k)
             j == FreeIndex(k)
             old == PartRows(k)
  <2>2. now[j] = buffers[k] /\ \A i \in P : now[i] = old[i]
    <3>1. now = [i \in P \cup {j} |-> IF i \in P THEN old[i] ELSE buffers[k]] /\ j \notin P
      BY <1>1
    <3> HIDE DEF now, P, j, old
    <3> QED BY <3>1
  <2>3. Stacked(P \cup {j}, now, << >>, Taken(k))
    <3>1. /\ P \in SUBSET Nat /\ j \in Nat /\ \A i \in P : i < j
          /\ Stacked(P, old, buffers[k], Taken(k))
      BY <1>1, <1>3, <2>1
    <3> HIDE DEF now, P, j, old
    <3> QED BY <2>2, <3>1, StackedFlushes
  <2>4. Stacked(Mine(k)', PartRows(k)', buffers'[k], Taken(k)')
    BY <1>1, <1>2, <2>3
  <2>5. InPlace(k)' <=> Stacked(Mine(k)', PartRows(k)', buffers'[k], Taken(k)')
    BY InPlaceIsStackedNext
  <2> QED BY <2>4, <2>5
<1>5. \A l \in Partitions : \A i \in Mine(l)' : i < partIndex'[l]
  <2> TAKE l \in Partitions
  <2>1. CASE l = k
    <3> TAKE i \in Mine(l)'
    <3>1. i \in Nat /\ i <= FreeIndex(k) /\ FreeIndex(k) \in Nat
      BY <1>1, <1>3, <2>1
    <3> QED BY <1>2, <2>1, <3>1
  <2>2. CASE l # k
    BY <1>1, <1>2, <2>2 DEF RowsInv
  <2> QED BY <2>1, <2>2
<1>6. \A l \in Partitions \ {k} : InPlace(l)'
  <2> TAKE l \in Partitions \ {k}
  <2>1. Stacked(Mine(l), PartRows(l), buffers[l], Taken(l))
    BY InPlaceIsStacked DEF RowsInv
  <2>2. Stacked(Mine(l)', PartRows(l)', buffers'[l], Taken(l)')
    BY <1>1, <1>2, <2>1
  <2>3. InPlace(l)' <=> Stacked(Mine(l)', PartRows(l)', buffers'[l], Taken(l)')
    BY InPlaceIsStackedNext
  <2> QED BY <2>2, <2>3
<1>7. phase' = "exiting" => \A l \in Partitions \ due' : buffers'[l] = << >>
  BY <1>0, <1>2 DEF RowsInv
<1>8. phase' = "closed" => \A l \in Partitions : buffers'[l] = << >>
  BY <1>0, <1>2 DEF RowsInv
<1>9. run' \in Nat
  BY <1>0 DEF RowsInv
<1> QED BY <1>1, <1>4, <1>5, <1>6, <1>7, <1>8, <1>9 DEF RowsInv

(* The invariant of what a conversion owes its rows: each step moves whole *)
(* buffers to disk or leaves them, and a failed flush moves nothing        *)
(* (writer.py:86-102, 158-179).                                            *)
THEOREM RowsInvHolds == Spec => []RowsInv
<1>1. Init => RowsInv
  <2> SUFFICES ASSUME Init PROVE RowsInv
    OBVIOUS
  <2>1. /\ DOMAIN disk = {} /\ run = 1 /\ phase = "open" /\ taken = << >>
        /\ \A k \in Partitions : buffers[k] = << >>
    BY DEF Init, NoRows
  <2>2. \A k : Mine(k) = {} /\ Taken(k) = {}
    BY <2>1 DEF Mine, Parts, Taken
  <2>3. Range(<< >>) = {} /\ Rises(<< >>)
    BY DEF Range, Rises
  <2>4. \A k \in Partitions : InPlace(k)
    BY <2>1, <2>2, <2>3 DEF InPlace
  <2> QED BY <2>1, <2>2, <2>4 DEF RowsInv
<1>2. WriterInv /\ RowsInv /\ [Next]_vars => RowsInv'
  <2> SUFFICES ASSUME WriterInv, RowsInv, [Next]_vars
               PROVE  RowsInv'
    OBVIOUS
  <2> USE DEF WriterInv
  <2>1. CASE \E k \in Partitions : WriteRow(k)
    <3>1. PICK k \in Partitions : WriteRow(k)
      BY <2>1
    <3>2. PICK sound \in BOOLEAN : taken' = Append(taken, [key |-> k, sound |-> sound])
      BY <3>1 DEF WriteRow
    <3> DEFINE n == Len(taken')
    <3>3. /\ phase = "open" /\ UNCHANGED <<disk, run, partIndex, phase>>
          /\ buffers' = [buffers EXCEPT ![k] = Append(@, n)]
      BY <3>1 DEF WriteRow
    <3>4. /\ n = Len(taken) + 1 /\ Len(taken) \in Nat /\ DOMAIN taken = 1 .. Len(taken)
          /\ DOMAIN taken' = 1 .. n /\ taken'[n] = [key |-> k, sound |-> sound]
          /\ \A m \in 1 .. Len(taken) : taken'[m] = taken[m]
      BY <3>2, AppendProperties, LenProperties DEF WriterTypes
    <3> HIDE DEF n
    <3>5. /\ Taken(k)' = Taken(k) \cup {n}
          /\ \A l \in Partitions \ {k} : Taken(l)' = Taken(l)
          /\ Taken(k) \in SUBSET Nat /\ \A m \in Taken(k) : m < n
      <4>1. taken'[n].key = k
        BY <3>4
      <4>2. \A m : m \in DOMAIN taken' <=> m \in DOMAIN taken \/ m = n
        BY <3>4
      <4>3. \A l \in Partitions : \A m : m \in Taken(l)' <=> m \in Taken(l) \/ (m = n /\ l = k)
        BY <3>4, <4>1, <4>2 DEF Taken
      <4>4. Taken(k) \in SUBSET (1 .. Len(taken))
        BY <3>4 DEF Taken
      <4>5. Taken(k)' = Taken(k) \cup {n} /\ \A l \in Partitions \ {k} : Taken(l)' = Taken(l)
        BY <4>3
      <4>6. \A m \in 1 .. Len(taken) : m \in Nat /\ m < n
        BY <3>4
      <4> QED BY <4>4, <4>5, <4>6
    <3>6. \A l \in Partitions : Mine(l)' = Mine(l) /\ PartRows(l)' = PartRows(l)
      BY <3>3 DEF Mine, Parts, PartRows
    <3>7. \A l \in Partitions : buffers'[l] = IF l = k THEN Append(buffers[k], n) ELSE buffers[l]
      BY <3>3 DEF WriterTypes
    <3>8. \A l \in Partitions : InPlace(l)'
      <4> TAKE l \in Partitions
      <4>1. Stacked(Mine(l), PartRows(l), buffers[l], Taken(l))
        BY InPlaceIsStacked DEF RowsInv
      <4>2. Stacked(Mine(l)', PartRows(l)', buffers'[l], Taken(l)')
        <5>1. CASE l # k
          BY <3>5, <3>6, <3>7, <4>1, <5>1
        <5>2. CASE l = k
          <6>1. buffers[k] \in Seq(Nat) /\ n \in Nat
            BY <3>4 DEF WriterTypes
          <6>2. Stacked(Mine(k), PartRows(k), Append(buffers[k], n), Taken(k) \cup {n})
            BY <3>5, <4>1, <5>2, <6>1, StackedTakes
          <6> QED BY <3>5, <3>6, <3>7, <5>2, <6>2
        <5> QED BY <5>1, <5>2
      <4> QED BY <4>2, InPlaceIsStackedNext
    <3> QED BY <3>3, <3>6, <3>8 DEF RowsInv
  <2>2. ASSUME NEW k \in Partitions, FlushDrifted(k) \/ FlushFails(k)
        PROVE  RowsInv'
    <3>1. /\ UNCHANGED <<disk, run, buffers, taken>>
          /\ \/ phase' = "exiting" /\ due' = Filled(buffers)
             \/ phase' = "raised"
          /\ partIndex' = partIndex \/ partIndex' = [partIndex EXCEPT ![k] = FreeIndex(k) + 1]
      BY <2>2 DEF FlushDrifted, FlushFails, Raise
    <3>2. \A l \in Partitions : partIndex[l] <= partIndex'[l] /\ partIndex'[l] \in Nat
      <4>1. FreeIndex(k) \in Nat /\ partIndex[k] <= FreeIndex(k) /\ partIndex[k] \in Nat
        BY FreeIndexIsFree DEF WriterTypes
      <4>2. \A l \in Partitions : partIndex'[l] = partIndex[l] \/ (l = k /\ partIndex'[l] = FreeIndex(k) + 1)
        <5>1. partIndex \in [Partitions -> Nat]
          BY DEF WriterTypes
        <5> QED BY <3>1, <5>1
      <4>3. \A l \in Partitions : partIndex[l] \in Nat
        BY DEF WriterTypes
      <4> QED BY <4>1, <4>2, <4>3
    <3>3. \A l \in Partitions : Mine(l)' = Mine(l) /\ InPlace(l)' /\ Mine(l) \in SUBSET Nat
      <4>1. \A l \in Partitions : Mine(l) \in SUBSET Nat
        BY DEF Mine, WriterTypes
      <4>2. \A l \in Partitions : InPlace(l)
        BY DEF RowsInv
      <4> QED BY <3>1, <4>1, <4>2, IdleInPlace
    <3>4. \A l \in Partitions : \A i \in Mine(l)' : i < partIndex'[l]
      <4> TAKE l \in Partitions
      <4> TAKE i \in Mine(l)'
      <4>1. i < partIndex[l] /\ i \in Nat /\ partIndex[l] \in Nat
        BY <3>3 DEF RowsInv, WriterTypes
      <4> QED BY <3>2, <4>1
    <3> QED BY <3>1, <3>3, <3>4 DEF RowsInv, Filled
  <2>3. CASE \E k \in Partitions : FlushWrites(k)
    BY <2>3, FlushInPlace
  <2>4. CASE FlushAll \/ Exit \/ Close \/ UNCHANGED vars
    <3>1. UNCHANGED <<disk, run, buffers, partIndex, taken>>
      BY <2>4 DEF FlushAll, Exit, Close, vars
    <3>2. \A l \in Partitions : Mine(l)' = Mine(l) /\ InPlace(l)'
      <4>1. \A l \in Partitions : InPlace(l)
        BY DEF RowsInv
      <4> QED BY <3>1, <4>1, IdleInPlace
    <3>3. phase' = "exiting" => \A l \in Partitions \ due' : buffers'[l] = << >>
      BY <2>4 DEF FlushAll, Exit, Close, vars, Filled, RowsInv
    <3>4. phase' = "closed" => \A l \in Partitions : buffers'[l] = << >>
      BY <2>4 DEF FlushAll, Exit, Close, vars, RowsInv
    <3> QED BY <3>1, <3>2, <3>3, <3>4 DEF RowsInv
  <2>5. CASE Kill
    <3>1. /\ phase' = "killed" /\ UNCHANGED <<run, buffers, partIndex, due, taken>>
      BY <2>5 DEF Kill
    <3>2. CASE UNCHANGED disk
      <4>1. \A l \in Partitions : Mine(l)' = Mine(l) /\ InPlace(l)'
        <5>1. \A l \in Partitions : InPlace(l)
          BY DEF RowsInv
        <5> QED BY <3>1, <3>2, <5>1, IdleInPlace
      <4> QED BY <3>1, <3>2, <4>1 DEF RowsInv
    <3>3. CASE \E k \in due : disk' = Saved(<<k, FreeIndex(k)>>, Part(k, TRUE))
      <4>1. PICK k \in due : disk' = Saved(<<k, FreeIndex(k)>>, Part(k, TRUE))
        BY <3>3
      <4>2. k \in Partitions
        BY DEF WriterTypes
      <4>3. /\ Mine(k)' = Mine(k)
            /\ PartRows(k)' = [i \in Mine(k)' |-> IF i \in Mine(k) THEN PartRows(k)[i] ELSE buffers[k]]
            /\ \A l \in Partitions \ {k} : Mine(l)' = Mine(l) /\ PartRows(l)' = PartRows(l)
            /\ \A path \in DOMAIN disk' : disk'[path].run \in Nat /\ disk'[path].run <= run'
        BY <3>1, <4>1, <4>2, SavedMine
      <4>4. PartRows(k)' = PartRows(k)
        <5>1. PartRows(k) = [i \in Mine(k) |-> PartRows(k)[i]]
          BY DEF PartRows
        <5> QED BY <4>3, <5>1
      <4>5. \A l \in Partitions : Mine(l)' = Mine(l) /\ PartRows(l)' = PartRows(l) /\ Taken(l)' = Taken(l)
        BY <3>1, <4>3, <4>4 DEF Taken
      <4>6. \A l \in Partitions : InPlace(l)'
        <5> TAKE l \in Partitions
        <5>1. Stacked(Mine(l), PartRows(l), buffers[l], Taken(l))
          BY InPlaceIsStacked DEF RowsInv
        <5>2. Stacked(Mine(l)', PartRows(l)', buffers'[l], Taken(l)')
          BY <3>1, <4>5, <5>1
        <5> QED BY <5>2, InPlaceIsStackedNext
      <4> QED BY <3>1, <4>3, <4>5, <4>6 DEF RowsInv
    <3> QED BY <2>5, <3>2, <3>3 DEF Kill
  <2>6. CASE Rerun
    <3>1. /\ run' = run + 1 /\ taken' = << >> /\ phase' = "open" /\ UNCHANGED disk
          /\ \A k \in Partitions : buffers'[k] = << >>
      BY <2>6 DEF Rerun, NoRows
    <3>2. run \in Nat /\ \A path \in DOMAIN disk : disk[path].run \in Nat /\ disk[path].run <= run
      BY DEF RowsInv
    <3>3. \A path \in DOMAIN disk' : disk'[path].run \in Nat /\ disk'[path].run <= run' /\ disk'[path].run # run'
      BY <3>1, <3>2
    <3>4. \A k : Mine(k)' = {} /\ Taken(k)' = {}
      BY <3>1, <3>3 DEF Mine, Parts, Taken
    <3>5. Range(<< >>) = {} /\ Rises(<< >>)
      BY DEF Range, Rises
    <3>6. \A k \in Partitions : InPlace(k)'
      BY <3>1, <3>4, <3>5 DEF InPlace
    <3> QED BY <3>1, <3>2, <3>3, <3>4, <3>6 DEF RowsInv
  <2> QED BY <2>1, <2>2, <2>3, <2>4, <2>5, <2>6 DEF Next, Flush
<1> QED BY <1>1, <1>2, WriterInvHolds, PTL DEF Spec

(* Every row taken is in one place and in order: in the parts, by index,   *)
(* or in the buffer behind them, for any number of partitions, rows and    *)
(* failed, retried or killed flushes; a writer that closed has written all *)
(* of them (writer.py:93-102, 158-179).                                    *)
THEOREM RowsAreConserved == Spec => []RowsConserved
<1>1. RowsInv => RowsConserved
  BY DEF RowsInv, RowsConserved
<1> QED BY <1>1, RowsInvHolds, PTL
=============================================================================
