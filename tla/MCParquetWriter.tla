-------------------------- MODULE MCParquetWriter --------------------------
(* Partitions and schema versions are interchangeable, and every property  *)
(* checked is a safety property.                                           *)
EXTENDS ParquetWriter, TLC

Symmetry == Permutations(Partitions) \cup Permutations(Schemas)
=============================================================================
