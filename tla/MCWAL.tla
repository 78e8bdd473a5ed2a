------------------------------- MODULE MCWAL -------------------------------
(* Small instances of WAL: segment objects are interchangeable, and so are  *)
(* records, which no action tells apart.                                    *)
EXTENDS WAL

PtrRecordSymmetry == Permutations(Ptrs) \cup Permutations(Records)
=============================================================================
