----------------------------- MODULE MCDelivery -----------------------------
(* Small instances of Delivery. *)
EXTENDS Delivery

AllSlices == Records \X Callers
RecordSymmetry == Permutations(Records)
=============================================================================
