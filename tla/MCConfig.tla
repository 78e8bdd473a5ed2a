------------------------------ MODULE MCConfig ------------------------------
(* A small instance of Config: one caller beside the watcher, two subscribers. *)
EXTENDS Config

CONSTANTS c1, s1, s2
=============================================================================
