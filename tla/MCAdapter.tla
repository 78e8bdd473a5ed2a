----------------------------- MODULE MCAdapter -----------------------------
(* A small instance of Adapter. *)
EXTENDS Adapter
=============================================================================
