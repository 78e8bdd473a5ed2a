----------------------------- MODULE MCCollector -----------------------------
(* Workers, requests of /metrics and the timer on one collector. *)
EXTENDS Collector
=============================================================================
