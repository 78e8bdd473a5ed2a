----------------------------- MODULE MCResults -----------------------------
(* A small instance of Results: two jobs that connect to hosts of one address. *)
EXTENDS Results, TLC

CONSTANTS j1, j2, h1, h2, a1

OneAddress == [h \in Hosts |-> {a1}]
Connects == [j \in Jobs |-> [protocol |-> "tcp", host |-> IF j = j1 THEN h1 ELSE h2, port |-> 443]]

\* The jobs are interchangeable, together with their hosts.
Swap ==
  {[x \in {j1, j2, h1, h2} |-> x], j1 :> j2 @@ j2 :> j1 @@ h1 :> h2 @@ h2 :> h1}
=============================================================================
