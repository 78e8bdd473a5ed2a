------------------------------- MODULE MCIcmp -------------------------------
(* A small instance of Icmp: an address of this host, a name for it that has a *)
(* remote one as well, and an IPv6 name.                                       *)
EXTENDS Icmp, TLC

CONSTANTS w1, w2, literal, named, sixth, a1, a2, a6

Resolved == literal :> {a1} @@ named :> {a1, a2} @@ sixth :> {a6}
=============================================================================
