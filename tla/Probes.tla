------------------------------- MODULE Probes -------------------------------
(***************************************************************************)
(* What the probes report (internal/probe): for every protocol the results *)
(* its Execute can return, one per exit.  executeProbe looks at the result *)
(* only, which no Execute leaves nil, and the rest of the program depends  *)
(* on its success and on the fields that make up its series.               *)
(*                                                                         *)
(* Every job run creates its probe anew.  TCP, UDP and ICMP get their      *)
(* configuration from the global one; HTTP, DNS and gRPC get none          *)
(* (buildProbeConfig returns nil for them, the Build...ConfigFromTarget    *)
(* functions have no caller), so their defaults decide what is checked.    *)
(***************************************************************************)
EXTENDS Integers

CONSTANTS
  Hosts,
  Addresses,
  AddressesOf,    \* what a host may resolve to
  Literals,       \* hosts that are addresses already
  V6,             \* the IPv6 addresses
  LookupMayFail   \* may net.LookupIP fail although the probe succeeded?

Unset == "unset"  \* an empty TargetIP or SourceIP
Here  == "here"   \* this host's own address

ASSUME ProbesAssumption ==
  /\ AddressesOf \in [Hosts -> SUBSET Addresses]
  /\ Literals \subseteq Hosts
  /\ \A h \in Literals : \E a \in Addresses : AddressesOf[h] = {a}
  /\ V6 \subseteq Addresses /\ Unset \notin Addresses
  /\ LookupMayFail \in BOOLEAN

Protocols == {"tcp", "udp", "icmp", "http", "https", "dns", "grpc"}
Targets   == [protocol : Protocols, host : Hosts, port : Nat]

Failed(port, at, ip) ==
  [at |-> at, success |-> FALSE, ip |-> ip, source |-> Unset, port |-> port]
Succeeded(port, ip, source) ==
  [at |-> "end", success |-> TRUE, ip |-> ip, source |-> source, port |-> port]

\* The host and the addresses are known only to a connection that was made.
TCPExecute(t) ==
  {Failed(t.port, "dial", Unset)}
  \cup {Succeeded(t.port, ip, Here) : ip \in AddressesOf[t.host]}

\* The socket comes before the port is noted.  No answer is a failure without
\* an error, and so is an error on receiving one.
UDPExecute(t) ==
  {Failed(0, "socket", Unset)}
  \cup {Failed(t.port, at, Unset) : at \in {"resolve", "payload", "send", "deadline", "receive"}}
  \cup {Succeeded(t.port, ip, Here) : ip \in AddressesOf[t.host]}

\* The port stays zero, the address is noted once it is resolved, and the source
\* is whoever sent the packet that was taken for the reply.  The socket is bound
\* to 0.0.0.0 for IPv6, too, which net.ListenPacket refuses.
ICMPExecute(t) ==
  LET early == {"init"} \cup (IF t.host \in Literals THEN {} ELSE {"resolve"})
      late  == {"ttl", "marshal", "deadline", "send",
                "timeout", "receive", "parse", "mismatch"}
  IN  {Failed(0, at, Unset) : at \in early}
      \cup {Failed(0, "socket", ip) : ip \in AddressesOf[t.host]}
      \cup {Failed(0, at, ip) : at \in late, ip \in AddressesOf[t.host] \ V6}
      \cup {Succeeded(0, ip, peer) : ip \in AddressesOf[t.host] \ V6, peer \in Addresses \ V6}

PortOr(t, default) == IF t.port = 0 THEN default ELSE t.port

\* net.LookupIP after a probe that succeeded; else what was noted before
LookedUp(t, noted) ==
  AddressesOf[t.host] \cup IF LookupMayFail /\ t.host \notin Literals THEN {noted} ELSE {}

\* The checks of an answer that are on by default: HTTP wants status 200 and gRPC
\* SERVING; the body, the response code and the expected records are not looked at.
Checked(protocol) == IF protocol = "dns" THEN {} ELSE {"status"}

HTTPExecute(t) ==
  LET secure == t.protocol = "https"
      name   == IF secure THEN t.host ELSE Unset  \* resp.TLS.ServerName
      port   == PortOr(t, IF secure THEN 443 ELSE 80)
  IN  {Failed(t.port, at, Unset) : at \in {"request", "exchange", "read"} \cup Checked(t.protocol)}
      \cup {Succeeded(port, ip, Unset) : ip \in LookedUp(t, name)}

DNSExecute(t) ==
  {Failed(t.port, at, Unset) : at \in {"exchange", "empty"} \cup Checked(t.protocol)}
  \cup {Succeeded(PortOr(t, 53), ip, Unset) : ip \in LookedUp(t, Unset)}

GRPCExecute(t) ==
  {Failed(t.port, at, Unset) : at \in {"dial", "check"} \cup Checked(t.protocol)}
  \cup {Succeeded(PortOr(t, 443), ip, Unset) : ip \in LookedUp(t, Unset)}

\* What a probe made by the factory returns; Scheduler has the unknown protocols.
Creators(t) ==
  [tcp  |-> TCPExecute(t),  udp   |-> UDPExecute(t),  icmp |-> ICMPExecute(t),
   http |-> HTTPExecute(t), https |-> HTTPExecute(t), dns  |-> DNSExecute(t),
   grpc |-> GRPCExecute(t)]
Execute(t) == Creators(t)[t.protocol]

\* generateSeriesID, whose hash is taken to be injective; mutant: the port alone.
SeriesByPort(t, r) ==
  [protocol |-> t.protocol, ip |-> Unset, port |-> r.port, source |-> Unset]
SeriesID(t, r) ==
  [protocol |-> t.protocol, ip |-> r.ip, port |-> r.port, source |-> r.source]
=============================================================================
