-------------------------------- MODULE Icmp --------------------------------
(***************************************************************************)
(* ICMP probes of concurrent workers (internal/probe/icmp.go).             *)
(*                                                                         *)
(* Every job run makes a probe of its own, which opens a raw socket, sends *)
(* one echo request and reads one packet.  A raw socket gets a copy of     *)
(* every ICMP packet that reaches the host: answers to the requests of the *)
(* other workers, to requests of probes that are over, the requests that   *)
(* the host sends to itself, and whatever else is sent to it.  All probes  *)
(* send the identifier of the process, its number in sixteen bits, and all *)
(* the same sequence number, since each counts its own.  The type of a     *)
(* packet is not looked at: any echo, even a request, may match.           *)
(***************************************************************************)
EXTENDS Probes, Naturals

CONSTANTS
  Workers,
  Local,          \* the addresses of this host: it gets what it sends to them
  Strangers,      \* whence echoes come unasked with this process's identifier
  SequenceStart,  \* as configured, with zero replaced by one
  MaxProbes,      \* bound on the number of probes
  Nothing         \* not a packet

Asked == [protocol : {"icmp"}, host : Hosts, port : {0}]
Reachable == Addresses \ V6
Sequences == SequenceStart .. 65535

\* Echo requests that are out, those to the host itself still to loop back or not,
\* and what a socket receives: echo requests, echo replies and errors, with this
\* process's identifier or not, of a probe of this process or, with zero, of none.
Requests == [run : 1 .. MaxProbes, seq : Sequences, peer : Reachable, loops : BOOLEAN]
Packets ==
  [kind : {"request", "reply", "error"}, own : BOOLEAN, run : 0 .. MaxProbes,
   seq : Sequences, peer : Reachable]

ASSUME IcmpAssumption ==
  /\ SequenceStart \in 1 .. 65535
  /\ MaxProbes \in Nat
  /\ Local \subseteq Reachable /\ Strangers \subseteq Reachable
  /\ Nothing \notin Packets

VARIABLES
  pc,        \* where each worker is in Execute
  target,
  run,       \* the number of its probe
  ip,        \* result.TargetIP
  sequence,  \* p.sequence
  socket,    \* is p.socket open?
  conn,      \* is the socket of Execute open?
  inbox,     \* the first packet that came to it, the only one that is read
  result,    \* of Execute
  wire,      \* requests that may still be answered
  runs       \* number of probes so far

local == <<target, run, ip, sequence, socket>>
net   == <<wire, runs>>
vars  == <<pc, local, conn, inbox, result, net>>

NoResult == Failed(0, "none", Unset)

Init ==
  /\ pc = [w \in Workers |-> "idle"]
  /\ target \in [Workers -> Asked]
  /\ run = [w \in Workers |-> 0]
  /\ ip = [w \in Workers |-> Unset]
  /\ sequence = [w \in Workers |-> SequenceStart]
  /\ socket = [w \in Workers |-> FALSE]
  /\ conn = [w \in Workers |-> FALSE]
  /\ inbox = [w \in Workers |-> Nothing]
  /\ result = [w \in Workers |-> NoResult]
  /\ wire = {}
  /\ runs = 0

\* executeProbe makes the probe, whose first socket may fail to open.
Start(w) ==
  /\ pc[w] = "idle" /\ runs < MaxProbes
  /\ pc' = [pc EXCEPT ![w] = "init"]
  /\ \E t \in Asked : target' = [target EXCEPT ![w] = t]
  /\ \E opened \in BOOLEAN : socket' = [socket EXCEPT ![w] = opened]
  /\ sequence' = [sequence EXCEPT ![w] = SequenceStart]
  /\ ip' = [ip EXCEPT ![w] = Unset]
  /\ runs' = runs + 1
  /\ run' = [run EXCEPT ![w] = runs']
  /\ UNCHANGED <<conn, inbox, result, wire>>

\* An exit of Execute, which closes its socket if it was opened.
\* Mutant: the socket is closed once the packet is prepared only.
ReturnEarly(w, r) ==
  /\ pc' = [pc EXCEPT ![w] = "returned"]
  /\ result' = [result EXCEPT ![w] = r]
  /\ conn' = [conn EXCEPT ![w] = conn[w] /\ pc[w] = "prepare"]
Return(w, r) ==
  /\ pc' = [pc EXCEPT ![w] = "returned"]
  /\ result' = [result EXCEPT ![w] = r]
  /\ conn' = [conn EXCEPT ![w] = FALSE]

Goto(w, label) == pc' = [pc EXCEPT ![w] = label] /\ UNCHANGED result

InitSocket(w) ==
  /\ pc[w] = "init"
  /\ \/ Goto(w, "resolve") /\ socket' = [socket EXCEPT ![w] = TRUE] /\ UNCHANGED conn
     \/ ~socket[w] /\ Return(w, Failed(0, "init", Unset)) /\ UNCHANGED socket
  /\ UNCHANGED <<target, run, ip, sequence, inbox, net>>

Resolve(w) ==
  /\ pc[w] = "resolve"
  /\ \/ /\ \E a \in AddressesOf[target[w].host] : ip' = [ip EXCEPT ![w] = a]
        /\ Goto(w, "listen") /\ UNCHANGED conn
     \/ /\ target[w].host \notin Literals
        /\ Return(w, Failed(0, "resolve", Unset)) /\ UNCHANGED ip
  /\ UNCHANGED <<target, run, sequence, socket, inbox, net>>

\* The address to listen at is 0.0.0.0 for both families.
MayListen(a) == a \notin V6

Listen(w) ==
  /\ pc[w] = "listen"
  /\ \/ /\ MayListen(ip[w])
        /\ conn' = [conn EXCEPT ![w] = TRUE]
        /\ Goto(w, "prepare")
     \/ Return(w, Failed(0, "socket", ip[w]))
  /\ UNCHANGED <<local, inbox, net>>

\* Sixteen bits that skip zero
Unreset(n) == (n + 1) % 65536
NextSequence(n) == IF n = 65535 THEN SequenceStart ELSE n + 1

Prepare(w) ==
  /\ pc[w] = "prepare"
  /\ \/ /\ sequence' = [sequence EXCEPT ![w] = NextSequence(@)]
        /\ \/ Goto(w, "send") /\ UNCHANGED conn
           \/ \E at \in {"marshal", "deadline"} : Return(w, Failed(0, at, ip[w]))
     \/ Return(w, Failed(0, "ttl", ip[w])) /\ UNCHANGED sequence
  /\ UNCHANGED <<target, run, ip, socket, inbox, net>>

\* Mutant: the number sent is the one before.
StaleRequest(w) ==
  [run |-> run[w], seq |-> sequence[w] - 1, peer |-> ip[w], loops |-> ip[w] \in Local]
Request(w) ==
  [run |-> run[w], seq |-> sequence[w], peer |-> ip[w], loops |-> ip[w] \in Local]

Send(w) ==
  /\ pc[w] = "send"
  /\ \/ Goto(w, "read") /\ wire' = wire \cup {Request(w)} /\ UNCHANGED conn
     \/ Return(w, Failed(0, "send", ip[w])) /\ UNCHANGED wire
  /\ UNCHANGED <<local, inbox, runs>>

-----------------------------------------------------------------------------
\* A packet reaches every socket that is open; only the first is ever read.
Deliver(p) ==
  /\ inbox' = [w \in Workers |-> IF conn[w] /\ inbox[w] = Nothing THEN p ELSE inbox[w]]
  /\ UNCHANGED <<pc, local, conn, result>>

\* What comes of a request of this process
Echo(kind, q) ==
  [kind |-> kind, own |-> TRUE, run |-> q.run, seq |-> q.seq, peer |-> q.peer]

\* A request to an address of the host comes to its sockets, the sender's included,
\* before it is answered.
LoopBack ==
  \E q \in wire :
    /\ q.loops
    /\ wire' = (wire \ {q}) \cup {[q EXCEPT !.loops = FALSE]}
    /\ Deliver(Echo("request", q))
    /\ UNCHANGED runs

\* A request is answered by an echo or by an error, which is no echo, or not at all.
Arrive ==
  \E q \in wire, kind \in {"reply", "error"} :
    /\ ~q.loops
    /\ wire' = wire \ {q}
    /\ Deliver(Echo(kind, q))
    /\ UNCHANGED runs

Lose ==
  /\ \E q \in wire : wire' = wire \ {q}
  /\ UNCHANGED <<pc, local, conn, inbox, result, runs>>

\* Somebody pings this host, or an answer or an error comes for another process,
\* whose identifier is this one's only where Strangers allows.
Foreign ==
  /\ \E w \in Workers : conn[w] /\ inbox[w] = Nothing
  /\ \E kind \in {"request", "reply", "error"}, own \in BOOLEAN, peer \in Reachable :
       /\ own => kind # "error" /\ peer \in Strangers
       /\ Deliver([kind |-> kind, own |-> own, run |-> 0,
                   seq |-> NextSequence(SequenceStart), peer |-> peer])
  /\ UNCHANGED net

-----------------------------------------------------------------------------
\* Mutant: the sequence number alone.
SameSequence(w, p) == p.seq = sequence[w]
IsMatchingResponse(w, p) == p.own /\ p.seq = sequence[w]

Received(w, p) ==
  IF p.kind = "error" THEN Failed(0, "parse", ip[w])
  ELSE IF ~IsMatchingResponse(w, p) THEN Failed(0, "mismatch", ip[w])
  ELSE Succeeded(0, ip[w], p.peer)

ReadPacket(w) ==
  /\ pc[w] = "read" /\ inbox[w] # Nothing
  /\ Return(w, Received(w, inbox[w]))
  /\ UNCHANGED <<local, inbox, net>>

\* The deadline may have passed before the packet is read.
\* Mutant: no deadline is set.
NoTimeout(w) == pc[w] = "read" /\ FALSE /\ UNCHANGED vars
ReadTimeout(w) ==
  /\ pc[w] = "read"
  /\ Return(w, Failed(0, "timeout", ip[w]))
  /\ UNCHANGED <<local, inbox, net>>

ReadFails(w) ==
  /\ pc[w] = "read"
  /\ Return(w, Failed(0, "receive", ip[w]))
  /\ UNCHANGED <<local, inbox, net>>

\* deferred by executeProbe; what came to the probe's sockets is gone with it
Close(w) ==
  /\ pc[w] = "returned"
  /\ socket' = [socket EXCEPT ![w] = FALSE]
  /\ inbox' = [inbox EXCEPT ![w] = Nothing]
  /\ Goto(w, "idle")
  /\ UNCHANGED <<target, run, ip, sequence, conn, net>>

Step(w) ==
  \/ InitSocket(w) \/ Resolve(w) \/ Listen(w) \/ Prepare(w) \/ Send(w)
  \/ ReadPacket(w) \/ ReadTimeout(w) \/ Close(w)

Next ==
  \/ \E w \in Workers : Start(w) \/ Step(w) \/ ReadFails(w)
  \/ LoopBack \/ Arrive \/ Lose \/ Foreign

\* Workers go on, and the deadline of a read expires.
Fairness == \A w \in Workers : WF_vars(Step(w))
Spec == Init /\ [][Next]_vars /\ Fairness

-----------------------------------------------------------------------------
TypeOK ==
  /\ pc \in [Workers -> {"idle", "init", "resolve", "listen", "prepare", "send", "read", "returned"}]
  /\ target \in [Workers -> Asked]
  /\ run \in [Workers -> 0 .. MaxProbes] /\ runs \in 0 .. MaxProbes
  /\ ip \in [Workers -> Addresses \cup {Unset}]
  /\ sequence \in [Workers -> Sequences]
  /\ socket \in [Workers -> BOOLEAN] /\ conn \in [Workers -> BOOLEAN]
  /\ DOMAIN result = Workers  \* what they are: RunsAsPromised
  /\ wire \subseteq Requests
  /\ inbox \in [Workers -> {Nothing} \cup Packets]

\* On every way out of a probe the sockets are closed: an agent that lost one per
\* failed probe would run out of descriptors.
SocketsClosed ==
  \A w \in Workers :
    /\ pc[w] \in {"idle", "init", "resolve", "listen", "returned"} => ~conn[w]
    /\ pc[w] = "idle" => ~socket[w]

\* The source of a success sent the packet that made it one.  If it is neither this
\* host nor one of the Strangers, the packet is its answer to a request that this
\* process sent to it: isMatchingResponse tells apart no more than that.
AnswerOfThisProcess ==
  \A w \in Workers : pc[w] = "returned" /\ result[w].success =>
    /\ inbox[w] # Nothing /\ inbox[w].peer = result[w].source
    /\ result[w].source \notin Local \cup Strangers =>
         inbox[w].kind = "reply" /\ inbox[w].run \in 1 .. runs

\* A probe that reads the answer to its own request succeeds, and the source it
\* reports is its target.
OwnAnswerCounts ==
  [][\A w \in Workers : ReadPacket(w) /\ inbox[w].kind = "reply" /\ inbox[w].run = run[w] =>
       result'[w].success /\ result'[w].source = ip[w]]_vars

\* "Check request and response match" (icmp.go:290): a success has been answered.
\* It is not so where the packet is a request, the probe's own or another's.
SuccessIsAnswered ==
  \A w \in Workers : pc[w] = "returned" /\ result[w].success => inbox[w].kind = "reply"

\* Neither is the answer its own: it may be that to another probe.
SuccessIsOwn ==
  \A w \in Workers : pc[w] = "returned" /\ result[w].success => inbox[w].run = run[w]

\* The machine is a ProbeRun: it ends, with a result that Probes lists.
Phase ==
  [w \in Workers |-> IF pc[w] \in {"idle", "returned"} THEN pc[w] ELSE "running"]
Run == INSTANCE ProbeRun WITH phase <- Phase
RunsAsPromised == Run!Spec
=============================================================================
