---------------------------- MODULE Icmp_proofs ----------------------------
(***************************************************************************)
(* Proofs about Icmp, for any workers, hosts, addresses and number of      *)
(* probes: types, the sockets of a probe that ended, what makes a success, *)
(* and that a probe returns nothing but what Probes lists.                 *)
(***************************************************************************)
EXTENDS Icmp, TLAPS

LEMMA Typing ==
  /\ Unset \notin Addresses /\ Reachable \subseteq Addresses
  /\ \A h \in Hosts : AddressesOf[h] \subseteq Addresses
  /\ SequenceStart \in Sequences /\ MaxProbes \in Nat
  /\ Nothing \notin Packets /\ Local \subseteq Reachable
  /\ \A n \in Sequences : NextSequence(n) \in Sequences
<1>1. \A n \in Sequences : NextSequence(n) \in Sequences
  BY IcmpAssumption DEF NextSequence, Sequences
<1> QED BY <1>1, ProbesAssumption, IcmpAssumption DEF Reachable, Sequences

\* Where a worker has an address, it is one of its host; where it has a socket, it
\* is none of IPv6.
Located ==
  \A w \in Workers :
    /\ pc[w] \in {"listen", "prepare", "send", "read"} => ip[w] \in AddressesOf[target[w].host]
    /\ pc[w] \in {"prepare", "send", "read"} => ip[w] \notin V6

\* Probes have numbers of their own, and what has the number of one is of this
\* process.  From neither this host nor a stranger comes anything else that claims
\* to be, unless as a reply or an error, and only requests to this host loop back.
Told(p) ==
  /\ p.run <= runs /\ (p.run # 0 => p.own)
  /\ p.own /\ p.peer \notin Local \cup Strangers => p.run # 0 /\ p.kind # "request"
Numbered ==
  /\ \A w \in Workers : run[w] <= runs /\ (pc[w] # "idle" => run[w] >= 1)
  /\ \A v, w \in Workers : v # w /\ run[v] = run[w] => run[v] = 0
  /\ \A q \in wire : q.run <= runs /\ (q.loops => q.peer \in Local)
  /\ \A w \in Workers : inbox[w] # Nothing => Told(inbox[w])

\* Of a probe that has not sent yet there are no packets; of one that reads they
\* bear its number and address.
Early == {"init", "resolve", "listen", "prepare", "send"}
Mine(w, p) ==
  p.run = run[w] => pc[w] \notin Early
                    /\ (pc[w] = "read" => p.seq = sequence[w] /\ p.peer = ip[w])
Sent ==
  \A w \in Workers :
    /\ \A q \in wire : Mine(w, q)
    /\ inbox[w] # Nothing => Mine(w, inbox[w])

IcmpInv == TypeOK /\ Located /\ Numbered /\ Sent /\ SocketsClosed /\ AnswerOfThisProcess

\* A packet that Deliver brings
Arriving(p) ==
  /\ p \in Packets /\ Told(p)
  /\ \A w \in Workers : Mine(w, p)

\* Whatever comes of a request of this process, a request only if it loops back
LEMMA EchoArrives ==
  ASSUME IcmpInv, NEW q \in wire, NEW kind \in {"request", "reply", "error"},
         kind = "request" => q.loops
  PROVE  Arriving(Echo(kind, q))
<1> USE DEF IcmpInv, Echo
<1>1. q \in Requests /\ q.run <= runs /\ (q.loops => q.peer \in Local)
      /\ \A w \in Workers : Mine(w, q)
  BY DEF TypeOK, Numbered, Sent
<1>2. Echo(kind, q) \in Packets /\ q.run # 0
  BY <1>1 DEF Requests, Packets
<1>3. \A w \in Workers : Mine(w, Echo(kind, q))
  BY <1>1 DEF Mine
<1>4. Told(Echo(kind, q))
  BY <1>1, <1>2 DEF Told
<1> QED BY <1>2, <1>3, <1>4 DEF Arriving

\* A request that loops back is still out, but loops no more.
Thrown(q) ==
  /\ q \in Requests /\ q.run <= runs /\ ~q.loops
  /\ \A w \in Workers : Mine(w, q)

Arrived(p) ==
  /\ Arriving(p) /\ Deliver(p) /\ UNCHANGED runs
  /\ \A q \in wire' \ wire : Thrown(q)

LEMMA Arrivals ==
  ASSUME IcmpInv, LoopBack \/ Arrive \/ Foreign
  PROVE  \E p : Arrived(p)
<1> USE Typing DEF IcmpInv
<1>1. CASE Arrive
  <2>1. PICK q \in wire, kind \in {"reply", "error"} :
          /\ wire' = wire \ {q}
          /\ Deliver(Echo(kind, q))
          /\ UNCHANGED runs
    BY <1>1 DEF Arrive
  <2>2. Arriving(Echo(kind, q))
    BY EchoArrives
  <2> QED BY <2>1, <2>2 DEF Arrived
<1>2. CASE Foreign
  <2>1. PICK kind \in {"request", "reply", "error"}, own \in BOOLEAN, peer \in Reachable :
          /\ own => kind # "error" /\ peer \in Strangers
          /\ Deliver([kind |-> kind, own |-> own, run |-> 0,
                      seq |-> NextSequence(SequenceStart), peer |-> peer])
    BY <1>2 DEF Foreign
  <2> DEFINE p == [kind |-> kind, own |-> own, run |-> 0,
                   seq |-> NextSequence(SequenceStart), peer |-> peer]
  <2>2. p \in Packets
    BY DEF Packets
  <2>3. p.run = 0 /\ (p.own => p.peer \in Strangers)
    BY <2>1
  <2>4. Arriving(p)
    <3> HIDE DEF p
    <3>1. \A w \in Workers : run[w] = 0 => pc[w] = "idle"
      BY DEF Numbered
    <3>2. \A w \in Workers : Mine(w, p)
      BY <2>3, <3>1 DEF Mine, Early
    <3> QED BY <2>2, <2>3, <3>2 DEF Arriving, Told, TypeOK
  <2>5. UNCHANGED <<wire, runs>>
    BY <1>2 DEF Foreign, net
  <2> QED BY <2>1, <2>4, <2>5 DEF Arrived
<1>3. CASE LoopBack
  <2>1. PICK q \in wire :
          /\ q.loops
          /\ wire' = (wire \ {q}) \cup {[q EXCEPT !.loops = FALSE]}
          /\ Deliver(Echo("request", q))
          /\ UNCHANGED runs
    BY <1>3 DEF LoopBack
  <2>2. Arriving(Echo("request", q))
    BY <2>1, EchoArrives
  <2>3. Thrown([q EXCEPT !.loops = FALSE])
    <3>1. q \in Requests /\ q.run <= runs /\ \A w \in Workers : Mine(w, q)
      BY DEF TypeOK, Numbered, Sent
    <3>2. \A w \in Workers : Mine(w, [q EXCEPT !.loops = FALSE])
      BY <3>1 DEF Mine, Requests
    <3> QED BY <3>1, <3>2 DEF Thrown, Requests
  <2> QED BY <2>1, <2>2, <2>3 DEF Arrived
<1> QED BY <1>1, <1>2, <1>3

LEMMA TypeStep ==
  ASSUME IcmpInv, [Next]_vars
  PROVE  TypeOK'
<1> USE Typing DEF IcmpInv, TypeOK, local, net, Goto, Return
<1>1. ASSUME NEW w \in Workers, Start(w) PROVE TypeOK'
  BY <1>1 DEF Start, Asked
<1>2. ASSUME NEW w \in Workers, InitSocket(w) PROVE TypeOK'
  BY <1>2 DEF InitSocket
<1>3. ASSUME NEW w \in Workers, Resolve(w) PROVE TypeOK'
  <2>1. AddressesOf[target[w].host] \subseteq Addresses
    BY DEF Asked
  <2>2. ip' \in [Workers -> Addresses \cup {Unset}]
    BY <1>3, <2>1 DEF Resolve
  <2> QED BY <1>3, <2>2 DEF Resolve
<1>4. ASSUME NEW w \in Workers, Listen(w) PROVE TypeOK'
  BY <1>4 DEF Listen
<1>5. ASSUME NEW w \in Workers, Prepare(w) PROVE TypeOK'
  <2>1. sequence' \in [Workers -> Sequences]
    BY <1>5 DEF Prepare
  <2> QED BY <1>5, <2>1 DEF Prepare
<1>6. ASSUME NEW w \in Workers, Send(w) PROVE TypeOK'
  <2>1. CASE wire' = wire \cup {Request(w)}
    <3>1. target[w].host \in Hosts
      BY DEF Asked
    <3>2. ip[w] \in Reachable /\ run[w] \in 1 .. MaxProbes
      BY <1>6, <3>1 DEF Send, Located, Numbered, Reachable
    <3>3. Request(w) \in Requests
      BY <3>2 DEF Request, Requests
    <3> QED BY <1>6, <2>1, <3>3 DEF Send
  <2>2. CASE UNCHANGED wire
    BY <1>6, <2>2 DEF Send
  <2> QED BY <1>6, <2>1, <2>2 DEF Send
<1>7. CASE LoopBack \/ Arrive \/ Foreign
  <2>1. PICK p : Arrived(p)
    BY <1>7, Arrivals
  <2> QED BY <2>1 DEF Deliver, Arrived, Arriving, Thrown
<1>8. CASE Lose
  BY <1>8 DEF Lose
<1>9. ASSUME NEW w \in Workers, ReadPacket(w) \/ ReadTimeout(w) \/ ReadFails(w) \/ Close(w)
      PROVE  TypeOK'
  BY <1>9 DEF ReadPacket, ReadTimeout, ReadFails, Close
<1>10. CASE UNCHANGED vars
  BY <1>10 DEF vars
<1> QED BY <1>1, <1>2, <1>3, <1>4, <1>5, <1>6, <1>7, <1>8, <1>9, <1>10 DEF Next, Step

LEMMA LocatedStep ==
  ASSUME IcmpInv, [Next]_vars
  PROVE  Located'
<1> USE Typing DEF IcmpInv, TypeOK, Located, local, net, Goto, Return
<1>1. ASSUME NEW w \in Workers, Start(w) \/ InitSocket(w) PROVE Located'
  BY <1>1 DEF Start, InitSocket
<1>2. ASSUME NEW w \in Workers, Resolve(w) PROVE Located'
  BY <1>2 DEF Resolve
<1>3. ASSUME NEW w \in Workers, Listen(w) PROVE Located'
  BY <1>3 DEF Listen, MayListen
<1>4. ASSUME NEW w \in Workers, Prepare(w) \/ Send(w) PROVE Located'
  BY <1>4 DEF Prepare, Send
<1>5. CASE LoopBack \/ Arrive \/ Foreign \/ Lose
  BY <1>5 DEF LoopBack, Arrive, Foreign, Deliver, Lose
<1>6. ASSUME NEW w \in Workers, ReadPacket(w) \/ ReadTimeout(w) \/ ReadFails(w) \/ Close(w)
      PROVE  Located'
  BY <1>6 DEF ReadPacket, ReadTimeout, ReadFails, Close
<1>7. CASE UNCHANGED vars
  BY <1>7 DEF vars
<1> QED BY <1>1, <1>2, <1>3, <1>4, <1>5, <1>6, <1>7 DEF Next, Step

LEMMA NumberedStep ==
  ASSUME IcmpInv, [Next]_vars
  PROVE  Numbered'
<1> USE Typing DEF IcmpInv, TypeOK, Numbered, Told, local, net, Goto, Return
<1>1. ASSUME NEW w \in Workers, Start(w) PROVE Numbered'
  BY <1>1 DEF Start, Requests, Packets
<1>2. ASSUME NEW w \in Workers, InitSocket(w) \/ Resolve(w) \/ Listen(w) \/ Prepare(w)
      PROVE  Numbered'
  BY <1>2 DEF InitSocket, Resolve, Listen, Prepare
<1>3. ASSUME NEW w \in Workers, Send(w) PROVE Numbered'
  <2>1. UNCHANGED <<run, inbox, runs>>
    BY <1>3 DEF Send
  <2>2. pc' \in [Workers -> {"idle", "init", "resolve", "listen", "prepare", "send", "read", "returned"}]
        /\ \A v \in Workers : pc'[v] # "idle" => pc[v] # "idle"
    BY <1>3 DEF Send
  <2>3. \A q \in wire' : q.run <= runs /\ (q.loops => q.peer \in Local)
    <3>1. Request(w).run <= runs /\ (Request(w).loops => Request(w).peer \in Local)
      BY DEF Request
    <3>2. wire' \subseteq wire \cup {Request(w)}
      BY <1>3 DEF Send
    <3> QED BY <3>1, <3>2
  <2> QED BY <2>1, <2>2, <2>3
<1>4. CASE LoopBack \/ Arrive \/ Foreign
  <2>1. PICK p : Arrived(p)
    BY <1>4, Arrivals
  <2> QED BY <2>1 DEF Deliver, Arrived, Arriving, Thrown
<1>5. CASE Lose
  BY <1>5 DEF Lose
<1>6. ASSUME NEW w \in Workers, ReadPacket(w) \/ ReadTimeout(w) \/ ReadFails(w) \/ Close(w)
      PROVE  Numbered'
  BY <1>6 DEF ReadPacket, ReadTimeout, ReadFails, Close
<1>7. CASE UNCHANGED vars
  BY <1>7 DEF vars
<1> QED BY <1>1, <1>2, <1>3, <1>4, <1>5, <1>6, <1>7 DEF Next, Step

LEMMA SentStep ==
  ASSUME IcmpInv, [Next]_vars
  PROVE  Sent'
<1> USE Typing DEF IcmpInv, TypeOK, Sent, Mine, Early, local, net, Goto, Return
<1>1. ASSUME NEW w \in Workers, Start(w) PROVE Sent'
  <2>1. \A q \in wire : q.run \in Nat /\ q.run <= runs
    BY DEF Numbered, Requests
  <2>2. \A v \in Workers : inbox[v] # Nothing => inbox[v].run \in Nat /\ inbox[v].run <= runs
    BY DEF Numbered, Told, Packets
  <2>3. run' = [run EXCEPT ![w] = runs + 1] /\ pc' = [pc EXCEPT ![w] = "init"]
    BY <1>1 DEF Start
  <2> QED BY <1>1, <2>1, <2>2, <2>3 DEF Start
<1>2. ASSUME NEW w \in Workers, InitSocket(w) \/ Resolve(w) PROVE Sent'
  BY <1>2 DEF InitSocket, Resolve
<1>3. ASSUME NEW w \in Workers, Listen(w) \/ Prepare(w) PROVE Sent'
  BY <1>3 DEF Listen, Prepare
<1>4. ASSUME NEW w \in Workers, Send(w) PROVE Sent'
  BY <1>4 DEF Send, Request, Numbered
<1>5. CASE LoopBack \/ Arrive \/ Foreign
  <2>1. PICK p : Arrived(p)
    BY <1>5, Arrivals
  <2> QED BY <2>1 DEF Deliver, Arrived, Arriving, Thrown
<1>6. CASE Lose
  BY <1>6 DEF Lose
<1>7. ASSUME NEW w \in Workers, ReadPacket(w) \/ ReadTimeout(w) \/ ReadFails(w) \/ Close(w)
      PROVE  Sent'
  BY <1>7 DEF ReadPacket, ReadTimeout, ReadFails, Close
<1>8. CASE UNCHANGED vars
  BY <1>8 DEF vars
<1> QED BY <1>1, <1>2, <1>3, <1>4, <1>5, <1>6, <1>7, <1>8 DEF Next, Step

LEMMA SuccessStep ==
  ASSUME IcmpInv, [Next]_vars
  PROVE  (SocketsClosed /\ AnswerOfThisProcess)'
<1> USE Typing DEF IcmpInv, TypeOK, SocketsClosed, AnswerOfThisProcess, local, net, Goto,
                   Return, Failed
<1> DEFINE Goal == (SocketsClosed /\ AnswerOfThisProcess)'
<1>1. ASSUME NEW w \in Workers, Start(w) PROVE Goal
  BY <1>1 DEF Start
<1>2. ASSUME NEW w \in Workers, InitSocket(w) \/ Resolve(w) PROVE Goal
  BY <1>2 DEF InitSocket, Resolve
<1>3. ASSUME NEW w \in Workers, Listen(w) \/ Prepare(w) \/ Send(w) PROVE Goal
  BY <1>3 DEF Listen, Prepare, Send
<1>4. CASE LoopBack \/ Arrive \/ Foreign
  <2>1. PICK p : Arrived(p)
    BY <1>4, Arrivals
  <2> QED BY <2>1 DEF Deliver, Arrived
<1>5. CASE Lose
  BY <1>5 DEF Lose
<1>6. ASSUME NEW w \in Workers, ReadPacket(w) PROVE Goal
  <2>1. inbox[w] \in Packets
    BY <1>6 DEF ReadPacket
  <2>2. Received(w, inbox[w]).success =>
          /\ inbox[w].kind # "error" /\ inbox[w].own
          /\ inbox[w].peer = Received(w, inbox[w]).source
    BY <2>1 DEF Received, Succeeded, IsMatchingResponse, Packets
  <2>3. inbox[w].own /\ inbox[w].peer \notin Local \cup Strangers =>
          inbox[w].run \in 1 .. runs /\ inbox[w].kind # "request"
    BY <1>6, <2>1 DEF ReadPacket, Numbered, Told, Packets
  <2>4. result' = [result EXCEPT ![w] = Received(w, inbox[w])]
    BY <1>6 DEF ReadPacket
  <2>5. UNCHANGED <<inbox, runs, socket>>
    BY <1>6 DEF ReadPacket
  <2>6. pc' = [pc EXCEPT ![w] = "returned"] /\ conn' = [conn EXCEPT ![w] = FALSE] /\ pc[w] = "read"
        /\ inbox[w] # Nothing
    BY <1>6 DEF ReadPacket
  <2>7. SocketsClosed'
    BY <2>5, <2>6
  <2>8. ASSUME NEW v \in Workers, pc'[v] = "returned", result'[v].success
        PROVE  /\ inbox'[v] # Nothing /\ inbox'[v].peer = result'[v].source
               /\ result'[v].source \notin Local \cup Strangers =>
                    inbox'[v].kind = "reply" /\ inbox'[v].run \in 1 .. runs'
    <3>1. CASE v = w
      <4>1. result'[w] = Received(w, inbox[w])
        BY <2>4
      <4>2. inbox[w].kind \in {"request", "reply", "error"}
        BY <2>1 DEF Packets
      <4> QED BY <2>2, <2>3, <2>5, <2>6, <2>8, <3>1, <4>1, <4>2
    <3>2. CASE v # w
      <4>1. pc[v] = "returned" /\ result'[v] = result[v]
        BY <2>4, <2>6, <2>8, <3>2
      <4> QED BY <2>5, <2>8, <4>1
    <3> QED BY <3>1, <3>2
  <2> QED BY <2>7, <2>8
<1>7. ASSUME NEW w \in Workers, ReadTimeout(w) \/ ReadFails(w) \/ Close(w) PROVE Goal
  BY <1>7 DEF ReadTimeout, ReadFails, Close
<1>8. CASE UNCHANGED vars
  BY <1>8 DEF vars
<1> QED BY <1>1, <1>2, <1>3, <1>4, <1>5, <1>6, <1>7, <1>8 DEF Next, Step

LEMMA Invariance == Spec => []IcmpInv
<1>1. Init => IcmpInv
  <2> SUFFICES ASSUME Init PROVE IcmpInv
    OBVIOUS
  <2>1. TypeOK
    BY Typing DEF Init, TypeOK
  <2> QED BY <2>1 DEF Init, IcmpInv, Located, Numbered, Sent, SocketsClosed, AnswerOfThisProcess
<1>2. IcmpInv /\ [Next]_vars => IcmpInv'
  BY TypeStep, LocatedStep, NumberedStep, SentStep, SuccessStep DEF IcmpInv
<1> QED BY <1>1, <1>2, PTL DEF Spec

\* Whatever the workers, hosts and networks do, the types are right.
THEOREM TypeCorrect == Spec => []TypeOK
BY Invariance, PTL DEF IcmpInv

\* A probe that is over holds no socket, on whichever way out it left.
THEOREM SocketsAreClosed == Spec => []SocketsClosed
BY Invariance, PTL DEF IcmpInv

\* Whatever the workers and packets, the source of a success sent what made it one,
\* and unless it is this host or a stranger in answer to a request of this process.
THEOREM AnswersAreOfThisProcess == Spec => []AnswerOfThisProcess
BY Invariance, PTL DEF IcmpInv

\* The answer to a probe's own request, if it is what it reads, is a success.
THEOREM OwnAnswersCount == Spec => OwnAnswerCounts
<1> DEFINE Counts ==
      \A w \in Workers : ReadPacket(w) /\ inbox[w].kind = "reply" /\ inbox[w].run = run[w] =>
        result'[w].success /\ result'[w].source = ip[w]
<1>1. IcmpInv => Counts
  <2> SUFFICES ASSUME IcmpInv, NEW w \in Workers, ReadPacket(w),
                      inbox[w].kind = "reply", inbox[w].run = run[w]
               PROVE  result'[w].success /\ result'[w].source = ip[w]
    OBVIOUS
  <2>1. pc[w] = "read" /\ inbox[w] # Nothing
    BY DEF ReadPacket
  <2>2. inbox[w].own
    BY <2>1 DEF IcmpInv, Numbered, Told, TypeOK, Packets
  <2>3. inbox[w].seq = sequence[w] /\ inbox[w].peer = ip[w]
    BY <2>1 DEF IcmpInv, Sent, Mine
  <2>4. Received(w, inbox[w]) = Succeeded(0, ip[w], ip[w])
    BY <2>2, <2>3 DEF Received, IsMatchingResponse
  <2>5. result'[w] = Succeeded(0, ip[w], ip[w])
    BY <2>4 DEF ReadPacket, Return, IcmpInv, TypeOK
  <2> QED BY <2>5 DEF Succeeded
<1> QED BY <1>1, Invariance, PTL DEF OwnAnswerCounts

-----------------------------------------------------------------------------
\* A way out of Execute is a Return of ProbeRun, if the result is one of Probes.
LEMMA Leaving ==
  ASSUME TypeOK, NEW w \in Workers, NEW r, Return(w, r), UNCHANGED target,
         pc[w] \notin {"idle", "returned"}, r \in ICMPExecute(target[w])
  PROVE  Run!Return(w)
<1>1. target[w].protocol = "icmp"
  BY DEF TypeOK, Asked
<1>2. Phase[w] = "running" /\ Phase' = [Phase EXCEPT ![w] = "returned"]
  BY DEF Return, Phase, TypeOK
<1>3. Run!Execute(target[w]) = Run!ICMPExecute(target[w])
  BY <1>1 DEF Run!Execute, Run!Creators
<1>4. Run!ICMPExecute(target[w]) = ICMPExecute(target[w])
  BY DEF Run!ICMPExecute, ICMPExecute, Run!Failed, Failed, Run!Succeeded, Succeeded,
         Run!Unset, Unset
<1> QED BY <1>2, <1>3, <1>4 DEF Run!Return, Return

\* A step within Execute is none of ProbeRun.
LEMMA Going ==
  ASSUME TypeOK, NEW w \in Workers, NEW label \in {"resolve", "listen", "prepare", "send", "read"},
         Goto(w, label), UNCHANGED target, pc[w] \notin {"idle", "returned"}
  PROVE  UNCHANGED Run!vars
BY DEF Goto, Run!vars, Phase, TypeOK

\* Each result of Icmp is one that Probes lists.
LEMMA Listed ==
  ASSUME IcmpInv, NEW w \in Workers
  PROVE  /\ pc[w] = "init" => Failed(0, "init", Unset) \in ICMPExecute(target[w])
         /\ target[w].host \notin Literals =>
              Failed(0, "resolve", Unset) \in ICMPExecute(target[w])
         /\ pc[w] = "listen" => Failed(0, "socket", ip[w]) \in ICMPExecute(target[w])
         /\ pc[w] \in {"prepare", "send", "read"} =>
              /\ \A at \in {"ttl", "marshal", "deadline", "send",
                            "timeout", "receive", "parse", "mismatch"} :
                   Failed(0, at, ip[w]) \in ICMPExecute(target[w])
              /\ \A peer \in Reachable : Succeeded(0, ip[w], peer) \in ICMPExecute(target[w])
BY DEF ICMPExecute, IcmpInv, Located, Reachable

\* ICMP probes keep, as far as safety goes, what a worker may expect of a probe.
THEOREM RunsSafely == Spec => Run!Safety
<1>1. Init => Run!Init
  BY DEF Init, Run!Init, Phase, NoResult, Run!NoResult, Failed, Run!Failed, Unset, Run!Unset
<1>2. IcmpInv /\ [Next]_vars => [Run!Next]_(Run!vars)
  <2> SUFFICES ASSUME IcmpInv, [Next]_vars PROVE [Run!Next]_(Run!vars)
    OBVIOUS
  <2> USE DEF IcmpInv
  <2>1. ASSUME NEW w \in Workers, Start(w) PROVE Run!Start(w)
    <3>1. Phase[w] = "idle" /\ Phase' = [Phase EXCEPT ![w] = "running"]
      BY <2>1 DEF Start, Phase, TypeOK
    <3> QED BY <2>1, <3>1 DEF Start, Run!Start
  <2>2. ASSUME NEW w \in Workers, InitSocket(w) PROVE Run!Return(w) \/ UNCHANGED Run!vars
    BY <2>2, Leaving, Going, Listed DEF InitSocket
  <2>3. ASSUME NEW w \in Workers, Resolve(w) PROVE Run!Return(w) \/ UNCHANGED Run!vars
    BY <2>3, Leaving, Going, Listed DEF Resolve
  <2>4. ASSUME NEW w \in Workers, Listen(w) PROVE Run!Return(w) \/ UNCHANGED Run!vars
    BY <2>4, Leaving, Going, Listed DEF Listen, local
  <2>5. ASSUME NEW w \in Workers, Prepare(w) PROVE Run!Return(w) \/ UNCHANGED Run!vars
    BY <2>5, Leaving, Going, Listed DEF Prepare
  <2>6. ASSUME NEW w \in Workers, Send(w) PROVE Run!Return(w) \/ UNCHANGED Run!vars
    BY <2>6, Leaving, Going, Listed DEF Send, local
  <2>7. ASSUME NEW w \in Workers, ReadPacket(w) PROVE Run!Return(w)
    <3>1. inbox[w] \in Packets /\ pc[w] = "read"
      BY <2>7 DEF ReadPacket, TypeOK
    <3>2. inbox[w].peer \in Reachable
      BY <3>1 DEF Packets
    <3>3. Received(w, inbox[w]) \in ICMPExecute(target[w])
      BY <3>1, <3>2, Listed DEF Received
    <3> QED BY <2>7, <3>1, <3>3, Leaving DEF ReadPacket, local
  <2>8. ASSUME NEW w \in Workers, ReadTimeout(w) \/ ReadFails(w) PROVE Run!Return(w)
    BY <2>8, Leaving, Listed DEF ReadTimeout, ReadFails, local
  <2>9. ASSUME NEW w \in Workers, Close(w) PROVE Run!Close(w)
    <3>1. Phase[w] = "returned" /\ Phase' = [Phase EXCEPT ![w] = "idle"]
      BY <2>9 DEF Close, Goto, Phase, TypeOK
    <3> QED BY <2>9, <3>1 DEF Close, Goto, Run!Close
  <2>10. CASE LoopBack \/ Arrive \/ Foreign \/ Lose \/ UNCHANGED vars
    BY <2>10 DEF LoopBack, Arrive, Foreign, Deliver, Lose, vars, local, Run!vars, Phase
  <2> QED BY <2>1, <2>2, <2>3, <2>4, <2>5, <2>6, <2>7, <2>8, <2>9, <2>10
          DEF Next, Step, Run!Next
<1> QED BY <1>1, <1>2, Invariance, PTL DEF Spec, Run!Safety
=============================================================================
