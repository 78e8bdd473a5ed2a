-------------------------- MODULE Collector_proofs --------------------------
(***************************************************************************)
(* Proofs about Collector, for any workers, exporters, series and bounds:  *)
(* the mutex excludes writers from each other and from the callbacks, so   *)
(* that no name is registered twice and no export goes back in time; who   *)
(* waits for it waits for one that can go on.                              *)
(***************************************************************************)
EXTENDS Collector, TLAPS

LEMMA InitInv == Init => CollectorInv
<1> SUFFICES ASSUME Init PROVE CollectorInv
  OBVIOUS
<1> USE CollectorAssumption DEF Init, Procs, Writers
<1>1. Places
  BY DEF Places
<1>2. Values
  BY DEF Values
<1>3. Exclusive /\ RegisteredOnce /\ CreatesNew
  BY DEF Exclusive, RegisteredOnce, CreatesNew
<1>4. GaugesUpToDate /\ NoneAhead /\ GaugesOfThisTime
  BY DEF GaugesUpToDate, NoneAhead, GaugesOfThisTime, Gauges, GaugeNames
<1> QED BY <1>1, <1>2, <1>3, <1>4 DEF CollectorInv

\* A goroutine is of one kind.
LEMMA Kinds ==
  /\ Recorders \subseteq Procs /\ Recorders \subseteq Writers /\ Writers \subseteq Procs
  /\ Exporters \subseteq Procs /\ Exporters \cap Writers = {}
  /\ Updater \in Writers /\ Updater \notin Recorders /\ Updater \notin Exporters
  /\ NoOne \notin Procs
  /\ \A p \in Procs : p \in Recorders \/ p = Updater \/ p \in Exporters
BY CollectorAssumption DEF Procs, Writers

-----------------------------------------------------------------------------
(* Where the goroutines are *)

\* What Unlock does to the others
LEMMA UnlockMoves ==
  ASSUME Places, NEW p \in Writers, Unlock(p)
  PROVE  /\ writer' = NoOne /\ pc'[p] = "idle" /\ at'[p] = 1
         /\ \A q \in Procs \ {p} :
              /\ at'[q] = at[q]
              /\ pc'[q] = IF pc[q] = "rwait" THEN "read" ELSE pc[q]
         /\ at' \in [Procs -> 1..4]
         /\ \A q \in Procs : held'[q] = IF pc[q] = "rwait" THEN held[q] + 1 ELSE held[q]
<1>1. \A q \in Procs : pc[q] = "rwait" => q \in Exporters
  BY Kinds DEF Places
<1> QED BY <1>1, Kinds DEF Unlock, Places

LEMMA UnlockPlaces ==
  ASSUME Places, NEW p \in Writers, Unlock(p)
  PROVE  Places'
<1>1. /\ pc'[p] = "idle" /\ at'[p] = 1
      /\ \A q \in Procs \ {p} :
           /\ at'[q] = at[q]
           /\ pc'[q] = IF pc[q] = "rwait" THEN "read" ELSE pc[q]
      /\ at' \in [Procs -> 1..4]
  BY UnlockMoves
<1>2. pc' \in [Procs -> {"idle", "lock", "drain", "find", "create", "add", "set",
                         "rlock", "rwait", "read", "done"}]
  BY DEF Unlock, Places
<1>3. ASSUME NEW q \in Recorders
      PROVE  pc'[q] \in {"idle", "lock", "drain", "find", "create", "add"}
  BY <1>1, Kinds DEF Places
<1>4. /\ pc'[Updater] \in {"idle", "lock", "drain", "set"}
      /\ at'[Updater] <= 3 /\ (pc'[Updater] # "set" => at'[Updater] = 1)
  BY <1>1, Kinds DEF Places
<1>5. ASSUME NEW q \in Exporters
      PROVE  /\ pc'[q] \in {"idle", "rlock", "rwait", "read", "done"}
             /\ pc'[q] = "idle" => at'[q] = 1
             /\ pc'[q] \in {"rlock", "rwait", "read"} => at'[q] <= 3
  <2>1. q # p /\ q \in Procs
    BY Kinds
  <2> QED BY <1>1, <2>1 DEF Places
<1> QED BY <1>1, <1>2, <1>3, <1>4, <1>5 DEF Places

LEMMA PlacesStep ==
  ASSUME Places, [Next]_vars
  PROVE  Places'
<1> USE Kinds
<1>1. ASSUME NEW p \in Recorders, NEW r \in Records, Record(p, r) PROVE Places'
  BY <1>1 DEF Record, Goto, Places
<1>2. CASE Update
  BY <1>2 DEF Update, Goto, Places
<1>3. ASSUME NEW p \in Exporters, Export(p) PROVE Places'
  BY <1>3 DEF Export, Goto, Places
<1>4. ASSUME NEW p \in Writers, Announce(p) PROVE Places'
  BY <1>4 DEF Announce, Goto, Places, Writers
<1>5. ASSUME NEW p \in Writers, Drained(p) PROVE Places'
  BY <1>5 DEF Drained, Goto, Places, Writers
<1>6. ASSUME NEW p \in Recorders, Find(p) \/ Create(p) PROVE Places'
  BY <1>6 DEF Find, Create, Goto, Places
<1>7. ASSUME NEW p \in Recorders, Add(p) PROVE Places'
  <2>1. CASE at[p] = 1
    BY <1>7, <2>1 DEF Add, Goto, Places
  <2>2. CASE at[p] # 1
    BY <1>7, <2>2, UnlockPlaces DEF Add
  <2> QED BY <2>1, <2>2
<1>8. CASE Set
  <2>1. CASE at[Updater] < 3
    BY <1>8, <2>1 DEF Set, Places
  <2>2. CASE ~(at[Updater] < 3)
    BY <1>8, <2>2, UnlockPlaces DEF Set
  <2> QED BY <2>1, <2>2
<1>9. ASSUME NEW p \in Exporters, RLock(p) PROVE Places'
  BY <1>9 DEF RLock, Goto, Places
<1>10. ASSUME NEW p \in Exporters, Read(p) PROVE Places'
  BY <1>10 DEF Read, Goto, Places
<1>11. ASSUME NEW p \in Exporters, Pushed(p) PROVE Places'
  BY <1>11 DEF Pushed, Goto, Places
<1>12. CASE UNCHANGED vars
  BY <1>12 DEF vars, Places
<1> QED BY <1>1, <1>2, <1>3, <1>4, <1>5, <1>6, <1>7, <1>8, <1>9, <1>10, <1>11, <1>12
        DEF Next, Step

LEMMA ValuesStep ==
  ASSUME Places, Exclusive, Values, [Next]_vars
  PROVE  Values'
<1> USE Kinds
<1>1. ASSUME NEW p \in Recorders, NEW r \in Records, Record(p, r) PROVE Values'
  BY <1>1 DEF Record, Values
<1>2. CASE Update
  BY <1>2 DEF Update, Values
<1>3. ASSUME NEW p \in Exporters, Export(p) PROVE Values'
  BY <1>3 DEF Export, HeldByExport, Values
<1>4. ASSUME NEW p \in Writers, Announce(p) \/ Drained(p) PROVE Values'
  BY <1>4 DEF Announce, Drained, Values
<1>5. ASSUME NEW p \in Recorders, Find(p) \/ Create(p) PROVE Values'
  BY <1>5 DEF Find, Create, Values
<1>6. ASSUME NEW p \in Recorders, Add(p) PROVE Values'
  BY <1>6 DEF Add, Unlock, Values
<1>7. CASE Set
  <2>1. at[Updater] \in {1, 2, 3}
    BY <1>7 DEF Set, Places
  <2>2. Gauges[at[Updater]] \in GaugeNames
    BY <2>1 DEF Gauges, GaugeNames
  <2> QED BY <1>7, <2>2 DEF Set, Unlock, Values
<1>8. ASSUME NEW p \in Exporters, RLock(p) PROVE Values'
  BY <1>8 DEF RLock, Values
<1>9. ASSUME NEW p \in Exporters, Read(p) PROVE Values'
  <2>1. at[p] \in {1, 2, 3} /\ held[p] = 1
    BY <1>9 DEF Read, Places, Exclusive
  <2>2. Exported[at[p]] \in GaugeNames
    BY <2>1 DEF Exported, GaugeNames
  <2> QED BY <1>9, <2>1, <2>2 DEF Read, Values
<1>10. ASSUME NEW p \in Exporters, Pushed(p) PROVE Values'
  BY <1>10 DEF Pushed, Values
<1>11. CASE UNCHANGED vars
  BY <1>11 DEF vars, Values
<1> QED BY <1>1, <1>2, <1>3, <1>4, <1>5, <1>6, <1>7, <1>8, <1>9, <1>10, <1>11 DEF Next, Step

-----------------------------------------------------------------------------
(* The mutex *)

\* Writers hold it in these places.
Inside == {"find", "create", "add", "set"}
Claims == {"drain", "find", "create", "add", "set"}

\* A writer that holds the mutex is alone, and nobody reads.
LEMMA Alone ==
  ASSUME Places, Exclusive, NEW p \in Writers, pc[p] \in Inside
  PROVE  /\ writer = p
         /\ \A q \in Writers : pc[q] \in Claims => q = p
         /\ \A q \in Exporters : held[q] = 0 /\ pc[q] # "read"
BY Kinds DEF Exclusive, Inside, Claims

\* A step that moves a goroutine to where it claims no more than before, without a lock
LEMMA ExclusiveKept ==
  ASSUME Places, Exclusive, NEW p \in Procs,
         \A q \in Procs \ {p} : pc'[q] = pc[q] /\ held'[q] = held[q],
         UNCHANGED writer,
         held'[p] = IF pc'[p] = "read" THEN 1 ELSE 0,
         pc'[p] = "read" => pc[p] = "read",
         p \in Writers /\ pc'[p] \in Claims => pc[p] \in Claims,
         p \in Writers /\ pc'[p] \in Inside => pc[p] \in Inside
  PROVE  Exclusive'
<1>1. ASSUME NEW q \in Writers, pc'[q] \in Claims PROVE pc[q] \in Claims
  BY <1>1, Kinds
<1>2. ASSUME NEW q \in Writers, pc'[q] \in Inside PROVE pc[q] \in Inside
  BY <1>2, Kinds
<1>3. \A q \in Procs : held'[q] = (IF pc'[q] = "read" THEN 1 ELSE 0) /\ (held[q] = 0 => held'[q] = 0)
  BY DEF Exclusive
<1> QED BY <1>1, <1>2, <1>3, Kinds DEF Exclusive, Inside, Claims

\* Unlock leaves it to the callbacks that waited.
LEMMA ExclusiveUnlock ==
  ASSUME Places, Exclusive, NEW p \in Writers, pc[p] \in Inside, Unlock(p)
  PROVE  Exclusive'
<1>1. /\ pc'[p] = "idle"
      /\ \A q \in Procs \ {p} : pc'[q] = IF pc[q] = "rwait" THEN "read" ELSE pc[q]
      /\ \A q \in Procs : held'[q] = IF pc[q] = "rwait" THEN held[q] + 1 ELSE held[q]
  BY UnlockMoves
<1>2. ASSUME NEW q \in Procs PROVE held'[q] = IF pc'[q] = "read" THEN 1 ELSE 0
  <2>1. held[q] = IF pc[q] = "read" THEN 1 ELSE 0
    BY DEF Exclusive
  <2>2. CASE q = p
    BY <1>1, <2>1, <2>2, Kinds DEF Inside
  <2>3. CASE q # p
    BY <1>1, <2>1, <2>3
  <2> QED BY <2>2, <2>3
<1>3. ASSUME NEW q \in Writers PROVE pc'[q] \notin Claims
  <2>1. CASE q = p
    BY <1>1, <2>1 DEF Claims
  <2>2. CASE q # p
    <3>1. pc[q] \notin Claims /\ pc[q] # "rwait"
      BY <2>2, Alone, Kinds DEF Places
    <3> QED BY <1>1, <2>2, <3>1, Kinds
  <2> QED BY <2>1, <2>2
<1> QED BY <1>2, <1>3 DEF Exclusive, Claims

LEMMA ExclusiveStep ==
  ASSUME Places, Values, Exclusive, [Next]_vars
  PROVE  Exclusive'
<1> USE Kinds
<1>1. ASSUME NEW p \in Recorders, NEW r \in Records, Record(p, r) PROVE Exclusive'
  BY <1>1, ExclusiveKept DEF Record, Goto, Places, Exclusive, Claims, Inside
<1>2. CASE Update
  BY <1>2, ExclusiveKept DEF Update, Goto, Places, Exclusive, Claims, Inside
<1>3. ASSUME NEW p \in Exporters, Export(p) PROVE Exclusive'
  BY <1>3, ExclusiveKept DEF Export, HeldByExport, Goto, Places, Values
<1>4. ASSUME NEW p \in Writers, Announce(p) PROVE Exclusive'
  <2>1. /\ writer' = p /\ writer = NoOne /\ UNCHANGED held
        /\ pc[p] = "lock" /\ pc'[p] = "drain" /\ \A q \in Procs \ {p} : pc'[q] = pc[q]
    BY <1>4 DEF Announce, Free, Goto, Places
  <2>2. \A q \in Writers : pc[q] \notin Claims
    BY <2>1 DEF Exclusive, Claims
  <2> QED BY <2>1, <2>2 DEF Exclusive, Claims
<1>5. ASSUME NEW p \in Writers, Drained(p) PROVE Exclusive'
  <2>1. /\ UNCHANGED <<writer, held>> /\ \A q \in Procs : held[q] = 0
        /\ pc[p] = "drain" /\ pc'[p] \in {"set", "find"}
        /\ \A q \in Procs \ {p} : pc'[q] = pc[q]
    BY <1>5 DEF Drained, Goto, Places
  <2> QED BY <2>1 DEF Exclusive
<1>6. ASSUME NEW p \in Recorders, Find(p) \/ Create(p) PROVE Exclusive'
  <2>1. /\ pc[p] \in Inside /\ pc'[p] \in {"add", "create"} /\ UNCHANGED <<writer, held>>
        /\ \A q \in Procs \ {p} : pc'[q] = pc[q]
    BY <1>6 DEF Find, Create, Goto, Places, Inside
  <2> QED BY <2>1, ExclusiveKept DEF Exclusive, Claims, Inside
<1>7. ASSUME NEW p \in Recorders, Add(p) PROVE Exclusive'
  <2>1. CASE at[p] = 1
    <3>1. /\ pc[p] \in Inside /\ pc'[p] = "find" /\ UNCHANGED <<writer, held>>
          /\ \A q \in Procs \ {p} : pc'[q] = pc[q]
      BY <1>7, <2>1 DEF Add, Goto, Places, Inside
    <3> QED BY <3>1, ExclusiveKept DEF Exclusive, Claims, Inside
  <2>2. CASE at[p] # 1
    BY <1>7, <2>2, ExclusiveUnlock DEF Add, Inside
  <2> QED BY <2>1, <2>2
<1>8. CASE Set
  <2>1. CASE at[Updater] < 3
    BY <1>8, <2>1 DEF Set, Exclusive
  <2>2. CASE ~(at[Updater] < 3)
    BY <1>8, <2>2, ExclusiveUnlock DEF Set, Inside
  <2> QED BY <2>1, <2>2
<1>9. ASSUME NEW p \in Exporters, RLock(p) PROVE Exclusive'
  <2>1. /\ pc[p] = "rlock" /\ held[p] = 0 /\ UNCHANGED writer
        /\ \A q \in Procs \ {p} : pc'[q] = pc[q] /\ held'[q] = held[q]
        /\ held'[p] = IF pc'[p] = "read" THEN 1 ELSE 0
        /\ pc'[p] = "read" => writer = NoOne
    BY <1>9 DEF RLock, MayRead, Goto, Places, Values, Exclusive
  <2>2. CASE writer = NoOne
    <3>1. \A q \in Writers : pc[q] \notin Claims /\ pc'[q] = pc[q]
      BY <2>1, <2>2 DEF Exclusive, Claims
    <3> QED BY <2>1, <3>1 DEF Exclusive, Claims
  <2>3. CASE writer # NoOne
    BY <2>1, <2>3, ExclusiveKept
  <2> QED BY <2>2, <2>3
<1>10. ASSUME NEW p \in Exporters, Read(p) PROVE Exclusive'
  <2>1. /\ pc[p] = "read" /\ held[p] = 1 /\ UNCHANGED writer
        /\ \A q \in Procs \ {p} : pc'[q] = pc[q] /\ held'[q] = held[q]
        /\ held'[p] = 0 /\ pc'[p] # "read"
    BY <1>10 DEF Read, Goto, Places, Values, Exclusive
  <2> QED BY <2>1, ExclusiveKept
<1>11. ASSUME NEW p \in Exporters, Pushed(p) PROVE Exclusive'
  BY <1>11, ExclusiveKept DEF Pushed, Goto, Places, Values
<1>12. CASE UNCHANGED vars
  BY <1>12 DEF vars, Exclusive
<1> QED BY <1>1, <1>2, <1>3, <1>4, <1>5, <1>6, <1>7, <1>8, <1>9, <1>10, <1>11, <1>12
        DEF Next, Step

-----------------------------------------------------------------------------
(* The names *)

LEMMA NamesStep ==
  ASSUME Places, Values, Exclusive, CreatesNew, RegisteredOnce, [Next]_vars
  PROVE  CreatesNew' /\ RegisteredOnce'
<1> USE Kinds
<1> DEFINE Still(q) == /\ pc'[q] = "create" => pc[q] = "create"
                       /\ at'[q] = at[q] /\ probe'[q] = probe[q]
<1>1. ASSUME \A q \in Recorders : pc'[q] = "create" => Still(q),
             UNCHANGED <<registered, panicked>>
      PROVE  CreatesNew' /\ RegisteredOnce'
  BY <1>1 DEF CreatesNew, RegisteredOnce, NameOf
<1>2. ASSUME NEW p \in Recorders, NEW r \in Records, Record(p, r)
      PROVE  CreatesNew' /\ RegisteredOnce'
  <2>1. \A q \in Recorders : pc'[q] = "create" => Still(q)
    BY <1>2 DEF Record, Goto, Places, Values
  <2> QED BY <1>1, <1>2, <2>1 DEF Record
<1>3. ASSUME NEW p \in Writers, Announce(p) \/ Drained(p) PROVE CreatesNew' /\ RegisteredOnce'
  <2>1. \A q \in Recorders : pc'[q] = "create" => Still(q)
    BY <1>3 DEF Announce, Drained, Goto, Places
  <2> QED BY <1>1, <1>3, <2>1 DEF Announce, Drained
<1>4. ASSUME NEW p \in Recorders, Find(p) PROVE CreatesNew' /\ RegisteredOnce'
  <2>1. /\ UNCHANGED <<at, probe, registered, panicked>>
        /\ pc' = [pc EXCEPT ![p] = IF NameOf(p) \in registered THEN "add" ELSE "create"]
    BY <1>4 DEF Find, Goto
  <2>2. ASSUME NEW q \in Recorders, pc'[q] = "create" PROVE NameOf(q) \notin registered
    BY <2>1, <2>2 DEF Places, CreatesNew
  <2> QED BY <2>1, <2>2 DEF CreatesNew, RegisteredOnce, NameOf
<1>5. ASSUME NEW p \in Recorders, Create(p) PROVE CreatesNew' /\ RegisteredOnce'
  <2>1. NameOf(p) \notin registered
    BY <1>5 DEF Create, CreatesNew
  <2>2. \A q \in Recorders : pc'[q] # "create"
    BY <1>5, Alone DEF Create, Goto, Places, Inside, Claims
  <2> QED BY <1>5, <2>1, <2>2 DEF Create, CreatesNew, RegisteredOnce
<1>6. ASSUME NEW p \in Recorders, Add(p) PROVE CreatesNew' /\ RegisteredOnce'
  <2>1. \A q \in Recorders \ {p} : pc[q] # "create"
    BY <1>6, Alone DEF Add, Inside, Claims
  <2>2. \A q \in Recorders : pc'[q] # "create"
    <3>1. CASE at[p] = 1
      BY <1>6, <2>1, <3>1 DEF Add, Goto, Places
    <3>2. CASE at[p] # 1
      BY <1>6, <2>1, <3>2, UnlockMoves DEF Add
    <3> QED BY <3>1, <3>2
  <2> QED BY <1>6, <2>2 DEF Add, CreatesNew, RegisteredOnce
<1>7. CASE Set
  <2>1. \A q \in Recorders : pc[q] # "create"
    BY <1>7, Alone DEF Set, Inside, Claims
  <2>2. \A q \in Recorders : pc'[q] # "create"
    <3>1. CASE at[Updater] < 3
      BY <1>7, <2>1, <3>1 DEF Set
    <3>2. CASE ~(at[Updater] < 3)
      BY <1>7, <2>1, <3>2, UnlockMoves DEF Set
    <3> QED BY <3>1, <3>2
  <2> QED BY <1>7, <2>2 DEF Set, CreatesNew, RegisteredOnce
<1>8. ASSUME NEW p \in Exporters, Export(p) \/ RLock(p) \/ Read(p) \/ Pushed(p)
      PROVE  CreatesNew' /\ RegisteredOnce'
  <2>1. \A q \in Recorders : pc'[q] = pc[q] /\ at'[q] = at[q] /\ probe'[q] = probe[q]
    BY <1>8 DEF Export, RLock, Read, Pushed, Goto, Places
  <2> QED BY <1>1, <1>8, <2>1 DEF Export, RLock, Read, Pushed
<1>9. CASE Update
  <2>1. \A q \in Recorders : pc'[q] = "create" => Still(q)
    BY <1>9 DEF Update, Goto, Places
  <2> QED BY <1>1, <1>9, <2>1 DEF Update
<1>10. CASE UNCHANGED vars
  BY <1>1, <1>10 DEF vars
<1> QED BY <1>2, <1>3, <1>4, <1>5, <1>6, <1>7, <1>8, <1>9, <1>10 DEF Next, Step

-----------------------------------------------------------------------------
(* The gauges *)

\* An assignment of one of the three
LEMMA SetStep ==
  ASSUME Places, Values, GaugesUpToDate, Set
  PROVE  GaugesUpToDate' /\ updates <= updates'
<1>1. at[Updater] \in {1, 2, 3} /\ updates \in Nat
  BY Kinds DEF Set, Places, Values
<1>2. gauge' = [gauge EXCEPT ![Gauges[at[Updater]]] = updates + 1]
  BY <1>1 DEF Set, Assigned
<1>3. /\ Gauges[1] = "total" /\ Gauges[2] = "running" /\ Gauges[3] = "failed"
      /\ gauge["total"] \in Nat /\ gauge["running"] \in Nat /\ gauge["failed"] \in Nat
      /\ DOMAIN gauge = {"total", "running", "failed"}
  BY DEF Gauges, Values, GaugeNames
<1>4. \A k \in {1, 2, 3} : gauge[Gauges[k]] = updates + (IF k < at[Updater] THEN 1 ELSE 0)
  BY DEF GaugesUpToDate
<1>5. CASE at[Updater] < 3
  <2>1. at'[Updater] = at[Updater] + 1 /\ updates' = updates
    BY <1>5, Kinds DEF Set, Places
  <2>2. \A k \in {1, 2, 3} : gauge'[Gauges[k]] = updates + (IF k < at[Updater] + 1 THEN 1 ELSE 0)
    BY <1>1, <1>2, <1>3, <1>4, <1>5
  <2> QED BY <1>1, <2>1, <2>2 DEF GaugesUpToDate
<1>6. CASE ~(at[Updater] < 3)
  <2>1. at'[Updater] = 1 /\ updates' = updates + 1 /\ at[Updater] = 3
    BY <1>1, <1>6, Kinds, UnlockMoves DEF Set
  <2>2. \A k \in {1, 2, 3} : gauge'[Gauges[k]] = updates + 1
    BY <1>1, <1>2, <1>3, <1>4, <2>1
  <2> QED BY <1>1, <2>1, <2>2 DEF GaugesUpToDate
<1> QED BY <1>5, <1>6

\* What an export has read so far stays true while the updates go on.
LEMMA ReadSoFar ==
  ASSUME Places, Values, NoneAhead, GaugesOfThisTime,
         UNCHANGED <<sample, since>>, updates <= updates', updates' \in Nat,
         \A p \in Exporters : at'[p] = at[p]
  PROVE  NoneAhead' /\ GaugesOfThisTime'
<1>1. GaugesOfThisTime'
  BY DEF GaugesOfThisTime
<1>2. ASSUME NEW p \in Exporters
      PROVE  /\ since'[p] <= updates'
             /\ \A i \in 1..(at'[p] - 1) : sample'[p][Exported[i]] <= updates'
  <2>1. since[p] <= updates /\ since[p] \in Nat /\ updates \in Nat /\ at[p] \in 1..4 /\ p \in Procs
    BY Kinds DEF NoneAhead, Values, Places
  <2>2. ASSUME NEW i \in 1..(at[p] - 1) PROVE sample[p][Exported[i]] <= updates'
    <3>1. i \in {1, 2, 3}
      BY <2>1
    <3>2. Exported[i] \in GaugeNames
      BY <3>1 DEF Exported, GaugeNames
    <3>3. sample[p][Exported[i]] \in Nat /\ sample[p][Exported[i]] <= updates
      BY <3>2 DEF NoneAhead, Values
    <3> QED BY <2>1, <3>3
  <2> QED BY <2>1, <2>2
<1> QED BY <1>1, <1>2 DEF NoneAhead

\* The callback of one gauge
LEMMA ReadStep ==
  ASSUME Places, Values, Exclusive, GaugesUpToDate, NoneAhead, GaugesOfThisTime,
         NEW p \in Exporters, Read(p)
  PROVE  NoneAhead' /\ GaugesOfThisTime'
<1> DEFINE k == at[p]
<1>1. k \in {1, 2, 3} /\ held[p] = 1 /\ p \in Procs
  BY Kinds DEF Read, Places, Exclusive
<1>2. pc[Updater] # "set"
  BY <1>1, Kinds DEF Exclusive
<1>3. gauge[Exported[k]] = updates
  <2>1. PICK j \in 1..3 : Exported[k] = Gauges[j]
    BY <1>1 DEF Exported, Gauges
  <2>2. at[Updater] = 1 /\ updates \in Nat
    BY <1>2 DEF Places, Values
  <2> QED BY <2>1, <2>2 DEF GaugesUpToDate
<1>4. /\ sample' = [sample EXCEPT ![p][Exported[k]] = updates]
      /\ at' = [at EXCEPT ![p] = k + 1]
      /\ UNCHANGED <<updates, since>>
  BY <1>3 DEF Read
<1>5. \A i, j \in {1, 2, 3} : i # j => Exported[i] # Exported[j]
  BY DEF Exported
<1>6. \A i \in {1, 2, 3} : Exported[i] \in GaugeNames
  BY DEF Exported, GaugeNames
<1>7. /\ sample'[p][Exported[k]] = updates
      /\ \A i \in {1, 2, 3} \ {k} : sample'[p][Exported[i]] = sample[p][Exported[i]]
      /\ at'[p] = k + 1
      /\ \A q \in Exporters \ {p} : sample'[q] = sample[q] /\ at'[q] = at[q]
  BY <1>1, <1>4, <1>5, <1>6, Kinds DEF Values, Places
<1>8. /\ updates \in Nat /\ since[p] \in Nat /\ since[p] <= updates
      /\ \A i \in {1, 2, 3} : sample[p][Exported[i]] \in Nat
      /\ \A i \in 1..(k - 1) : sample[p][Exported[i]] <= updates
  BY <1>6 DEF Values, NoneAhead
<1>9. \A i \in 1..(k - 1) : /\ sample[p][Exported[i]] >= since[p]
                            /\ \A j \in 1..i : sample[p][Exported[j]] <= sample[p][Exported[i]]
  BY DEF GaugesOfThisTime
<1> HIDE DEF k
<1>10. ASSUME NEW i \in 1..k
       PROVE  /\ sample'[p][Exported[i]] >= since[p] /\ sample'[p][Exported[i]] <= updates
              /\ \A j \in 1..i : sample'[p][Exported[j]] <= sample'[p][Exported[i]]
  <2>1. CASE i = k
    <3>1. ASSUME NEW j \in 1..k PROVE sample'[p][Exported[j]] <= updates
      <4>1. CASE j = k
        BY <1>7, <1>8, <4>1
      <4>2. CASE j # k
        <5>1. j \in 1..(k - 1) /\ j \in {1, 2, 3} \ {k}
          BY <1>1, <4>2
        <5> QED BY <1>7, <1>8, <5>1
      <4> QED BY <4>1, <4>2
    <3> QED BY <1>7, <1>8, <2>1, <3>1
  <2>2. CASE i # k
    <3>1. i \in 1..(k - 1) /\ \A j \in 1..i : j \in {1, 2, 3} \ {k}
      BY <1>1, <2>2
    <3>2. i \in {1, 2, 3} \ {k}
      BY <1>1, <3>1
    <3> QED BY <1>7, <1>8, <1>9, <3>1, <3>2
  <2> QED BY <2>1, <2>2
<1>11. 1..(at'[p] - 1) = 1..k
  BY <1>1, <1>7
<1>12. NoneAhead'
  <2>1. ASSUME NEW q \in Exporters \ {p}
        PROVE  /\ since'[q] <= updates'
               /\ \A i \in 1..(at'[q] - 1) : sample'[q][Exported[i]] <= updates'
    BY <1>4, <1>7 DEF NoneAhead
  <2>2. /\ since'[p] <= updates'
        /\ \A i \in 1..(at'[p] - 1) : sample'[p][Exported[i]] <= updates'
    BY <1>4, <1>8, <1>10, <1>11
  <2> QED BY <2>1, <2>2 DEF NoneAhead
<1>13. GaugesOfThisTime'
  <2>1. ASSUME NEW q \in Exporters \ {p}, NEW i \in 1..(at'[q] - 1)
        PROVE  /\ sample'[q][Exported[i]] >= since'[q]
               /\ \A j \in 1..i : sample'[q][Exported[j]] <= sample'[q][Exported[i]]
    BY <1>4, <1>7 DEF GaugesOfThisTime
  <2>2. ASSUME NEW i \in 1..(at'[p] - 1)
        PROVE  /\ sample'[p][Exported[i]] >= since'[p]
               /\ \A j \in 1..i : sample'[p][Exported[j]] <= sample'[p][Exported[i]]
    BY <1>4, <1>10, <1>11
  <2> QED BY <2>1, <2>2 DEF GaugesOfThisTime
<1> QED BY <1>12, <1>13

LEMMA GaugesStep ==
  ASSUME CollectorInv, Values', [Next]_vars
  PROVE  GaugesUpToDate' /\ NoneAhead' /\ GaugesOfThisTime'
<1>0. /\ Places /\ Values /\ Exclusive /\ GaugesUpToDate /\ NoneAhead /\ GaugesOfThisTime
      /\ updates \in Nat /\ updates' \in Nat
  BY DEF CollectorInv, Values
<1> USE Kinds
<1>1. ASSUME UNCHANGED <<gauge, updates, sample, since>>,
             at'[Updater] = at[Updater], \A p \in Exporters : at'[p] = at[p]
      PROVE  GaugesUpToDate' /\ NoneAhead' /\ GaugesOfThisTime'
  BY <1>0, <1>1, ReadSoFar DEF GaugesUpToDate
<1>2. CASE \/ \E p \in Recorders, r \in Records : Record(p, r)
           \/ Update \/ (\E p \in Writers : Announce(p) \/ Drained(p))
           \/ (\E p \in Recorders : Find(p) \/ Create(p))
           \/ (\E p \in Exporters : RLock(p)) \/ UNCHANGED vars
  <2>1. UNCHANGED <<gauge, updates, sample, since, at>>
    BY <1>2 DEF Record, Update, Announce, Drained, Find, Create, RLock, vars
  <2> QED BY <1>1, <2>1
<1>3. ASSUME NEW p \in Recorders, Add(p)
      PROVE  GaugesUpToDate' /\ NoneAhead' /\ GaugesOfThisTime'
  <2>1. UNCHANGED <<gauge, updates, sample, since>>
    BY <1>3 DEF Add
  <2>2. \A q \in Procs \ {p} : at'[q] = at[q]
    BY <1>0, <1>3 DEF Add, Unlock, Places
  <2> QED BY <1>1, <2>1, <2>2
<1>4. CASE Set
  <2>1. GaugesUpToDate' /\ updates <= updates'
    BY <1>0, <1>4, SetStep
  <2>2. UNCHANGED <<sample, since>> /\ \A p \in Exporters : at'[p] = at[p]
    BY <1>0, <1>4 DEF Set, Unlock, Places
  <2> QED BY <1>0, <2>1, <2>2, ReadSoFar
<1>5. ASSUME NEW p \in Exporters, Read(p)
      PROVE  GaugesUpToDate' /\ NoneAhead' /\ GaugesOfThisTime'
  <2>1. UNCHANGED <<gauge, updates>> /\ at'[Updater] = at[Updater]
    BY <1>0, <1>5 DEF Read, Places
  <2>2. GaugesUpToDate'
    BY <1>0, <2>1 DEF GaugesUpToDate
  <2> QED BY <1>0, <1>5, <2>2, ReadStep
<1>6. ASSUME NEW p \in Exporters, Export(p) \/ Pushed(p)
      PROVE  GaugesUpToDate' /\ NoneAhead' /\ GaugesOfThisTime'
  <2>1. /\ UNCHANGED <<gauge, updates>> /\ at'[Updater] = at[Updater]
        /\ at'[p] = 1 /\ since'[p] <= updates
        /\ \A q \in Exporters \ {p} : at'[q] = at[q] /\ sample'[q] = sample[q] /\ since'[q] = since[q]
    BY <1>0, <1>6 DEF Export, Pushed, Places, Values
  <2>2. GaugesUpToDate'
    BY <1>0, <2>1 DEF GaugesUpToDate
  <2>3. 1..(at'[p] - 1) = {}
    BY <2>1
  <2>4. NoneAhead'
    BY <1>0, <2>1, <2>3 DEF NoneAhead
  <2>5. GaugesOfThisTime'
    BY <1>0, <2>1, <2>3 DEF GaugesOfThisTime
  <2> QED BY <2>2, <2>4, <2>5
<1> QED BY <1>2, <1>3, <1>4, <1>5, <1>6 DEF Next, Step

-----------------------------------------------------------------------------
LEMMA CollectorStep ==
  ASSUME CollectorInv, [Next]_vars
  PROVE  CollectorInv'
<1>1. Places' /\ Values' /\ Exclusive' /\ CreatesNew' /\ RegisteredOnce'
  BY PlacesStep, ValuesStep, ExclusiveStep, NamesStep DEF CollectorInv
<1> QED BY <1>1, GaugesStep DEF CollectorInv

\* No two workers register one name: from the lookup to the registration nobody
\* else is in the maps.
THEOREM NamesRegisteredOnce == Spec => []RegisteredOnce
<1>1. CollectorInv => RegisteredOnce
  BY DEF CollectorInv
<1> QED BY <1>1, InitInv, CollectorStep, PTL DEF Spec

\* The gauges of an export are no older than the last update before it, and no
\* later one is of an earlier update: no callback runs inside an update.
THEOREM GaugesAreOfTheirTime == Spec => []GaugesOfThisTime
<1>1. CollectorInv => GaugesOfThisTime
  BY DEF CollectorInv
<1> QED BY <1>1, InitInv, CollectorStep, PTL DEF Spec
-----------------------------------------------------------------------------
(* Nobody is stuck *)

\* A step without the mutex moves the writer on only, and keeps out no one.
LEMMA WaitsKept ==
  ASSUME WriterWrites, KeptOut, UNCHANGED writer,
         \A q \in Writers : pc[q] \in Claims => pc'[q] \in Claims,
         \A q \in Exporters : pc'[q] = "rwait" => pc[q] = "rwait" \/ writer # NoOne
  PROVE  WriterWrites' /\ KeptOut'
BY DEF WriterWrites, KeptOut, Claims

\* An unlock leaves nobody to wait.
LEMMA WaitsUnlock ==
  ASSUME Places, NEW p \in Writers, Unlock(p)
  PROVE  WriterWrites' /\ KeptOut'
<1>1. writer' = NoOne
  BY UnlockMoves
<1>2. ASSUME NEW q \in Exporters PROVE pc'[q] # "rwait"
  <2>1. q \in Procs \ {p}
    BY Kinds
  <2> QED BY <2>1, UnlockMoves
<1> QED BY <1>1, <1>2 DEF WriterWrites, KeptOut

LEMMA WaitsStep ==
  ASSUME Places, WriterWrites, KeptOut, [Next]_vars
  PROVE  WriterWrites' /\ KeptOut'
<1> USE Kinds
<1>1. ASSUME NEW p \in Recorders, NEW r \in Records, Record(p, r)
      PROVE  WriterWrites' /\ KeptOut'
  BY <1>1, WaitsKept DEF Record, Goto, Places, Claims
<1>2. CASE Update
  BY <1>2, WaitsKept DEF Update, Goto, Places, Claims
<1>3. ASSUME NEW p \in Exporters, Export(p) PROVE WriterWrites' /\ KeptOut'
  BY <1>3, WaitsKept DEF Export, Goto, Places
<1>4. ASSUME NEW p \in Writers, Announce(p) PROVE WriterWrites' /\ KeptOut'
  <2>1. writer' = p /\ pc'[p] = "drain"
    BY <1>4 DEF Announce, Goto, Places
  <2> QED BY <2>1 DEF WriterWrites, KeptOut
<1>5. ASSUME NEW p \in Writers, Drained(p) PROVE WriterWrites' /\ KeptOut'
  BY <1>5, WaitsKept DEF Drained, Goto, Places, Claims
<1>6. ASSUME NEW p \in Recorders, Find(p) \/ Create(p) PROVE WriterWrites' /\ KeptOut'
  BY <1>6, WaitsKept DEF Find, Create, Goto, Places, Claims
<1>7. ASSUME NEW p \in Recorders, Add(p) PROVE WriterWrites' /\ KeptOut'
  <2>1. CASE at[p] = 1
    BY <1>7, <2>1, WaitsKept DEF Add, Goto, Places, Claims
  <2>2. CASE at[p] # 1
    BY <1>7, <2>2, WaitsUnlock DEF Add
  <2> QED BY <2>1, <2>2
<1>8. CASE Set
  <2>1. CASE at[Updater] < 3
    BY <1>8, <2>1, WaitsKept DEF Set
  <2>2. CASE ~(at[Updater] < 3)
    BY <1>8, <2>2, WaitsUnlock DEF Set
  <2> QED BY <2>1, <2>2
<1>9. ASSUME NEW p \in Exporters, RLock(p) PROVE WriterWrites' /\ KeptOut'
  <2>1. CASE MayRead
    BY <1>9, <2>1, WaitsKept DEF RLock, Goto, Places
  <2>2. CASE ~MayRead
    BY <1>9, <2>2, WaitsKept DEF RLock, MayRead, Goto, Places
  <2> QED BY <2>1, <2>2
<1>10. ASSUME NEW p \in Exporters, Read(p) \/ Pushed(p) PROVE WriterWrites' /\ KeptOut'
  BY <1>10, WaitsKept DEF Read, Pushed, Goto, Places
<1>11. CASE UNCHANGED vars
  BY <1>11 DEF vars, WriterWrites, KeptOut
<1> QED BY <1>1, <1>2, <1>3, <1>4, <1>5, <1>6, <1>7, <1>8, <1>9, <1>10, <1>11
        DEF Next, Step

\* The chain of waiting has two links at most: a callback or a writer waits for the
\* writer, and the writer for the callbacks that read, which wait for nobody.
LEMMA TheWriterOrAReader ==
  ASSUME Places, Exclusive, WriterWrites, writer # NoOne
  PROVE  \E q \in Procs : MayGo(q) /\ (q = writer \/ held[q] > 0)
<1>1. writer \in Writers /\ writer \in Procs /\ pc[writer] \in Claims
  BY Kinds DEF WriterWrites, Claims
<1>2. CASE pc[writer] # "drain" \/ \A q \in Procs : held[q] = 0
  <2>1. MayGo(writer)
    BY <1>1, <1>2 DEF MayGo, Claims
  <2> QED BY <1>1, <2>1
<1>3. CASE \E q \in Procs : held[q] # 0
  <2>1. PICK q \in Procs : held[q] # 0
    BY <1>3
  <2>2. pc[q] = "read" /\ held[q] = 1
    BY <2>1 DEF Exclusive
  <2>3. MayGo(q)
    BY <2>2 DEF MayGo
  <2> QED BY <2>2, <2>3
<1> QED BY <1>2, <1>3

LEMMA WaitsForOne ==
  ASSUME Places, Exclusive, WriterWrites, KeptOut
  PROVE  NoneStuck
<1> SUFFICES ASSUME NEW p \in Procs, pc[p] # "idle"
             PROVE  MayGo(p) \/ \E q \in Procs : MayGo(q) /\ (q = writer \/ held[q] > 0)
  BY DEF NoneStuck
<1>1. CASE writer # NoOne
  BY <1>1, TheWriterOrAReader
<1>2. CASE writer = NoOne
  <2>1. pc[p] # "rwait"
    BY <1>2, Kinds DEF KeptOut, Places
  <2>2. pc[p] # "drain"
    <3>1. CASE p \in Writers
      BY <1>2, <3>1, Kinds DEF Exclusive
    <3>2. CASE p \notin Writers
      BY <3>2, Kinds DEF Places
    <3> QED BY <3>1, <3>2
  <2> QED BY <1>2, <2>1, <2>2 DEF MayGo, Free
<1> QED BY <1>1, <1>2

\* Nobody who waits for the mutex waits in vain: somebody has it who can go on, also
\* while an export calls back into it and a writer keeps callbacks out.
THEOREM NobodyIsStuck == Spec => []NoneStuck
<1>1. Init => WriterWrites /\ KeptOut
  BY Kinds DEF Init, WriterWrites, KeptOut
<1>2. CollectorInv => Places /\ Exclusive
  BY DEF CollectorInv
<1>3. CollectorInv /\ WriterWrites /\ KeptOut /\ [Next]_vars
        => CollectorInv' /\ WriterWrites' /\ KeptOut'
  BY <1>2, CollectorStep, WaitsStep
<1>4. CollectorInv /\ WriterWrites /\ KeptOut => NoneStuck
  BY <1>2, WaitsForOne
<1> QED BY <1>1, <1>3, <1>4, InitInv, PTL DEF Spec
=============================================================================
