--------------------------- MODULE Config_proofs ---------------------------
(***************************************************************************)
(* Proofs about Config, for any callers, subscribers, capacity and number  *)
(* of changes to the file: types, that no configuration is put back, what  *)
(* a subscriber can rely on, and that the watcher passes no change over.   *)
(***************************************************************************)
EXTENDS Config, SequenceTheorems, TLAPS

\* What a loader that holds the lock has read is no older than what is published.
ReadIsNew ==
  \A p \in Loaders : pc[p] = "publish" => read[p] \in Versions /\ read[p] >= config

\* Who is no subscriber has no news.
NoNews == \A s \in Subscribers : s \notin Range(subscribers) => channel[s] = <<>>

\* What a subscriber will know of once its news are read
Told(s) == IF channel[s] = <<>> THEN known[s] ELSE Last(channel[s]).new
InTouch(s) ==
  /\ \A n \in DOMAIN channel[s] :
       channel[s][n].old = IF n = 1 THEN known[s] ELSE channel[s][n - 1].new
  /\ config = Told(s)
KeptUp == \A s \in Range(subscribers) : missed[s] \/ InTouch(s)

ConfigInv == TypeOK /\ ReadIsNew /\ NoNews /\ KeptUp

LEMMA Loads == Watcher \in Loaders /\ Nobody \notin Loaders /\ Callers \subseteq Loaders
BY ConfigAssumption DEF Loaders

LEMMA Initially == Init => ConfigInv
<1> SUFFICES ASSUME Init PROVE ConfigInv
  OBVIOUS
<1> USE ConfigAssumption, Loads DEF Init
<1>1. TypeOK
  <2>1. file \in [exists : BOOLEAN, version : Versions, valid : BOOLEAN, time : 1 .. MaxTime]
    BY DEF Versions
  <2>2. /\ pc \in [Loaders -> {"none", "starting", "waiting", "idle", "reload", "publish", "ended"}]
        /\ \A p \in Loaders : pc[p] = "publish" <=> mutex = p
    OBVIOUS
  <2>3. <<>> \in Seq(Updates) /\ subscribers \in Seq(Subscribers) /\ Len(<<>>) = 0
    OBVIOUS
  <2>4. channel \in [Subscribers -> Seq(Updates)] /\ \A s \in Subscribers : channel[s] = <<>>
    BY <2>3
  <2>5. file.version = 1 /\ 0 \in 0 .. 1 /\ 0 \in 0 .. MaxTime
    OBVIOUS
  <2>6. \A s \in Subscribers : Len(channel[s]) <= Capacity
    BY <2>3, <2>4
  <2>7. read \in [Loaders -> 0 .. file.version] /\ config \in 0 .. file.version
    BY <2>5 DEF NoConfig
  <2>8. known \in [Subscribers -> 0 .. MaxVersion] /\ missed \in [Subscribers -> BOOLEAN]
    BY DEF NoConfig
  <2>9. mutex \in Loaders \cup {Nobody} /\ lastModTime \in 0 .. MaxTime
        /\ done \in BOOLEAN /\ steady \in BOOLEAN
    BY <2>5
  <2> QED BY <2>1, <2>2, <2>3, <2>4, <2>6, <2>7, <2>8, <2>9 DEF TypeOK
<1>2. ReadIsNew /\ NoNews
  BY DEF ReadIsNew, NoNews
<1>3. Range(subscribers) = {}
  BY DEF Range
<1> QED BY <1>1, <1>2, <1>3 DEF ConfigInv, KeptUp

LEMMA Published ==
  ASSUME ConfigInv, NEW p \in Loaders, Publish(p)
  PROVE  ConfigInv'
<1> USE ConfigAssumption, Loads DEF ConfigInv
<1>1. /\ pc[p] = "publish" /\ config' = read[p] /\ read[p] \in Versions
      /\ pc' = [pc EXCEPT ![p] = Rest(p)] /\ mutex' = Nobody
      /\ UNCHANGED <<file, read, lastModTime, subscribers, known, done, steady>>
  BY DEF Publish, Goto, ReadIsNew
<1>2. ASSUME NEW s \in Subscribers
      PROVE  channel'[s] \in Seq(Updates) /\ Len(channel'[s]) <= Capacity
  <2>1. CASE config # NoConfig /\ Notified(s)
    <3> DEFINE u == [old |-> config, new |-> read[p]]
    <3>1. config \in Versions
      BY <2>1 DEF TypeOK, NoConfig, Versions
    <3>2. u \in Updates
      BY <1>1, <3>1 DEF Updates
    <3> HIDE DEF u
    <3>3. channel'[s] = Append(channel[s], u)
      BY <2>1 DEF Publish, u
    <3>4. Len(channel[s]) < Capacity
      BY <2>1 DEF Notified, Full, TypeOK
    <3> QED BY <3>2, <3>3, <3>4 DEF TypeOK
  <2>2. CASE ~(config # NoConfig /\ Notified(s))
    BY <2>2 DEF Publish, TypeOK
  <2> QED BY <2>1, <2>2
<1>3. TypeOK'
  <2>1. /\ pc' \in [Loaders -> {"none", "starting", "waiting", "idle", "reload", "publish", "ended"}]
        /\ \A q \in Loaders : pc'[q] = "publish" <=> mutex' = q
    BY <1>1 DEF TypeOK, Rest
  <2>2. channel' = [s \in Subscribers |-> channel'[s]] /\ missed' \in [Subscribers -> BOOLEAN]
    BY DEF Publish, TypeOK
  <2>3. config' \in 0 .. file.version
    BY <1>1 DEF TypeOK
  <2> QED BY <1>1, <1>2, <2>1, <2>2, <2>3 DEF TypeOK
<1>4. ReadIsNew' /\ NoNews'
  <2>1. \A q \in Loaders : pc'[q] # "publish"
    BY <1>1, <1>3 DEF TypeOK
  <2>2. \A s \in Subscribers : s \notin Range(subscribers) => channel'[s] = channel[s]
    BY DEF Publish, Notified
  <2> QED BY <1>1, <2>1, <2>2 DEF ReadIsNew, NoNews
<1>5. KeptUp'
  <2> SUFFICES ASSUME NEW s \in Range(subscribers), ~missed'[s] PROVE InTouch(s)'
    BY <1>1 DEF KeptUp
  <2>1. s \in Subscribers
    BY DEF TypeOK, Range
  <2>2. ~missed[s] /\ config # NoConfig /\ ~Full(s)
    BY <2>1 DEF Publish
  <2>3. channel'[s] = Append(channel[s], [old |-> config, new |-> read[p]])
    BY <2>1, <2>2 DEF Publish, Notified
  <2>4. InTouch(s)
    BY <2>2 DEF KeptUp
  <2> DEFINE u == [old |-> config, new |-> read[p]]
  <2>5. u.old = config /\ u.new = config'
    BY <1>1
  <2>6. channel'[s] = Append(channel[s], u)
    BY <2>3
  <2> HIDE DEF u
  <2>7. channel[s] \in Seq(Updates)
    BY <2>1 DEF TypeOK
  <2>8. known'[s] = known[s]
    BY <1>1
  <2>9. Told(s)' = config'
    BY <2>5, <2>6, <2>7 DEF Told, Last
  <2>10. ASSUME NEW n \in DOMAIN channel'[s]
         PROVE  channel'[s][n].old = IF n = 1 THEN known[s] ELSE channel'[s][n - 1].new
    <3>1. CASE n \in DOMAIN channel[s]
      BY <2>4, <2>6, <2>7, <3>1 DEF InTouch
    <3>2. CASE n = Len(channel[s]) + 1
      BY <2>4, <2>5, <2>6, <2>7, <3>2 DEF InTouch, Told, Last
    <3> QED BY <2>6, <2>7, <3>1, <3>2
  <2> QED BY <2>8, <2>9, <2>10 DEF InTouch
<1> QED BY <1>3, <1>4, <1>5

LEMMA Watched ==
  ASSUME ConfigInv, NEW s \in Subscribers, Watch(s)
  PROVE  ConfigInv'
<1> USE ConfigAssumption, Loads DEF ConfigInv
<1>1. /\ s \notin Range(subscribers) /\ subscribers' = Append(subscribers, s)
      /\ known' = [known EXCEPT ![s] = config]
      /\ UNCHANGED <<file, mutex, config, read, lastModTime, channel, missed, done, steady>>
  BY DEF Watch
<1>2. pc' = pc \/ (pc[Watcher] = "none" /\ pc' = [pc EXCEPT ![Watcher] = "starting"])
  BY DEF Watch, Goto
<1>3. TypeOK'
  <2>1. subscribers' \in Seq(Subscribers)
    BY <1>1 DEF TypeOK
  <2>2. known' \in [Subscribers -> 0 .. MaxVersion]
    BY <1>1 DEF TypeOK, Versions
  <2>3. /\ pc' \in [Loaders -> {"none", "starting", "waiting", "idle", "reload", "publish", "ended"}]
        /\ \A p \in Loaders : pc'[p] = "publish" <=> mutex = p
    BY <1>2 DEF TypeOK
  <2> QED BY <1>1, <2>1, <2>2, <2>3 DEF TypeOK
<1>4. Range(subscribers)' = Range(subscribers) \cup {s}
  <2>1. subscribers \in Seq(Subscribers)
    BY DEF TypeOK
  <2>2. DOMAIN subscribers' = DOMAIN subscribers \cup {Len(subscribers) + 1}
    BY <1>1, <2>1
  <2>3. /\ \A n \in DOMAIN subscribers : subscribers'[n] = subscribers[n]
        /\ subscribers'[Len(subscribers) + 1] = s
    BY <1>1, <2>1
  <2> QED BY <2>2, <2>3 DEF Range
<1>5. ReadIsNew' /\ NoNews'
  BY <1>1, <1>2, <1>4 DEF ReadIsNew, NoNews, TypeOK
<1>6. KeptUp'
  <2> SUFFICES ASSUME NEW t \in Range(subscribers)', ~missed'[t] PROVE InTouch(t)'
    BY <1>1 DEF KeptUp
  <2>1. CASE t = s
    BY <1>1, <2>1 DEF InTouch, Told, NoNews, TypeOK
  <2>2. CASE t \in Range(subscribers) /\ t # s
    BY <1>1, <2>2 DEF KeptUp, InTouch, Told, TypeOK
  <2> QED BY <1>4, <2>1, <2>2
<1> QED BY <1>3, <1>5, <1>6

LEMMA ReceivedOne ==
  ASSUME ConfigInv, NEW s \in Subscribers, Receive(s)
  PROVE  ConfigInv'
<1> USE ConfigAssumption, Loads DEF ConfigInv
<1>1. /\ channel[s] # <<>> /\ known' = [known EXCEPT ![s] = Head(channel[s]).new]
      /\ channel' = [channel EXCEPT ![s] = Tail(channel[s])]
      /\ UNCHANGED <<file, mutex, config, read, pc, lastModTime, subscribers, missed, done, steady>>
  BY DEF Receive
<1>2. channel[s] \in Seq(Updates) /\ channel[s][1] \in Updates /\ Len(channel[s]) <= Capacity
  BY <1>1 DEF TypeOK
<1>3. Tail(channel[s]) \in Seq(Updates) /\ Len(Tail(channel[s])) <= Capacity
  BY <1>1, <1>2
<1>4. s \in Range(subscribers)
  BY <1>1 DEF NoNews
<1>5. TypeOK'
  <2>1. Head(channel[s]).new \in 0 .. MaxVersion
    BY <1>1, <1>2 DEF Updates, Versions
  <2>2. known' \in [Subscribers -> 0 .. MaxVersion]
    BY <1>1, <2>1 DEF TypeOK
  <2>3. /\ channel' \in [Subscribers -> Seq(Updates)]
        /\ \A t \in Subscribers : Len(channel'[t]) <= Capacity
    BY <1>1, <1>3 DEF TypeOK
  <2> QED BY <1>1, <2>2, <2>3 DEF TypeOK
<1>6. ReadIsNew' /\ NoNews'
  BY <1>1, <1>4 DEF ReadIsNew, NoNews, TypeOK
<1>7. KeptUp'
  <2> SUFFICES ASSUME NEW t \in Range(subscribers), ~missed[t] PROVE InTouch(t)'
    BY <1>1 DEF KeptUp
  <2>1. InTouch(t)
    BY DEF KeptUp
  <2>2. CASE t = s
    <3> DEFINE news == channel[s]
    <3>1. news \in Seq(Updates) /\ news # <<>>
      BY <1>1, <1>2
    <3>2. channel'[s] = Tail(news) /\ known'[s] = news[1].new
      BY <1>1, <3>1 DEF TypeOK
    <3>3. \A n \in DOMAIN Tail(news) : n + 1 \in DOMAIN news /\ Tail(news)[n] = news[n + 1]
      BY <3>1
    <3>4. \A n \in DOMAIN news : n # 1 => news[n].old = news[n - 1].new
      BY <2>1, <2>2 DEF InTouch
    <3>5. config = news[Len(news)].new
      BY <2>1, <2>2, <3>1 DEF InTouch, Told, Last
    <3> HIDE DEF news
    <3> DEFINE rest == Tail(news)
    <3>8. rest \in Seq(Updates) /\ Len(rest) = Len(news) - 1
      BY <3>1
    <3>10. rest = <<>> <=> Len(rest) = 0
      BY <3>8, EmptySeq
    <3>9. \A n \in 1 .. Len(rest) : n + 1 \in DOMAIN news /\ rest[n] = news[n + 1]
      BY <3>1, <3>3
    <3> HIDE DEF rest
    <3>6. \A n \in DOMAIN rest :
            rest[n].old = IF n = 1 THEN news[1].new ELSE rest[n - 1].new
      <4> SUFFICES ASSUME NEW n \in 1 .. Len(rest)
                   PROVE  rest[n].old = IF n = 1 THEN news[1].new ELSE rest[n - 1].new
        BY <3>8
      <4>1. rest[n].old = news[n].new
        BY <3>4, <3>9
      <4>2. n # 1 => n - 1 \in 1 .. Len(rest)
        BY <3>8
      <4>3. n # 1 => rest[n - 1] = news[n]
        BY <3>9, <4>2
      <4> QED BY <4>1, <4>3
    <3>7. config = IF rest = <<>> THEN news[1].new ELSE Last(rest).new
      BY <3>1, <3>5, <3>8, <3>9, <3>10 DEF Last
    <3> QED BY <1>1, <2>2, <3>2, <3>6, <3>7 DEF InTouch, Told, rest
  <2>3. CASE t # s
    BY <1>1, <2>1, <2>3 DEF InTouch, Told, TypeOK
  <2> QED BY <2>2, <2>3
<1> QED BY <1>5, <1>6, <1>7

LEMMA ConfigStep == ConfigInv /\ [Next]_vars => ConfigInv'
<1> SUFFICES ASSUME ConfigInv, [Next]_vars PROVE ConfigInv'
  OBVIOUS
<1> USE ConfigAssumption, Loads
<1>1. ASSUME NEW p \in Loaders, Publish(p) PROVE ConfigInv'
  BY <1>1, Published
<1>2. ASSUME NEW s \in Subscribers, Watch(s) PROVE ConfigInv'
  BY <1>2, Watched
<1>3. ASSUME NEW s \in Subscribers, Receive(s) PROVE ConfigInv'
  BY <1>3, ReceivedOne
<1> SUFFICES ASSUME UNCHANGED <<config, told>>,
                    \/ WriteFile \/ RemoveFile
                    \/ \E p \in Loaders : ReadFile(p) \/ LoadFails(p)
                    \/ Cancel \/ FirstStat \/ Stat \/ StatFails \/ End \/ UNCHANGED vars
             PROVE  ConfigInv'
  BY <1>1, <1>2, <1>3
     DEF Next, vars, told, WriteFile, RemoveFile, ReadFile, LoadFails, Cancel, FirstStat, Stat,
         StatFails, End
<1>4. NoNews' /\ KeptUp'
  BY DEF ConfigInv, NoNews, KeptUp, InTouch, Told, told
<1>5. TypeOK' /\ ReadIsNew'
  <2> USE DEF ConfigInv
  <2>1. CASE WriteFile
    BY <2>1 DEF WriteFile, TypeOK, ReadIsNew, Versions, told
  <2>2. CASE RemoveFile
    BY <2>2 DEF RemoveFile, TypeOK, ReadIsNew, Versions, told
  <2>3. ASSUME NEW p \in Loaders, ReadFile(p) PROVE TypeOK' /\ ReadIsNew'
    BY <2>3 DEF ReadFile, MayRead, Goto, TypeOK, ReadIsNew, Versions, told
  <2>4. ASSUME NEW p \in Loaders, LoadFails(p) PROVE TypeOK' /\ ReadIsNew'
    BY <2>4 DEF LoadFails, MayRead, Rest, Goto, TypeOK, ReadIsNew, told
  <2>5. CASE Cancel \/ StatFails \/ End \/ UNCHANGED vars
    BY <2>5 DEF Cancel, StatFails, Continue, End, Goto, vars, TypeOK, ReadIsNew, told
  <2>6. CASE FirstStat \/ Stat
    <3>1. lastModTime' \in 0 .. MaxTime
      BY <2>6 DEF FirstStat, Stat, TypeOK
    <3>2. /\ pc[Watcher] \in {"starting", "waiting"}
          /\ pc' = [pc EXCEPT ![Watcher] = IF Stat THEN "reload" ELSE "waiting"]
          /\ steady' \in BOOLEAN /\ UNCHANGED <<file, mutex, config, read, told, done>>
      BY <2>6 DEF FirstStat, Stat, Goto, TypeOK
    <3> QED BY <3>1, <3>2 DEF TypeOK, ReadIsNew, told
  <2> QED BY <2>1, <2>2, <2>3, <2>4, <2>5, <2>6
<1> QED BY <1>4, <1>5 DEF ConfigInv

LEMMA ConfigInvariance == Spec => []ConfigInv
BY Initially, ConfigStep, PTL DEF Spec

\* Whatever loads, watches and writes, the types are right, and the lock is held
\* by the one that publishes.
THEOREM ConfigTypes == Spec => []TypeOK
BY ConfigInvariance, PTL DEF ConfigInv

\* The news of a subscriber whose channel was never full lead to the configuration.
THEOREM SubscribersKeepUp == Spec => []KeepsUp
<1>1. ConfigInv => KeepsUp
  BY DEF ConfigInv, KeptUp, KeepsUp, InTouch, Told
<1> QED BY <1>1, ConfigInvariance, PTL

\* No load replaces a configuration by one that was in the file before it.
THEOREM NothingPutBack == Spec => NeverBackwards
<1>1. ConfigInv /\ [Next]_vars => [config' >= config]_vars
  <2> SUFFICES ASSUME ConfigInv, Next PROVE config' >= config
    BY DEF vars
  <2>1. CASE \E p \in Loaders : Publish(p)
    BY <2>1 DEF ConfigInv, ReadIsNew, Publish
  <2>2. CASE UNCHANGED config
    BY <2>2 DEF ConfigInv, TypeOK
  <2> QED BY <2>1, <2>2
          DEF Next, told, WriteFile, RemoveFile, ReadFile, LoadFails, Watch, Receive, Cancel,
              FirstStat, Stat, StatFails, End
<1> QED BY <1>1, ConfigInvariance, PTL DEF Spec, NeverBackwards
-----------------------------------------------------------------------------
(* The watcher *)

NoticeInv == ConfigInv /\ Watches /\ NotAhead /\ ChangesNoticed

LEMMA InitiallyNoticed == Init => NoticeInv
<1> SUFFICES ASSUME Init PROVE NoticeInv
  OBVIOUS
<1>1. ConfigInv
  BY Initially
<1>2. pc[Watcher] = "none" /\ ~done /\ lastModTime = 0 /\ file.time = 1
  BY Loads DEF Init
<1> QED BY <1>1, <1>2 DEF NoticeInv, Watches, NotAhead, ChangesNoticed

\* A change while all is steady moves the time of the file beyond what was noted.
LEMMA WriteNoticed ==
  ASSUME NoticeInv, WriteFile
  PROVE  Watches' /\ NotAhead' /\ ChangesNoticed'
<1>1. UNCHANGED <<config, read, pc, lastModTime, done>>
  BY DEF WriteFile
<1>2. steady' => steady /\ file'.time > file.time
  <2>1. PICK valid \in BOOLEAN, time \in 1 .. MaxTime :
          /\ file' = [exists |-> TRUE, version |-> file.version + 1, valid |-> valid, time |-> time]
          /\ steady' = (steady /\ time > file.time)
    BY DEF WriteFile
  <2>2. file'.time = time
    BY <2>1
  <2> QED BY <2>1, <2>2
<1>3. file.time \in Int /\ file'.time \in Int /\ lastModTime \in Int
  BY DEF NoticeInv, ConfigInv, TypeOK, WriteFile
<1>4. pc[Watcher] \in {"none", "starting", "waiting", "idle", "reload", "publish", "ended"}
  BY Loads DEF NoticeInv, ConfigInv, TypeOK
<1>5. steady' => file'.time > lastModTime
  BY <1>2, <1>3 DEF NoticeInv, NotAhead
<1>6. steady' => pc[Watcher] \notin {"idle", "ended"}
  BY <1>2 DEF NoticeInv, Watches
<1>7. Watches'
  BY <1>1, <1>2 DEF NoticeInv, Watches
<1>8. NotAhead'
  BY <1>1, <1>3, <1>5 DEF NotAhead
<1>9. ChangesNoticed'
  BY <1>1, <1>4, <1>5, <1>6 DEF ChangesNoticed
<1> QED BY <1>7, <1>8, <1>9

\* Who publishes has read the file under the lock: nobody else is about to.
LEMMA PublishNoticed ==
  ASSUME NoticeInv, NEW p \in Loaders, Publish(p)
  PROVE  Watches' /\ NotAhead' /\ ChangesNoticed'
<1>1. /\ pc[p] = "publish" /\ config' = read[p] /\ pc' = [pc EXCEPT ![p] = Rest(p)]
      /\ UNCHANGED <<file, read, lastModTime, done, steady>>
  BY DEF Publish, Goto
<1>2. pc \in [Loaders -> {"none", "starting", "waiting", "idle", "reload", "publish", "ended"}]
  BY DEF NoticeInv, ConfigInv, TypeOK
<1>3. read[p] >= config /\ read[p] \in 0 .. file.version /\ config \in 0 .. file.version
      /\ file.version \in Nat
  <2>1. file.version \in Versions /\ read \in [Loaders -> 0 .. file.version]
        /\ config \in 0 .. file.version
    BY DEF NoticeInv, ConfigInv, TypeOK
  <2>2. file.version \in Nat
    BY <2>1, ConfigAssumption DEF Versions
  <2>3. read[p] >= config
    BY <1>1 DEF NoticeInv, ConfigInv, ReadIsNew
  <2> QED BY <2>1, <2>2, <2>3
<1>4. config' # file.version => config # file.version
  BY <1>1, <1>3
<1>5. CASE p = Watcher
  <2>1. pc'[Watcher] = "waiting"
    BY <1>1, <1>2, <1>5 DEF Rest
  <2> QED BY <1>1, <1>4, <1>5, <2>1 DEF NoticeInv, Watches, NotAhead, ChangesNoticed
<1>6. CASE p # Watcher
  <2>1. pc'[Watcher] = pc[Watcher]
    BY <1>1, <1>2, <1>6, Loads
  <2> QED BY <1>1, <1>4, <2>1 DEF NoticeInv, Watches, NotAhead, ChangesNoticed
<1> QED BY <1>5, <1>6

LEMMA NoticeStep ==
  ASSUME NoticeInv, [Next]_vars
  PROVE  NoticeInv'
<1> USE Loads
<1>1. ConfigInv'
  BY ConfigStep DEF NoticeInv
<1>2. pc \in [Loaders -> {"none", "starting", "waiting", "idle", "reload", "publish", "ended"}]
  BY DEF NoticeInv, ConfigInv, TypeOK
<1>3. Watches /\ NotAhead /\ ChangesNoticed
  BY DEF NoticeInv
<1>4. CASE WriteFile
  BY <1>1, <1>4, WriteNoticed DEF NoticeInv
<1>5. CASE \E p \in Loaders : Publish(p)
  BY <1>1, <1>5, PublishNoticed DEF NoticeInv
<1>6. CASE RemoveFile
  <2>1. /\ ~file'.exists /\ file'.time = file.time
        /\ UNCHANGED <<config, read, pc, lastModTime, done, steady>>
    BY <1>6 DEF RemoveFile, NoticeInv, ConfigInv, TypeOK
  <2> QED BY <1>1, <1>3, <2>1 DEF NoticeInv, Watches, NotAhead, ChangesNoticed
<1>7. ASSUME NEW p \in Loaders, ReadFile(p) PROVE NoticeInv'
  <2>1. /\ pc[p] \in {"idle", "reload"} /\ pc' = [pc EXCEPT ![p] = "publish"]
        /\ read' = [read EXCEPT ![p] = file.version]
        /\ UNCHANGED <<file, config, lastModTime, done, steady>>
    BY <1>7 DEF ReadFile, MayRead, Goto
  <2>2. CASE p = Watcher
    <3>1. pc'[Watcher] = "publish" /\ read'[Watcher] = file.version
      BY <1>2, <2>1, <2>2 DEF NoticeInv, ConfigInv, TypeOK
    <3> QED BY <1>1, <1>3, <2>1, <3>1 DEF NoticeInv, Watches, NotAhead, ChangesNoticed
  <2>3. CASE p # Watcher
    <3>1. pc'[Watcher] = pc[Watcher] /\ read'[Watcher] = read[Watcher]
      BY <1>2, <2>1, <2>3 DEF NoticeInv, ConfigInv, TypeOK
    <3> QED BY <1>1, <1>3, <2>1, <3>1 DEF NoticeInv, Watches, NotAhead, ChangesNoticed
  <2> QED BY <2>2, <2>3
<1>8. ASSUME NEW p \in Loaders, LoadFails(p) PROVE NoticeInv'
  <2>1. /\ pc[p] \in {"idle", "reload"} /\ pc' = [pc EXCEPT ![p] = Rest(p)]
        /\ UNCHANGED <<file, config, read, lastModTime, done>>
        /\ steady' => steady /\ ~(p = Watcher /\ file.exists /\ file.valid)
    BY <1>8 DEF LoadFails, MayRead, Goto
  <2>2. CASE p = Watcher
    <3>1. pc'[Watcher] = "waiting"
      BY <1>2, <2>1, <2>2 DEF Rest
    <3> QED BY <1>1, <1>3, <2>1, <2>2, <3>1 DEF NoticeInv, Watches, NotAhead, ChangesNoticed
  <2>3. CASE p # Watcher
    <3>1. pc'[Watcher] = pc[Watcher]
      BY <1>2, <2>1, <2>3
    <3> QED BY <1>1, <1>3, <2>1, <3>1 DEF NoticeInv, Watches, NotAhead, ChangesNoticed
  <2> QED BY <2>2, <2>3
<1>9. CASE \E s \in Subscribers : Watch(s)
  <2>1. /\ pc' = pc \/ (pc[Watcher] = "none" /\ pc' = [pc EXCEPT ![Watcher] = "starting"])
        /\ UNCHANGED <<file, config, read, lastModTime, done, steady>>
    BY <1>9 DEF Watch, Goto
  <2>2. pc'[Watcher] = pc[Watcher] \/ pc'[Watcher] = "starting"
    BY <1>2, <2>1
  <2> QED BY <1>1, <1>3, <2>1, <2>2 DEF NoticeInv, Watches, NotAhead, ChangesNoticed
<1>10. CASE (\E s \in Subscribers : Receive(s)) \/ StatFails \/ UNCHANGED vars
  <2>1. UNCHANGED <<file, config, read, pc, lastModTime, done, steady>>
    BY <1>10 DEF Receive, StatFails, Continue, vars
  <2> QED BY <1>1, <1>3, <2>1 DEF NoticeInv, Watches, NotAhead, ChangesNoticed
<1>11. CASE Cancel
  BY <1>1, <1>3, <1>11 DEF Cancel, told, NoticeInv, Watches, NotAhead, ChangesNoticed
<1>12. CASE FirstStat
  <2>1. /\ pc'[Watcher] = "waiting" /\ (steady' => steady /\ config' = file'.version)
        /\ UNCHANGED done
    BY <1>2, <1>12 DEF FirstStat, Goto
  <2>2. file'.time \in Nat /\ lastModTime' \in {0, file'.time}
    BY <1>12 DEF FirstStat, NoticeInv, ConfigInv, TypeOK
  <2>3. lastModTime' <= file'.time
    BY <2>2
  <2> QED BY <1>1, <1>3, <2>1, <2>3 DEF NoticeInv, Watches, NotAhead, ChangesNoticed
<1>13. CASE Stat
  <2>1. /\ pc'[Watcher] = "reload" /\ lastModTime' = file.time
        /\ UNCHANGED <<file, done, steady>>
    BY <1>2, <1>13 DEF Stat, Goto
  <2>2. file.time \in Nat
    BY DEF NoticeInv, ConfigInv, TypeOK
  <2> QED BY <1>1, <1>3, <2>1, <2>2 DEF NoticeInv, Watches, NotAhead, ChangesNoticed
<1>14. CASE End
  <2>1. pc'[Watcher] = "ended" /\ done /\ UNCHANGED <<file, config, read, lastModTime, done, steady>>
    BY <1>2, <1>14 DEF End, Goto
  <2> QED BY <1>1, <1>3, <2>1 DEF NoticeInv, Watches, NotAhead, ChangesNoticed
<1> QED BY <1>4, <1>5, <1>6, <1>7, <1>8, <1>9, <1>10, <1>11, <1>12, <1>13, <1>14 DEF Next

\* Although the time is noted before the file is loaded and never taken back, although
\* other callers load it meanwhile and a load may fail on what is no configuration, no
\* change that stays is passed over: the safety part of CatchesUp.
THEOREM NoChangePassedOver == Spec => []ChangesNoticed
<1>1. NoticeInv => ChangesNoticed
  BY DEF NoticeInv
<1> QED BY <1>1, InitiallyNoticed, NoticeStep, PTL DEF Spec
=============================================================================
